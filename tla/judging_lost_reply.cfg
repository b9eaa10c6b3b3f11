SPECIFICATION Spec
CONSTANTS
  s1 = s1  s2 = s2  s3 = s3  u1 = u1  p1 = p1  w1 = w1  w2 = w2
  NoJob = NoJob
  Submissions = {s1}
  Users = {u1}
  Problems = {p1}
  owner <- OneOwner
  problemOf <- OneProblem
  Workers = {w1}
  MaxInFlight = 1
  MaxConcurrent = 1
  MaxMessages = 1
  Faults = {"broker_reply_lost"}
INVARIANT NoFailedIsCounted
CHECK_DEADLOCK FALSE
