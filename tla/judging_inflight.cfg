SPECIFICATION Spec
CONSTANTS
  s1 = s1  s2 = s2  s3 = s3  u1 = u1  p1 = p1  w1 = w1  w2 = w2
  NoJob = NoJob
  Submissions = {s1, s2, s3}
  Users = {u1}
  Problems = {p1}
  owner <- OneOwner
  problemOf <- OneProblem
  Workers = {w1}
  MaxInFlight = 1
  MaxConcurrent = 2
  MaxMessages = 1
  Faults = {"api_crash"}
INVARIANT InFlightBounded
SYMMETRY Symmetry
CHECK_DEADLOCK FALSE
