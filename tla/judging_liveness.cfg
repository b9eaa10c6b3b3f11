SPECIFICATION FairSpec
CONSTANTS
  s1 = s1  s2 = s2  s3 = s3  u1 = u1  p1 = p1  w1 = w1  w2 = w2
  NoJob = NoJob
  Submissions = {s1}
  Users = {u1}
  Problems = {p1}
  owner <- OneOwner
  problemOf <- OneProblem
  Workers = {w1, w2}
  MaxInFlight = 1
  MaxConcurrent = 1
  MaxMessages = 2
  Faults = {"broker_reply_lost", "commit_reply_lost", "message_lost", "redelivery",
            "worker_crash", "worker_abort", "api_crash", "event_lost"}
PROPERTY EventuallyClosed
CHECK_DEADLOCK FALSE
