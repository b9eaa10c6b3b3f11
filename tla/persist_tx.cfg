SPECIFICATION Spec
CONSTANTS
  s1 = s1  s2 = s2  s3 = s3  u1 = u1  p1 = p1  p2 = p2
  Submissions = {s1, s2, s3}
  Users = {u1}
  Problems = {p1, p2}
  owner <- OneOwner
  problemOf <- SomeProblems
  languageOf <- SomeLanguages
  Reaper = Reaper
  SolveGoal = 1
  StreakGoal = 2
  SubmitGoal = 2
  MaxWorkers = 2
  MaxDay = 2
  Faults = {"abort", "reaper"}
INVARIANTS
  TypeOK
  OnlyReaperDeadlocks
  ProfileIsTrue
PROPERTY ImplementsLedger
CHECK_DEADLOCK FALSE
