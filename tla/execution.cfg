SPECIFICATION ExecutionSpec
CONSTANTS
  s1 = s1  s2 = s2  s3 = s3  s4 = s4  u1 = u1  u2 = u2  p1 = p1  p2 = p2
  \* SubmissionLedger
  Submissions = {s1, s2, s3, s4}
  Users = {u1, u2}
  Problems = {p1, p2}
  owner <- SomeOwners
  problemOf <- SomeProblems
  Verdicts = {"ACCEPTED", "WRONG_ANSWER"}
  NoVerdict = "NONE"
  \* Sandbox
  Judges = {1, 2}
  Boxes = {1, 2}
  Tests = {1, 2}
  Programs <- SomePrograms
  BoxTtl = 1
  StaleAfter = 2
  LastTick = 2
  \* Supervisor
  TimeLimit = 1
  WallLimit = 1
  MemoryLimit = 1
  MaxOutput = 1
  PipeSize = 2
  Environments = {TRUE, FALSE}
  MaxCpu = 2
  MaxWall = 2
  MaxMemory = 2
  MaxWritten = 3
  \* Runs
  RunIds = {1}
  Runners = {1, 2, 3}
  RunTtl = 2
  MaxCrashes = 2
  Brokers = {TRUE, FALSE}
  \* Contests
  Participants = {u1, u2}
  ContestProblems = {p1}
  ContestVerdicts = {"ACCEPTED", "WRONG_ANSWER"}
  Points = 100
  Penalty = 20
  Starts = {1}
  Ends = {2}
  Subs = {1, 2}
  Viewers = {1}
  Delay = 1
  CacheTtl = 1
  MaxClock = 3
  \* Assistant
  Asks = {1, 2, 3}
  Conversations = {1, 2}
  MaxConversations = 1
  MaxMessages = 2
  \* LiveView
  Pages = {"detail", "workspace"}
  MaxReconnects = 1
  MaxRetries = 1
INVARIANTS
  ExecutionTypeOK
  CountersMatchBooks
  VerdictIsDeserved
  NoBoxIsForgotten
  ReportIsTrue
  PollConfirmsEvents
  CacheCatchesUp
  OverIsMetered
  RestsOnTheRow
PROPERTIES
  RunMovesForward
  PointsNeverDrop
  StandingsSettle
CHECK_DEADLOCK FALSE
