SPECIFICATION Spec
CONSTANTS
  u1 = u1  u2 = u2
  \* Sessions
  Requests = {1, 2}
  Tokens = {1, 2, 3}
  LinkTokens = {1, 2}
  Families = {1, 2}
  Links = {11, 12}
  Environments = {{"reply_lost"}, {"redis_down"}, {"disabled"}, {"expiry"}, {"access_expiry"},
                  {"reset"}, {"second_session"}}
  \* RateLimiter
  MaxHits = 2
  Window = 2
  Hits = {1, 2, 3, 4}
  MaxTime = 3
  \* Community
  Members = {u1, u2}
  Moderators = {u1}
  NoMember = NoMember
  Threads = {1}
  Comments = {11}
  Reports = {21, 22}
  Calls = {1, 2, 3}
  \* Catalogue
  Problems = {1, 2}
  Slugs = {"a", "b", "c"}
  Ready = {1}
  MaxVersion = 3
  MaxTags = 1
  Editors = {1, 2}
  Readers = {1}
  Judgings = {1, 2}
  Scenes = {{"read", "write", "again"}, {"read", "write", "state"}, {"rag", "write", "state"},
            {"list", "tag", "state"}, {"rag", "write", "create"}, {"read", "write", "judge"}}
  \* Requests
  MaxBody = 2
  MaxAdminBody = 3
  Longest = 5
  \* Listing
  Listed = {1, 2, 3}
  title <- Titles
  difficulty <- Difficulties
  since <- Dates
  PageLimit = 2
  MaxTries = 2
  \* Accounts
  Applicants = {11, 12}
  SeedRuns = {1, 2}
  Emails = {"e1", "e2"}
  Usernames = {"n1", "n2"}
  SeedEmail = "e1"
  SeedName = "n1"
  SeedSlugs = {"a", "b"}
  FreeSlug = "c"
  Casts <- SomeCasts
INVARIANTS
  PlatformTypeOK
  OneLiveToken
  SignedOutDenied
  NoFalseReuse
  EachResetSpendsALink
  LimitIsExact
  TalliesMatchRows
  RemovalIsToldOnce
  CacheAgrees
  IndexFollows
  AnsweredOnce
  PagesCoverList
  NothingByHalves
PROPERTIES
  ClosedStaysClosed
  DecisionStands
CHECK_DEADLOCK FALSE
