# SahuCodeX: TLA+ specifications

SahuCodeX is an online judge: a FastAPI application (`apps/api`), a Celery
worker that grades code in a sandbox (`apps/judge`, "SahuJudge"), PostgreSQL,
Redis (broker, event channel, cache, run records, rate limits) and a Next.js client
(`apps/web`). This directory holds TLA+ modules for the parts whose
correctness depends on order, concurrency and failure, the TLC configurations
that check them on small instances, and TLAPS proofs. Paths below are relative to the
repository's root.

Run a configuration with `tlc -config judging.cfg MCJudging.tla`; check proofs with
`tlapm JudgingProofs.tla`. `PROJECT.json` maps every definition to the lines it models,
lists the hazards of the code with the properties that cover them, and gives, per
property, a mutation of the code's model that breaks it. The mutated forms stand
in the modules, just before what they replace, under "A wrong ...".

## 1. Inventory

| component | state it keeps | operations | what makes it correct | module |
|---|---|---|---|---|
| submission intake (`modules/submissions/service.py`) | `submissions` rows | check the in-flight limit, insert, enqueue, close on 503, publish | a recorded submission is enqueued or closed; the limit holds up to a known slack | `Judging` |
| broker (`core/queue.py`, `celery_app.py`) | queued messages | publish with retries, late ack, redelivery | at-least-once delivery does no harm | `Judging`, `Runs` |
| judge pipeline (`apps/judge/sahujudge/pipeline.py`) | rows, reports, counters, progress | claim, judge, persist, fail | one judge per submission, one booking per report, counters equal to the reports | `Judging`, `PersistTx` |
| reaper (`reaper.py`) | nothing of its own | select stale, close, announce; remove old containers | everything open is closed in the end; nothing judged is overwritten | `Judging`, `PersistTx`, `Sandbox` |
| code runs (`submissions/runs.py`, `run_code`) | run records in Redis with a TTL | store, load, run | a run moves forward; events do not run ahead of the record | `Runs` |
| events and sockets (`submissions/events.py`, `event_socket`) | pub/sub channel, tickets | publish, subscribe, take a ticket | no event ahead of its commit; who listens ends up with the row | `Judging`, `LiveView` |
| judging engine (`engine.py`) | none | order tests, stop early, verdict | the verdict is what the program deserves, or SYSTEM_ERROR | `Sandbox` |
| containers (`docker_sandbox.py`, `sandbox.py`) | containers | start, exec, remove, sweep | no container outlives its purpose | `Sandbox` |
| supervisor (`supervisor.py`) | one program | poll, kill, drain, classify | what it reports is true of the program | `Supervisor` |
| profiles (`modules/profiles`) | `user_streaks`, `user_achievements` | streak, achievements, inside the judge's transaction | no lost day, no unearned or lost achievement | `PersistTx` |
| contests (`modules/contests`) | contests, registrations, standings cache | edit, publish, register, submit, standings | scores follow the window and settle; the cache catches up | `Contests` |
| community (`modules/community`) | posts, votes, reports, notices | write, vote, report, moderate, notify | stored counters equal the rows; a removal is told once | `Community` |
| problem catalogue (`modules/problems`, `modules/rag`) | problems, tags, detail cache, vector index | edit, publish, read through the cache, list | cache and index follow edits; pages cover the list | `Catalogue`, `Listing` |
| authentication (`modules/auth`) | refresh tokens, one-time tokens, denylist | sign in, rotate, sign out, reset, register, verify | one live token per session; what ended stays ended; a link works once | `Sessions`, `Accounts` |
| rate limiter (`core/rate_limit.py`) | sorted sets in Redis | hit | admits what it promises, no more and no less | `RateLimiter` |
| AI assistant (`modules/ai`) | conversations, messages, usage | generate, stream, stop, delete | every call of the model is metered, what was said is kept | `Assistant` |
| request plumbing (`core/middleware.py`, `main.py`) | one exchange | limit the body, count, answer errors | one answer, and the metrics agree with it | `Requests` |
| users, audit, seeds (`modules/users`, `modules/audit`, `database/seeds`) | accounts, roles, audit rows, the first catalogue | create, seed | nothing is done by halves | `Accounts` |
| web client (`apps/web/src`) | query cache, socket | poll, ask on events, reconnect | a page at rest shows the row | `LiveView` |

How they interact: the API commits a row *before* it enqueues the job. A
worker claims the row with a conditional `UPDATE`, judges for minutes in a container without
a transaction, and writes the report, the counters, the progress, the streak and the
achievements in one transaction. The reaper, started by Celery beat every 300 s
on the same queue, closes open rows older than `judge_stale_after`. API, worker
and reaper all write the same rows. Events go out best-effort after commits, and the
client answers each of them by asking for the row again. Contests read the judged rows;
the catalogue's statistics are the judge's counters.

What is hard: the interleavings of API, workers and reaper on one row; crashes between
two commits; messages delivered twice, lost, or published although the publisher was told
otherwise; handlers that read rows, wait, and write on the strength of what they read;
caches and records with a time to live; a program under test that ends between two looks at it.

## 2. Modules

`SubmissionLedger` is the abstract specification of judging: a submission is opened once, closed
once, and its verdict is booked at most once together with all counters. `Judging` and
`PersistTx` implement it at two grains: the first takes the judge's transaction as one
step and looks at everything around it; the second opens that step and leaves out queue,
events and lost replies. That `PersistTx` refines the ledger is what allows `Judging` to
take `Persist` as atomic, and that `Judging` does is what allows `Contests` and
`Listing` to take judging as one step and `LiveView` to look at one row only.

The other modules do not share variables: they meet in the database, and each of them models what
it finds there as its own state. `MCPlatform` and `MCExecution` set seven of them
side by side each; that a behaviour of such a composition is one of each of its parts is proved
(section 5), so what holds of a component holds there.

Throughout, a handler that awaits between two accesses to shared state is as many steps as
it has such accesses; a transaction is one step at its commit unless its row locks are the
point (`PersistTx`, `Sessions`, `Accounts`). History variables serve the properties
only, and say so where they are declared.

### Judging

State: `status`, `verdict` and `result` are columns of `submissions` and
`submission_results`; `stale` says that `created_at` has fallen behind the horizon
(time is not modelled otherwise); `total`, `accepted`, `attempts`, `solved` are
the columns of `problems` and `user_problem_progress`; `queue[s]` counts deliverable
messages; `request`, `wpc`/`job`/`report`, `rpc`/`rids` are the program
counters and locals of the three handlers; `announced` is the set of events
published. Each action is one commit, one message or one event.

* API (`create_and_enqueue`): `CheckPending` / `RefusePending` / `RefuseNoTests`,
  `InsertRow`, `Enqueue`, `CloseUnavailable`, `AnnounceQueued`, `ApiCrash`.
  `Enqueue(s, n, ok)` puts `n` copies on the queue and returns or raises. With lost
  replies, Celery's retry policy (`max_retries` 2) may publish up to three
  copies, or raise with a copy published. A disabled judge
  (`UnavailableJobQueue`) is `n = 0`, `ok = FALSE`.
* worker (`judge_submission`): `Claim`, `SkipDelivery`, `AnnounceRunning`, `Judge`,
  `JudgeError`, `Persist`, `Fail`, `AnnounceClosed`, `Abort`, `WorkerCrash`. The engine
  is a choice of a verdict or of an error. `Persist` guards on the primary key of
  `submission_results`; the invariant `ReportsFresh` shows that this guard never decides.
* reaper (`fail_stale_submissions`): `ReapSelect`, `ReapClose`, `ReapAnnounce`,
  `ReaperCrash`. Two sweeps that overlap would repeat each other's conditional
  update, so one at a time is modelled.
* broker and clock: `Redeliver`, `LoseMessage`, `Age`.

### PersistTx

One process per submission, whose `pc` names the next SQL statement. Committed tables
are variables; what a transaction has written is in `draft`, and the rows it has
written are in `held` until it ends (READ COMMITTED, row locks). `Wants(s)` is
the row that the next statement writes; a statement is enabled when no other
transaction holds it. `autoflush=False` (`core/db.py`) matters and is modelled: the
submission's own row is written at a savepoint (first progress row or first streak
row) or at the commit, and queries in between do not see it. The
eight achievements are represented by the four shapes of their checks. `Begin` covers
everything up to the report; `Reaper` is the multi-row UPDATE of the reaper,
which locks row after row; PostgreSQL's deadlock detection is `DeadlockVictim` and
`ReapVictim`.

### Runs

The Run button has no row: its record lives in Redis for `run_result_ttl`. The API stores it
(`CreateRun`) and enqueues (`PublishRun` / `EnqueueRun` / `EnqueueRunFails`, also with a lost
reply); a worker loads it (`LoadRun`), claims it, tells, stores the result and tells again, each in a
call of its own, with expiry (`RunTick`), exceptions (`RunRaises`) and kills in between.
With `broker = FALSE` the same steps run inside the enqueue (`InlineJobQueue`).
The exception in both properties is `shared`: runs that two workers had loaded while they were
QUEUED, which a job published twice makes possible; the code has no conditional update in Redis.

### Sandbox and Supervisor

`Sandbox` is a worker's session with its container: start, source, compile, tests, removal in a
`finally`; the container's own timer; the sweep of the reaper and of every worker that
becomes ready, which removes containers of age 0 and so those of others. The engine's `order_tests`
and early stop are operators over a program that is given by what each test deserves;
`Deserved` is the reference definition, and a test's outcome is taken as the supervisor reports it. `Supervisor` is what happens inside: the loop of `cmd_run`
against a program and one process of its own that burn, allocate, write, spawn and end between
any two of its steps, the kernel's OOM killer, and `classify`. The drain may end at any moment
(`Report`): its deadline does not ask what is left in the pipe. So `ReportIsTrue` does not say that all
output was read, nor that a program that EXITED kept the wall-clock limit, which it may overrun between two polls.

### Contests

One contest in minutes: edits that are checked before they are written, registration,
submissions whose `created_at` is later than the check, judging that ends in any order and late,
and viewers that compute standings and store them for `_STANDINGS_CACHE_TTL_SECONDS`. `Cell`,
`StandingsRow` and `Standings` are the scoring rules. A submission is judged at most once (`judged`), but one that was
completed may be closed as failed afterwards, by a worker or a handler that got no reply (`OverwriteCompleted`, the
transition that `judging_lost_reply` shows). Then points are lost and settled standings change;
`PointsNeverDrop` and `StandingsSettle` name it as their exception (`NothingOverwritten`).

### Community

Posts, votes, reports and notices. Every write is `Begin...` (the SELECTs) and an action named after the
handler (flush and COMMIT), because the ORM writes absolute values computed from what was read.
`torn` records the columns that were written on an outdated read; the properties hold for
all others, so they say exactly how far the counters can be trusted.

### Catalogue and Listing

`Catalogue`: admins' calls in four steps (read, commit, delete cache keys, update the index), readers
that fill the cache from rows they read before, slugs that change. The cached detail shows the statistics that the judge
counts (`judged`), so the judge is a third kind of process: it reads the slug, counts with its commit, and deletes the
cached entry in a later call or dies before (`JudgeLoads`, `JudgeCounts`, `JudgeDeletes`). `scene` picks which
operations go on together. `Listing`: filters, sort keys and pages, each page and each total a query of
its own; rows that the order leaves equal come in any order.

### Sessions and Accounts

`Sessions`: one account, tabs that share a cookie, `SELECT ... FOR UPDATE` and `UPDATE` with
their snapshots: rotation with its grace window, logout, revocation and password reset, the Redis
denylist for access tokens, reset links. `rare` picks which unusual events a behaviour
combines. `Accounts`: registration with its checks, unique keys, audit row and link; the seed script in
its transactions, next to other starts and to admins.

### RateLimiter, Requests, Assistant

`RateLimiter`: the sorted set of one scope and client, in two round trips; in the scope of logins to an account, a
successful one deletes the set (`ResetKey`), and what was admitted before no longer counts (`forgotten`). `Requests`: one
exchange through the middleware stack, with an application that may do what ASGI allows. `Assistant`:
limits that count rows, streams that end, fail or are stopped, and a conversation that is
deleted meanwhile.

### LiveView

One page and one submission: the row as judge and reaper change it, `due` announcements, the socket with
its ticket and its reconnects, the request in flight and what the API has read for it. The
query library is external, and its rules are taken from how the pages use it: invalidating a query
gives up the request in flight and makes another one, except while nothing is shown yet; the
polling interval does nothing while a request is in flight.

## 3. Runs

| run | instance | shows |
|---|---|---|
| `judging` | 2 submissions of one user, 2 workers, redelivery and crashes of API, worker and reaper | `SingleJudge`, `RowMatchesReport`, `FailedNotCounted`, `AcknowledgedHasMessage`, `NoEventBeforeCommit`, refinement of the ledger |
| `judging_liveness` | 1 submission, 2 workers, all faults | `EventuallyClosed`: reaper and clock alone close every submission |
| `judging_inflight` | 3 submissions of one user, limit 1, 2 concurrent requests | `InFlightBounded`: the limit can be overrun, by less than one per concurrent request |
| `persist_tx` | 3 submissions of one user for 2 problems in 2 languages, 2 workers, one sweep, 2 days | the transactions are atomic towards the books, deadlock only with the reaper, and leave a true profile |
| `platform` | sessions, limiter, community, catalogue, requests, listing, accounts | `OneLiveToken`, `ClosedStaysClosed`, `SignedOutDenied`, `NoFalseReuse`, `EachResetSpendsALink`; `LimitIsExact`; `TalliesMatchRows`, `RemovalIsToldOnce`, `DecisionStands`; `CacheAgrees`, `IndexFollows`; `AnsweredOnce`; `PagesCoverList`; `NothingByHalves` |
| `execution` | ledger, sandbox, supervisor, runs, contests, assistant, live view | `CountersMatchBooks`; `VerdictIsDeserved`, `NoBoxIsForgotten`; `ReportIsTrue`; `RunMovesForward`, `PollConfirmsEvents`; `PointsNeverDrop`, `StandingsSettle`, `CacheCatchesUp`; `OverIsMetered`; `RestsOnTheRow` |
| `judging_reaped_then_counted`, `judging_lost_reply`, `persist_lost_attempt`, `persist_streak`, `persist_polyglot`, `assistant_unmetered` | the smallest instance each | violations, section 4 |

`platform` and `execution` begin by choosing a component (`focus`), which then is the only one that
moves; the states are the sum of the components' states, not their product.

Bounds. `MaxMessages = 2` lets a duplicate be delivered while the first copy is judged;
a third copy adds nothing, since a delivery depends on the row only. Two submissions
and two workers give every pair of actors on one row, and two rows in one sweep. Three
submissions are needed to overrun a limit of one with two requests. In `persist_tx`, two
concurrent transactions and one that came before are the least that shows
existing rows, missing rows and a deadlock with the reaper; the reaper sweeps once.
Thresholds of achievements are 1 or 2. In the composed runs:

* sessions: two requests at once, enough for every race of two handlers; three tokens (two
  rotations that compete for one token, or two sessions), two where reset links are mailed; two links, so
  that one replaces the other. Each behaviour has one kind of rare event (`Environments`).
* limiter: a limit of 2 and four requests, so that one is over the limit while another is between
  its two round trips; the clock passes the window.
* community: two members, one of them a moderator, a thread with a comment, two reports and three calls: a vote
  that is cast, changed and withdrawn, or any two calls that overlap after a third one.
* catalogue: two problems and three slugs, so that they may exchange slugs and one may take a slug that
  it had for a moment only, up to three contents each, two editors and a reader that overlap, and two
  submissions that are judged meanwhile, so that a delete of the first may fail and one of the second not.
* accounts: three ids at a time out of registrations, seed runs and admins; see `SomeCasts`.
* sandbox: two workers and two containers; one program for each outcome of `Deserved`.
* supervisor: every limit is 1, so that each is met exactly, and exceeded by one.
* runs: one run, three workers and two kills: enough for the first delivery, a duplicate and
  a redelivery at once; the record expires.
* contests: two participants, two submissions, one problem, a window from minute 1 to 2 and a minute after it, in
  which handlers that were late and cached results run out.
* listing: three problems, two of which are equal in every sort key but the id, on pages of two.
* requests: bodies that are shorter than both limits, between them, and longer.
* live view: one reconnect and one retry.

The proofs have no bounds.

Deadlock checking is off everywhere: all behaviours end, when what was to be judged, asked or
handled is over and the bounds are used up.

Fairness (`FairSpec` of `Judging`): rows age, and the reaper's steps happen (beat, 300 s).
`ReapClose` is strongly fair since a sweep may crash, but not all of them do. The
reaper's task shares the queue with the judge; that some worker takes it in the end is
an assumption, justified by the hard time limit of 900 s, which frees every
worker. Nothing is assumed of workers that judge, of the API or of the broker, so
`EventuallyClosed` does not depend on them. The other modules state safety only; what must
happen in the end there is stated by what holds at rest (`RestsOnTheRow`, `StandingsSettle`,
`OverIsMetered`) or by a time (`NoBoxIsForgotten`, `CacheCatchesUp`).

## 4. Where the code departs from what it says

Shown by a run that expects a violation:

* A worker slower than the horizon stores its report in a submission that the
  reaper has closed (`judging_reaped_then_counted`): `_persist` does not look at the
  row's status. The owner is told FAILED and the attempt is counted later, although
  `reaper.py` says such submissions are not counted. `created_at` includes the time in
  the queue, so this needs no fault and no judge run longer than the limits.
* `enqueue` may raise though the message was published (`judging_lost_reply`): the
  handler then overwrites a row that a worker has completed and counted.
* Two concurrent transactions of one user that stage the same achievement
  (`persist_lost_attempt`): the second is rolled back by the primary key and its judged
  attempt becomes a SYSTEM_ERROR. `evaluate_achievements` has no savepoint.
* Around midnight (`persist_streak`) an older date can overwrite a newer one.
* `check_polyglot` (`persist_polyglot`) misses the submission that is being
  persisted unless something made the session flush.
* A conversation that is deleted while its reply is streamed (`assistant_unmetered`)
  takes the usage row with it: the insert refers to a row that is gone.

Noticed while modelling, and stated as the exceptions of the properties:

* Votes, comment counts, report decisions and removals are computed from what was read before: two calls that
  overlap may leave a counter that the rows do not have (`torn` in `Community`).
* An update of a problem whose slug another call changes meanwhile does not delete the entry under the slug that
  the other call gave it; a reader may fill the cache over a commit; a worker may die, or lose Redis, between counting a
  submission and deleting the entry that shows the count, and deletes it under the slug that it read before judging. All
  of these last until the entry expires (`excused`).
* Standings are served from a cache for 5 seconds, while `docs/contests.md:8` says that they are
  "computed on every request, never stored". `CacheCatchesUp` shows how old they can be.
* A judged contest submission that is overwritten as failed after a lost reply loses its points, also after the end.
* The supervisor's drain ends after `DRAIN_SECONDS` whatever is unread: output that was written in time may be cut off.
* Updates of the vector index that fail or overlap are passed over (`drifted`), although
  `rag/service.py:46` says it never drifts silently. Content that is published already, or restored from the archive, is not validated again.
* A run's record may expire while it is queued or judged (600 s, with a task limit of 900 s), and a worker that
  had loaded it stores a result for a run that was refused.
* Two concurrent requests for a link may leave two valid ones, although `auth/service.py:307` says that only the newest stays valid.
* Ending a session revokes the tokens that its UPDATE saw; one that a rotation has inserted meanwhile is not among them,
  so `ClosedStaysClosed` is about sessions that have no live token left.
* A registration whose link cannot be stored leaves an account, while the client sees an error; a second run of the seed script on an empty database
  fails on the tags that the first one has committed; a seed problem that was given another slug is created again by the next run.
* A worker that becomes ready removes the containers of other workers; their submissions end as SYSTEM_ERROR, never with a verdict.
* The processor time of a process that the program does not wait for is not in what the supervisor polls; the wall-clock limit ends it.
* The limits of the assistant are checked before the rows that they count are written, so concurrent requests may exceed them.
* A page of the problem list that is read after something was judged may skip or repeat a problem.
* A page at rest may show FAILED for a row that became COMPLETED afterwards (or the reverse after a lost reply) if nobody heard the last event; the detail page stops listening once the row is closed.

The promises that do hold are stated with what they need: `FailedNotCounted`
holds as long as no reply is lost; `RowMatchesReport` and the ledger hold always.

## 5. Proofs

Every invariant and every action property that a run checks is stated by a theorem, for any
number of submissions, requests, containers, members and so on; so are the two refinements of the
ledger. `PROJECT.json` lists the theorems with the properties they state.

### Assumptions

Each module names what it assumes of its constants (`...Assumption`), and TLC evaluates it in every
run: ids are finite sets of numbers (rows have primary keys, and the first unused one is taken),
limits and times are natural numbers, and positive where the settings require it, different
kinds of ids do not overlap, and functions have the domains that their uses need. Three say more
about the code: a problem that is judged has a test (`create_and_enqueue` refuses others), the
address and the name of the seed admin are among those that people may register, and the slug
that an admin may move a seed problem to is not in the seed files. `Casts`, `Scenes`, `Faults`
and `Environments` are any of the listed combinations. For the ledger, `WellFormed` is a hypothesis of its
theorems, because `Judging` and `PersistTx` instantiate it and have to show it; `MCExecution` assumes
it of the instance it chooses.

### Judging and the ledger

* `SubmissionLedgerProofs`: `LedgerTyped`, then `LedgerCountersCorrect`
  (`[]CountersMatchBooks`): a booking adds one submission to the sets being
  counted, which raises their cardinality by one.
* `JudgingProofs`: `TypeCorrect`, then `Invariant` (`[]IInv`). No property is inductive
  alone; `IInv` adds
  - `JobsTyped`: only idle workers have no job;
  - `RowsRecorded`: a row exists once its request passed the insert;
  - `Custody`: a claimed job's row is past QUEUED, and two workers do not share one;
  - `ReportsFresh`: a worker that has yet to persist works on a row without a report;
  - `EventsBacked`: what was published is committed, also for workers and a reaper
    about to publish;
  - `FailuresUncounted`: as long as replies can be believed, nobody about to
    close a row as FAILED faces a stored report.

  Each is preserved by every action given the others; `TypeOK`, `SingleJudge`,
  `RowMatchesReport`, `FailedNotCounted`, `AcknowledgedHasMessage` and
  `NoEventBeforeCommit` follow. `InFlightBounded` is proved with its own
  strengthening: the open rows and the requests past the check, together, stay below
  `MaxInFlight + MaxConcurrent`.
* `JudgingRefinement`: `Refinement` (`Spec => ImplementsLedger`): `InsertRow` is `Open`,
  `Persist` is `Book`, the ways to fail are `Close`, everything else is a stutter.
  `CountersHold` carries the ledger's counter theorem over to `Judging`.

### The judge's transaction

`PersistTxProofs` opens the step that `Judging` takes as atomic.

* What a transaction has locked follows from the statement it has come to (`Footprint`, `InOrder`),
  no row is locked twice (`Exclusive`), and the reaper locks rows that are still being
  judged (`Swept`). A wait for a lock therefore goes from an earlier statement to a later one, or
  to a row later in the order of `CHECKS`, or involves the reaper: `NoDeadlockAmongTransactions`.
* While a row is locked, nobody else writes it, so a draft is the committed row plus what this
  submission adds (`Continues`). That is why the COMMIT books exactly one verdict, and
  `PersistRefinesLedger` follows: `Commit` is `Book`, a rollback books nothing.
* `ProfilesAreTrue` needs that days of a streak have come (`StreaksPossible`), that
  solved problems were attempted (`SolvedAttempted`), and that a staged achievement is still reached in what
  its transaction sees (`StagedSeen`).

### Sessions

`SessionsProofs`: `OneLiveToken` needs that whoever has read a token's row holds its lock and that the
row still says so (`RowRead`); `SignedOutDenied` that a handler between its UPDATE and the
denylist knows the sessions it ended (`Scope`, `SignedOff`); `NoFalseReuse` that a token
on its way to the browser is unknown to everybody else, and the rotated token in the browser has its
successor on its way unless a reply was late (`OnItsWay`, `Succession`, `Alarm`); `EachResetSpendsALink`
that a link is in the hands of one reset at a time (`LinkHeld`). `ClosedStaysClosed` is an action
property, proved from the same invariant.

### Results

`ResultsProofs`: a run that no two workers have had is in step with its one worker, record and
events (`InStep`), and a job is published as often as it can be (`JobsCounted`); this gives
`PollConfirmsEvents` and `RunMovesForward`. For the live view, what the page shows, or is about to
show, is the row, or something is under way that will make it ask (`ShownOrNoticed`), and
a row changes after it was closed only once, by its worker (`RowFollowsWorker`).

### Execution

`ExecutionProofs`:

* supervisor: what was sampled is at most what the program used, a kill has its reason, and after the
  end nothing changes (`Sampled`, `KilledFor`, `Done`): `ReportsAreTrue`;
* containers: no container has two sessions (`Alone`), a session is as far as its container
  (`Holds`), and one without a session is excused (`Cared`): `EveryBoxGoes`;
* verdicts: a report counts the tests passed among those run, and names the failure that comes first in the
  order of `order_tests` (`Sound`, `Reported`). `OrderIsOrderly` shows that this order exists and has each
  test once, `FirstOfTheFailures` that its first failure is the first public one, or else the
  first of the others; `VerdictsAreDeserved` follows, whatever removes a container meanwhile;
* contests: an edit was checked before the start (`EditInTime`), and a stored result is as old as its
  computation plus its time to live (`CacheIsFresh`): `CachedStandingsEnd`, and from the same
  invariant `PointsAreKept` and `StandingsAreFinal`, both for steps that overwrite nothing;
* assistant: a request works on a conversation that was there when it began (`Begun`):
  `UsageIsMetered`;
* `ExecutionIsItsParts` and `ExecutionTyped`: the composition is a behaviour of each part, so it keeps
  the types of all.

### Platform

`PlatformProofs`:

* requests: one status is sent, and only through the gates that the request has passed (`OneStatus`,
  `Gated`);
* accounts: no two accounts share a key (`Rows`), an account and its audit row appear
  together (`Registered`), and what a seed run has found is still there (`Seeded`);
* community: while the columns that a call has read are not written by another, they are as it read
  them (`Aware`), so the sums and counts stay true (`Scored`, `Counted`);
* catalogue: a call that met no other is the only one on its problem, which is as the call
  read or wrote it (`Alone`); until it commits it holds the keys of the slug it read and of the one it
  will write (`Working`), and so does a worker the one of the slug it read, from its commit to its delete; the index is right or a call is under way that will update it (`Indexed`);
* limiter: who was admitted stands in the set until one counts whose window it has left or the set is deleted
  (`Remembered`), and no window, wherever it ends, has admitted too many (`Bounded`);
* problem list: a walk that nothing disturbed has shown the beginning of *every* answer that the
  database may give (`Walked`): the id is the last key of each order, so there is only one;
* `PlatformIsItsParts` and `PlatformTyped`, as for the execution.

Where an argument is by induction over a finite set (sums of votes, orders of tests and of
problems), it is made with a least counterexample: subsets of a finite set, and natural
numbers, are well-founded.

### What the proofs found

* `CacheAgrees` was not true in general, though it was on two slugs: with a third one, two updates of a
  problem that overlap can leave an entry under a slug that the problem had only in between. The excuse
  now names that slug, and the run has it.
* Two creations share no id, since the key is drawn by the INSERT; the model had let them choose the same
  unused one.
* `OrderTests` is written as the sequence that it is, rather than with a sorting operator that
  TLC overrides and the provers do not know.

### Only model-checked

`EventuallyClosed` of `Judging`: liveness under fairness is out of the prover's reach. The runs that
expect a violation show counterexamples, and claim nothing in general.

## 6. Not modelled, and what is left

Not modelled, because no order of steps matters in it or because it is outside this code:

* the comparisons of `checkers.py` and the command lines of `languages.py`: pure functions over text;
* the Vercel backend of the sandbox and the model, embedding and e-mail providers: calls of external services;
* input schemas, password hashing, signatures, cookie attributes: data without a state of its own;
* read-only queries: profile statistics, analytics, recommendations, lists of a user's submissions;
* single-row edits: profiles, titles of conversations, read state of the interface;
* the web client except for the live view: presentation and forms around one request each;
  the single-flight refresh of `lib/auth/session.ts` is a special case of the tabs in `Sessions`;
* schema history, the texts of the seed catalogue, container and CI configuration;
* the inline queue for submissions: it has no reaper, and so promises no end.

Left: liveness of the components other than `Judging` (each would need the fairness that its scheduler
gives); the inline deployment of submissions, which promises no end; and joint invariants of
components that meet in the database, beyond what the refinements of the ledger say.
