-------------------------------- MODULE Runs --------------------------------
(***************************************************************************)
(* The Run button.  A run is no row: its record lives in Redis for a while,  *)
(* the API creates it and enqueues a job, and a worker loads, changes and    *)
(* stores it in separate calls.  Without a broker the API runs the worker's  *)
(* code inside the enqueue.                                                 *)
(***************************************************************************)
EXTENDS Integers, FiniteSets

CONSTANTS
  RunIds,       \* bound: the runs that are ever requested
  Runners,      \* worker processes
  RunTtl,       \* settings.run_result_ttl
  MaxCrashes,   \* bound: workers that are killed
  Brokers       \* judge_backend: TRUE for Celery, FALSE for the inline queue

ASSUME RunsAssumption == RunTtl \in Nat /\ MaxCrashes \in Nat /\ Brokers \subseteq BOOLEAN

VARIABLES
  broker,
  record,      \* record[r]: the record of a run under run_key, and its age
  request,     \* request[r]: the POST /run that asked for it
  jobs,        \* jobs[r]: messages about it in the broker
  runner,      \* runner[w]: a worker's run_code
  told,        \* told[r]: run events published about it
  shared,      \* history: runs that two workers have had at once
  crashes

runsVars == <<broker, record, request, jobs, runner, told, shared, crashes>>

Final == {"COMPLETED", "FAILED"}
NoRecord == [status |-> "none", age |-> 0]
Fresh(status) == [status |-> status, age |-> 0]
IdleRunner == [at |-> "idle", run |-> 0, status |-> "none"]

RunsTypeOK ==
  /\ broker \in Brokers /\ crashes \in 0 .. MaxCrashes /\ shared \subseteq RunIds
  /\ \A r \in RunIds :
       /\ record[r].status \in {"none", "QUEUED", "RUNNING"} \union Final /\ record[r].age \in 0 .. RunTtl
       /\ request[r] \in {"new", "recorded", "published", "inline", "answered", "refused"}
       /\ jobs[r] \in 0 .. 2 + MaxCrashes /\ told[r] \subseteq {"RUNNING"} \union Final
  /\ \A w \in Runners : /\ runner[w].at \in {"idle", "loaded", "claimed", "judging", "stored"}
                        /\ (runner[w].at = "idle") = (runner[w] = IdleRunner)

RunsInit ==
  /\ broker \in Brokers
  /\ record = [r \in RunIds |-> NoRecord]
  /\ request = [r \in RunIds |-> "new"]
  /\ jobs = [r \in RunIds |-> 0]
  /\ runner = [w \in Runners |-> IdleRunner]
  /\ told = [r \in RunIds |-> {}]
  /\ shared = {} /\ crashes = 0

-----------------------------------------------------------------------------
(* The API                                                                 *)

\* run_for: the record first ...
CreateRun(r) ==
  /\ request[r] = "new"
  /\ record' = [record EXCEPT ![r] = Fresh("QUEUED")]
  /\ request' = [request EXCEPT ![r] = "recorded"]
  /\ UNCHANGED <<broker, jobs, runner, told, shared, crashes>>

\* ... then the job.  The broker may have it before its reply arrives, ...
PublishRun(r) ==
  /\ broker /\ request[r] = "recorded"
  /\ request' = [request EXCEPT ![r] = "published"]
  /\ jobs' = [jobs EXCEPT ![r] = 1]
  /\ UNCHANGED <<broker, record, runner, told, shared, crashes>>

\* ... which may be lost: then a retry publishes it again.
EnqueueRun(r) ==
  /\ request[r] = "published"
  /\ request' = [request EXCEPT ![r] = "answered"]
  /\ \E again \in 0 .. 1 : jobs' = [jobs EXCEPT ![r] = jobs[r] + again]
  /\ UNCHANGED <<broker, record, runner, told, shared, crashes>>

\* QueueUnavailableError, whether or not the job got through: the record is deleted, 503.
EnqueueRunFails(r) ==
  /\ request[r] \in {"recorded", "published"}
  /\ request' = [request EXCEPT ![r] = "refused"]
  /\ record' = [record EXCEPT ![r] = NoRecord]
  /\ UNCHANGED <<broker, jobs, runner, told, shared, crashes>>

\* get_run: what a client that polls is shown.
GetRun(r) == record[r].status

-----------------------------------------------------------------------------
(* run_code                                                                *)

RunnerAt(w, stage) == runner[w].at = stage
Moves(w, stage) == runner' = [runner EXCEPT ![w].at = stage]

\* A wrong LoadRun: a record in whatever state is run.
LoadAnyRun(w, r) ==
  IF record[r] = NoRecord
  THEN UNCHANGED <<runner, shared>>
  ELSE /\ runner' = [runner EXCEPT ![w] = [at |-> "loaded", run |-> r, status |-> "none"]]
       /\ shared' = IF \E v \in Runners : runner[v].run = r THEN shared \union {r} ELSE shared

\* A record that is gone, or that somebody has claimed, is skipped.
LoadRun(w, r) ==
  IF record[r].status # "QUEUED"
  THEN UNCHANGED <<runner, shared>>
  ELSE /\ runner' = [runner EXCEPT ![w] = [at |-> "loaded", run |-> r, status |-> "none"]]
       /\ shared' = IF \E v \in Runners : runner[v].run = r THEN shared \union {r} ELSE shared

Deliver(w, r) ==
  /\ broker /\ RunnerAt(w, "idle") /\ jobs[r] > 0
  /\ jobs' = [jobs EXCEPT ![r] = jobs[r] - 1]
  /\ LoadRun(w, r)
  /\ UNCHANGED <<broker, record, request, told, crashes>>

\* InlineJobQueue.enqueue
EnqueueInline(w, r) ==
  /\ ~broker /\ RunnerAt(w, "idle") /\ request[r] = "recorded"
  /\ request' = [request EXCEPT ![r] = "inline"]
  /\ LoadRun(w, r)
  /\ UNCHANGED <<broker, record, jobs, told, crashes>>

ClaimRun(w) ==
  LET r == runner[w].run IN
  /\ RunnerAt(w, "loaded")
  /\ record' = [record EXCEPT ![r] = Fresh("RUNNING")]
  /\ Moves(w, "claimed")
  /\ UNCHANGED <<broker, request, jobs, told, shared, crashes>>

\* publish_event never fails; it may only be lost.
Tells(w, status) ==
  LET r == runner[w].run IN told' \in {told, [told EXCEPT ![r] = told[r] \union {status}]}

TellRunning(w) ==
  /\ RunnerAt(w, "claimed")
  /\ Tells(w, "RUNNING") /\ Moves(w, "judging")
  /\ UNCHANGED <<broker, record, request, jobs, shared, crashes>>

\* A wrong StoreResult: the event is published before the record is stored.
StoreAfterTelling(w) ==
  /\ RunnerAt(w, "judging")
  /\ \E status \in Final :
       /\ runner' = [runner EXCEPT ![w].at = "stored", ![w].status = status]
       /\ told' = [told EXCEPT ![runner[w].run] = told[runner[w].run] \union {status}]
  /\ UNCHANGED <<broker, record, request, jobs, shared, crashes>>

\* judge_tests or run_custom gives a result, or any exception gives FAILED; the record is
\* stored even when it has expired or was deleted since.
StoreResult(w) ==
  LET r == runner[w].run IN
  /\ RunnerAt(w, "judging")
  /\ \E status \in Final :
       /\ runner' = [runner EXCEPT ![w].at = "stored", ![w].status = status]
       /\ record' = [record EXCEPT ![r] = Fresh(status)]
  /\ UNCHANGED <<broker, request, jobs, told, shared, crashes>>

Answered(w) == IF ~broker THEN [request EXCEPT ![runner[w].run] = "answered"] ELSE request

\* The last event; the message is acknowledged, or the inline enqueue returns.
TellResult(w) ==
  /\ RunnerAt(w, "stored")
  /\ Tells(w, runner[w].status)
  /\ runner' = [runner EXCEPT ![w] = IdleRunner]
  /\ request' = Answered(w)
  /\ UNCHANGED <<broker, record, jobs, shared, crashes>>

\* Redis does not answer a load or store, or the soft time limit ends the task: it is
\* acknowledged all the same, and inline the enqueue fails and the record is deleted.
RunRaises(w) ==
  LET r == runner[w].run IN
  /\ runner[w].at \in {"loaded", "judging"}
  /\ runner' = [runner EXCEPT ![w] = IdleRunner]
  /\ request' = IF broker THEN request ELSE [request EXCEPT ![r] = "refused"]
  /\ record' = IF broker THEN record ELSE [record EXCEPT ![r] = NoRecord]
  /\ UNCHANGED <<broker, jobs, told, shared, crashes>>

\* task_reject_on_worker_lost: the message comes back. Inline there is no message.
KillRunner(w) ==
  /\ ~RunnerAt(w, "idle") /\ crashes < MaxCrashes
  /\ crashes' = crashes + 1
  /\ jobs' = IF broker THEN [jobs EXCEPT ![runner[w].run] = jobs[runner[w].run] + 1] ELSE jobs
  /\ runner' = [runner EXCEPT ![w] = IdleRunner]
  /\ UNCHANGED <<broker, record, request, told, shared>>

-----------------------------------------------------------------------------
\* Redis drops a record when its time is over; every store starts it again.
Older(c) ==
  IF c.status = "none" THEN c ELSE IF c.age = RunTtl THEN NoRecord ELSE [c EXCEPT !.age = @ + 1]

RunTick ==
  /\ record' = [r \in RunIds |-> Older(record[r])]
  /\ record' # record
  /\ UNCHANGED <<broker, request, jobs, runner, told, shared, crashes>>

RunsNext ==
  \/ \E r \in RunIds : CreateRun(r) \/ PublishRun(r) \/ EnqueueRun(r) \/ EnqueueRunFails(r)
  \/ \E w \in Runners, r \in RunIds : Deliver(w, r) \/ EnqueueInline(w, r)
  \/ \E w \in Runners :
       ClaimRun(w) \/ TellRunning(w) \/ StoreResult(w) \/ TellResult(w) \/ RunRaises(w) \/ KillRunner(w)
  \/ RunTick

RunsSpec == RunsInit /\ [][RunsNext]_runsVars

-----------------------------------------------------------------------------
(* Properties                                                              *)

Rank(status) == CASE status = "QUEUED" -> 1 [] status = "RUNNING" -> 2 [] OTHER -> 3

\* While its record is there a run only moves forward and its result stays, through
\* redelivery, expiry and deletion - as long as no two workers have loaded it while it was
\* queued, which a job that was published twice makes possible.
RunMovesForward ==
  [][\A r \in RunIds \ shared' :
       record[r] # NoRecord /\ record'[r] # NoRecord =>
         /\ Rank(record[r].status) <= Rank(record'[r].status)
         /\ record[r].status \in Final => record'[r].status = record[r].status]_runsVars

\* An event never runs ahead of the record: a client that polls after one is shown that state
\* or a later one, or that the run is gone, and two clients are never told both results.
PollConfirmsEvents ==
  \A r \in RunIds \ shared :
    /\ \A status \in told[r] \intersect Final : GetRun(r) \in {status, "none"}
    /\ "RUNNING" \in told[r] => GetRun(r) # "QUEUED"
    /\ ~(Final \subseteq told[r])
=============================================================================
