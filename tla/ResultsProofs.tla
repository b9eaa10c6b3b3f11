---------------------------- MODULE ResultsProofs ----------------------------
(***************************************************************************)
(* What somebody who waits for a result is told and shown: the events and    *)
(* the record of a run, and the page that watches a submission.             *)
(***************************************************************************)
EXTENDS Runs, LiveView, TLAPS

-----------------------------------------------------------------------------
(* Runs: the inductive invariant                                           *)

Records == [status : {"none", "QUEUED", "RUNNING"} \union Final, age : 0 .. RunTtl]
Stages == {"loaded", "claimed", "judging", "stored"}

RunsTyped ==
  /\ broker \in Brokers /\ crashes \in 0 .. MaxCrashes /\ shared \subseteq RunIds
  /\ record \in [RunIds -> Records]
  /\ request \in [RunIds -> {"new", "recorded", "published", "inline", "answered", "refused"}]
  /\ jobs \in [RunIds -> 0 .. 2 + MaxCrashes]
  /\ told \in [RunIds -> SUBSET ({"RUNNING"} \union Final)]
  /\ runner \in [Runners -> {IdleRunner}
                   \union [at : Stages, run : RunIds, status : {"none"} \union Final]]
  /\ \A w \in Runners : runner[w].at = "stored" => runner[w].status \in Final

Has(w, r) == runner[w].at # "idle" /\ runner[w].run = r

\* A job is published once, and again when a reply was lost or a worker was killed.
JobsCounted(r) ==
  /\ request[r] \in {"new", "recorded", "inline"} => jobs[r] = 0
  /\ request[r] = "inline" => ~broker
  /\ request[r] = "published" => jobs[r] <= 1 + crashes
  /\ jobs[r] <= 2 + crashes
  /\ request[r] \in {"new", "recorded"} => \A w \in Runners : ~Has(w, r)

\* Before anybody has claimed it, nobody was told anything about it.
NewRun(r) ==
  /\ record[r].status = "none" => record[r] = NoRecord
  /\ request[r] = "new" => record[r] = NoRecord /\ told[r] = {}

\* A run that no two workers have had: its record and its events say how far the one
\* worker is that has it.
InStep(r) ==
  /\ \A w, v \in Runners : Has(w, r) /\ Has(v, r) => w = v
  /\ record[r].status = "QUEUED" => told[r] = {}
  /\ \A w \in Runners : Has(w, r) =>
       /\ runner[w].at = "loaded" => record[r].status \in {"none", "QUEUED"} /\ told[r] = {}
       /\ runner[w].at \in {"claimed", "judging"} => record[r].status \in {"none", "RUNNING"}
       /\ runner[w].at = "stored" => record[r].status \in {"none", runner[w].status}
       /\ told[r] \subseteq {"RUNNING"}
  /\ \A status \in told[r] \intersect Final :
       record[r].status \in {"none", status} /\ told[r] \intersect Final = {status}

RunKept(r) == JobsCounted(r) /\ NewRun(r) /\ (r \notin shared => InStep(r))

RunsInv == RunsTyped /\ \A r \in RunIds : RunKept(r)

\* A worker that is not idle has a run.
Engagements == [at : Stages, run : RunIds, status : {"none"} \union Final]

LEMMA Engaged ==
  ASSUME RunsTyped, NEW w \in Runners, runner[w].at # "idle"
  PROVE  runner[w] \in Engagements
BY DEF RunsTyped, IdleRunner, Engagements

\* A worker moves on with the run it has; the others stay where they are.
LEMMA MovesEffect ==
  ASSUME RunsTyped, NEW w \in Runners, NEW stage \in Stages, runner[w].at # "idle",
         NEW status \in {"none"} \union Final,
         runner' = [runner EXCEPT ![w] = [runner[w] EXCEPT !.at = stage, !.status = status]]
  PROVE  /\ runner' \in [Runners -> {IdleRunner} \union Engagements]
         /\ runner'[w].at = stage /\ runner'[w].run = runner[w].run /\ runner'[w].status = status
         /\ \A v \in Runners \ {w} : runner'[v] = runner[v]
         /\ \A v \in Runners : \A r : Has(v, r)' <=> Has(v, r)
<1>1. runner[w] \in Engagements
  BY Engaged
<1>2. [runner[w] EXCEPT !.at = stage, !.status = status] \in Engagements
  BY <1>1 DEF Engagements
<1>3. runner' \in [Runners -> {IdleRunner} \union Engagements]
  BY <1>2 DEF RunsTyped, Engagements
<1>4. /\ runner'[w].at = stage /\ runner'[w].run = runner[w].run /\ runner'[w].status = status
      /\ \A v \in Runners \ {w} : runner'[v] = runner[v]
  BY <1>1 DEF RunsTyped, Engagements
<1>5. stage # "idle"
  BY DEF Stages
<1>6. QED
  BY <1>3, <1>4, <1>5 DEF Has

\* A worker puts its run down.
LEMMA PutDown ==
  ASSUME RunsTyped, NEW w \in Runners, runner' = [runner EXCEPT ![w] = IdleRunner]
  PROVE  /\ runner' \in [Runners -> {IdleRunner} \union Engagements]
         /\ \A v \in Runners \ {w} : runner'[v] = runner[v]
         /\ \A r : /\ ~Has(w, r)'
                   /\ \A v \in Runners \ {w} : Has(v, r)' <=> Has(v, r)
BY DEF RunsTyped, Engagements, Has, IdleRunner

\* A step that is not about r leaves r as it is.
LEMMA Bystander ==
  ASSUME NEW r \in RunIds, RunKept(r), broker' = broker,
         record'[r] = record[r], request'[r] = request[r], jobs'[r] = jobs[r],
         told'[r] = told[r], shared \subseteq shared',
         crashes \in Nat, crashes' \in Nat, crashes <= crashes', jobs[r] \in Nat,
         \A w \in Runners : /\ Has(w, r)' => Has(w, r)
                            /\ Has(w, r)' => runner'[w] = runner[w]
  PROVE  RunKept(r)'
<1>1. JobsCounted(r)'
  BY DEF RunKept, JobsCounted
<1>2. NewRun(r)'
  BY DEF RunKept, NewRun
<1>3. r \notin shared' => InStep(r)'
  BY DEF RunKept, InStep
<1>4. QED
  BY <1>1, <1>2, <1>3 DEF RunKept

\* The API's part: a record is made or deleted, a job published.
LEMMA ApiStep ==
  ASSUME RunsInv, NEW s \in RunIds,
         CreateRun(s) \/ PublishRun(s) \/ EnqueueRun(s) \/ EnqueueRunFails(s)
  PROVE  RunsInv'
<1>1. /\ RunsTyped /\ MaxCrashes \in Nat /\ RunTtl \in Nat /\ crashes \in Nat /\ jobs[s] \in Nat
      /\ \A r \in RunIds : RunKept(r) /\ jobs[r] \in Nat
  BY RunsAssumption DEF RunsInv, RunsTyped
<1>2. UNCHANGED <<broker, runner, told, shared, crashes>>
  BY DEF CreateRun, PublishRun, EnqueueRun, EnqueueRunFails
<1>3. \A w \in Runners : \A r : Has(w, r)' <=> Has(w, r)
  BY <1>2 DEF Has
<1>4. RunsTyped'
  <2>1. Fresh("QUEUED") \in Records /\ NoRecord \in Records
    BY <1>1 DEF Fresh, NoRecord, Records
  <2>2. jobs' \in [RunIds -> 0 .. 2 + MaxCrashes]
    <3>1. PublishRun(s) \/ EnqueueRun(s) => jobs'[s] \in 0 .. 2 + MaxCrashes
      BY <1>1 DEF PublishRun, EnqueueRun, RunsTyped, RunKept, JobsCounted
    <3>2. QED
      BY <1>1, <3>1 DEF CreateRun, PublishRun, EnqueueRun, EnqueueRunFails, RunsTyped
  <2>3. QED
    BY <1>1, <1>2, <2>1, <2>2 DEF RunsTyped, CreateRun, PublishRun, EnqueueRun, EnqueueRunFails
<1>5. ASSUME NEW r \in RunIds, r # s
      PROVE  RunKept(r)'
  <2>1. record'[r] = record[r] /\ request'[r] = request[r] /\ jobs'[r] = jobs[r]
    BY <1>1, <1>5 DEF RunsTyped, CreateRun, PublishRun, EnqueueRun, EnqueueRunFails
  <2>2. QED
    BY <1>1, <1>2, <1>3, <1>5, <2>1, Bystander
<1>6. JobsCounted(s)'
  BY <1>1, <1>2, <1>3
  DEF RunsTyped, RunKept, JobsCounted, CreateRun, PublishRun, EnqueueRun, EnqueueRunFails
<1>7. NewRun(s)'
  BY <1>1, <1>2
  DEF RunsTyped, RunKept, NewRun, NoRecord, Fresh, CreateRun, PublishRun, EnqueueRun,
      EnqueueRunFails
<1>8. s \notin shared' => InStep(s)'
  <2>1. CASE CreateRun(s)
    <3>1. told[s] = {} /\ \A w \in Runners : ~Has(w, s)'
      BY <1>1, <1>3, <2>1 DEF CreateRun, RunKept, NewRun, JobsCounted
    <3>2. QED
      BY <1>2, <3>1 DEF InStep
  <2>2. CASE EnqueueRunFails(s)
    <3>1. record'[s].status = "none"
      BY <1>1, <2>2 DEF EnqueueRunFails, RunsTyped, NoRecord
    <3>2. QED
      BY <1>1, <1>2, <1>3, <3>1 DEF RunKept, InStep
  <2>3. CASE PublishRun(s) \/ EnqueueRun(s)
    <3>1. record' = record
      BY <2>3 DEF PublishRun, EnqueueRun
    <3>2. QED
      BY <1>1, <1>2, <1>3, <3>1 DEF RunKept, InStep
  <2>4. QED
    BY <2>1, <2>2, <2>3
<1>9. QED
  BY <1>4, <1>5, <1>6, <1>7, <1>8 DEF RunsInv, RunKept

\* The run that a worker has.
LEMMA RunOf ==
  ASSUME RunsInv, NEW w \in Runners, runner[w].at # "idle"
  PROVE  /\ runner[w].run \in RunIds /\ RunKept(runner[w].run) /\ Has(w, runner[w].run)
         /\ runner[w].at \in Stages /\ runner[w].status \in {"none"} \union Final
         /\ request[runner[w].run] \notin {"new", "recorded"}
<1>1. runner[w] \in Engagements
  BY Engaged DEF RunsInv
<1>2. QED
  BY <1>1 DEF RunsInv, RunKept, JobsCounted, Has, Engagements

\* A worker takes up a run that is queued, from the broker or in the inline enqueue.
LEMMA LoadStep ==
  ASSUME RunsInv, NEW w \in Runners, NEW s \in RunIds, Deliver(w, s) \/ EnqueueInline(w, s)
  PROVE  RunsInv'
<1>1. /\ RunsTyped /\ MaxCrashes \in Nat /\ RunTtl \in Nat /\ crashes \in Nat /\ jobs[s] \in Nat
      /\ \A r \in RunIds : RunKept(r) /\ jobs[r] \in Nat
      /\ runner[w].at = "idle"
  BY RunsAssumption DEF RunsInv, RunsTyped, Deliver, EnqueueInline, RunnerAt
<1>2. UNCHANGED <<broker, record, told, crashes>> /\ LoadRun(w, s)
  BY DEF Deliver, EnqueueInline
<1>3. /\ shared' \subseteq RunIds /\ shared \subseteq shared'
      /\ \/ UNCHANGED runner
         \/ /\ record[s].status = "QUEUED"
            /\ s \notin shared' => \A v \in Runners : runner[v].run # s
            /\ runner' = [runner EXCEPT ![w] = [at |-> "loaded", run |-> s, status |-> "none"]]
  BY <1>1, <1>2 DEF LoadRun, RunsTyped
<1>4. /\ \A v \in Runners \ {w} : runner'[v] = runner[v]
      /\ runner' \in [Runners -> {IdleRunner} \union Engagements]
      /\ runner'[w].at # "idle" => runner'[w] = [at |-> "loaded", run |-> s, status |-> "none"]
  <2>1. [at |-> "loaded", run |-> s, status |-> "none"] \in Engagements
    BY DEF Engagements, Stages
  <2>2. CASE UNCHANGED runner
    BY <1>1, <2>2 DEF RunsTyped, Engagements
  <2>3. CASE runner' = [runner EXCEPT ![w] = [at |-> "loaded", run |-> s, status |-> "none"]]
    BY <1>1, <2>1, <2>3 DEF RunsTyped, Engagements
  <2>4. QED
    BY <1>3, <2>2, <2>3
<1>5. \A v \in Runners : \A r : Has(v, r)' => (Has(v, r) \/ (v = w /\ r = s))
  BY <1>4 DEF Has
<1>6. /\ jobs' \in [RunIds -> 0 .. 2 + MaxCrashes] /\ jobs'[s] <= jobs[s]
      /\ request'[s] \notin {"new", "recorded"} /\ request'[s] \in {request[s], "inline"}
      /\ request'[s] = "inline" => ~broker /\ jobs[s] = 0
      /\ request' \in [RunIds -> {"new", "recorded", "published", "inline", "answered", "refused"}]
      /\ \A r \in RunIds \ {s} : request'[r] = request[r] /\ jobs'[r] = jobs[r]
  <2>1. CASE Deliver(w, s)
    <3>1. jobs[s] > 0 /\ jobs' = [jobs EXCEPT ![s] = jobs[s] - 1] /\ UNCHANGED request
      BY <2>1 DEF Deliver
    <3>2. request[s] \notin {"new", "recorded", "inline"}
      BY <1>1, <3>1 DEF RunKept, JobsCounted
    <3>3. QED
      BY <1>1, <3>1, <3>2 DEF RunsTyped
  <2>2. CASE EnqueueInline(w, s)
    <3>1. request[s] = "recorded" /\ request' = [request EXCEPT ![s] = "inline"] /\ UNCHANGED jobs
      BY <2>2 DEF EnqueueInline
    <3>2. ~broker /\ jobs[s] = 0
      BY <1>1, <2>2, <3>1 DEF EnqueueInline, RunKept, JobsCounted
    <3>3. QED
      BY <1>1, <3>1, <3>2 DEF RunsTyped
  <2>3. QED
    BY <2>1, <2>2
<1>7. RunsTyped'
  BY <1>1, <1>2, <1>3, <1>4, <1>6 DEF RunsTyped, Engagements
<1>8. ASSUME NEW r \in RunIds, r # s
      PROVE  RunKept(r)'
  <2>1. \A v \in Runners : /\ Has(v, r)' => Has(v, r)
                           /\ Has(v, r)' => runner'[v] = runner[v]
    BY <1>1, <1>4, <1>5, <1>8 DEF Has
  <2>2. QED
    BY <1>1, <1>2, <1>3, <1>6, <1>8, <2>1, Bystander
<1>9. JobsCounted(s)' /\ NewRun(s)'
  <2>1. jobs'[s] \in Nat /\ jobs'[s] <= jobs[s] /\ jobs[s] <= 2 + crashes
    BY <1>1, <1>6, <1>7 DEF RunKept, JobsCounted, RunsTyped
  <2>2. request'[s] = "inline" => ~broker /\ jobs'[s] = 0
    BY <1>1, <1>6, <2>1 DEF RunKept, JobsCounted, EnqueueInline, Deliver
  <2>3. JobsCounted(s)'
    BY <1>1, <1>2, <1>6, <2>1, <2>2 DEF RunKept, JobsCounted
  <2>4. NewRun(s)'
    BY <1>1, <1>2, <1>6 DEF RunKept, NewRun
  <2>5. QED
    BY <2>3, <2>4
<1>10. ASSUME s \notin shared'
       PROVE  InStep(s)'
  <2>1. InStep(s)
    BY <1>1, <1>3, <1>10 DEF RunKept
  <2>2. CASE UNCHANGED runner
    BY <1>2, <2>1, <2>2 DEF InStep, Has
  <2>3. CASE /\ record[s].status = "QUEUED" /\ \A v \in Runners : runner[v].run # s
             /\ runner' = [runner EXCEPT ![w] = [at |-> "loaded", run |-> s, status |-> "none"]]
    <3>1. \A v \in Runners : Has(v, s)' => v = w
      BY <1>5, <2>3 DEF Has
    <3>2. runner'[w].at = "loaded" /\ told[s] = {}
      BY <1>1, <2>1, <2>3 DEF InStep, RunsTyped
    <3>3. QED
      BY <1>2, <2>3, <3>1, <3>2 DEF InStep
  <2>4. QED
    BY <1>3, <1>10, <2>2, <2>3
<1>11. QED
  BY <1>7, <1>8, <1>9, <1>10 DEF RunsInv, RunKept

\* A worker claims, announces or finishes the run that it has.
LEMMA WorkStep ==
  ASSUME RunsInv, NEW w \in Runners, ClaimRun(w) \/ TellRunning(w) \/ StoreResult(w)
  PROVE  RunsInv'
<1>1. /\ RunsTyped /\ MaxCrashes \in Nat /\ RunTtl \in Nat /\ crashes \in Nat
      /\ \A r \in RunIds : RunKept(r) /\ jobs[r] \in Nat
      /\ runner[w].at # "idle" /\ runner[w] \in Engagements
  BY RunsAssumption, Engaged
  DEF RunsInv, RunsTyped, ClaimRun, TellRunning, StoreResult, RunnerAt
<1>2. PICK s \in RunIds : /\ s = runner[w].run /\ RunKept(s) /\ Has(w, s)
                          /\ request[s] \notin {"new", "recorded"}
  BY <1>1, RunOf
<1>3. UNCHANGED <<broker, request, jobs, shared, crashes>>
  BY DEF ClaimRun, TellRunning, StoreResult
<1>4. PICK stage \in {"claimed", "judging", "stored"}, status \in {"none"} \union Final :
        /\ runner' = [runner EXCEPT ![w] = [runner[w] EXCEPT !.at = stage, !.status = status]]
        /\ \/ stage = "claimed" /\ ClaimRun(w)
           \/ stage = "judging" /\ TellRunning(w)
           \/ stage = "stored" /\ status \in Final /\ StoreResult(w)
                /\ record' = [record EXCEPT ![s] = Fresh(status)]
  <2>1. CASE ClaimRun(w) \/ TellRunning(w)
    <3>1. PICK stage \in {"claimed", "judging"} :
            /\ runner' = [runner EXCEPT ![w].at = stage]
            /\ \/ stage = "claimed" /\ ClaimRun(w)
               \/ stage = "judging" /\ TellRunning(w)
      BY <2>1 DEF ClaimRun, TellRunning, Moves
    <3>2. [runner[w] EXCEPT !.at = stage]
            = [runner[w] EXCEPT !.at = stage, !.status = runner[w].status]
      BY <1>1 DEF Engagements
    <3>3. runner[w].status \in {"none"} \union Final
      BY <1>1 DEF Engagements
    <3>4. runner' = [runner EXCEPT ![w] =
                       [runner[w] EXCEPT !.at = stage, !.status = runner[w].status]]
      BY <3>1, <3>2
    <3>5. QED
      BY <3>1, <3>3, <3>4
  <2>2. CASE StoreResult(w)
    <3>1. PICK status \in Final :
            /\ runner' = [runner EXCEPT ![w].at = "stored", ![w].status = status]
            /\ record' = [record EXCEPT ![s] = Fresh(status)]
      BY <1>2, <2>2 DEF StoreResult
    <3>2. runner' = [runner EXCEPT ![w] = [runner[w] EXCEPT !.at = "stored", !.status = status]]
      BY <3>1
    <3>3. QED
      BY <2>2, <3>1, <3>2
  <2>3. QED
    BY <2>1, <2>2
<1>5. /\ runner' \in [Runners -> {IdleRunner} \union Engagements]
      /\ runner'[w].at = stage /\ runner'[w].run = s /\ runner'[w].status = status
      /\ \A v \in Runners \ {w} : runner'[v] = runner[v]
      /\ \A v \in Runners : \A r : Has(v, r)' <=> Has(v, r)
  BY <1>1, <1>2, <1>4, MovesEffect DEF Stages
<1>6. /\ \A r \in RunIds \ {s} : record'[r] = record[r] /\ told'[r] = told[r]
      /\ record' \in [RunIds -> Records]
      /\ told' \in [RunIds -> SUBSET ({"RUNNING"} \union Final)]
      /\ \/ UNCHANGED record
         \/ record'[s] = Fresh("RUNNING")
         \/ record'[s] = Fresh(status) /\ status \in Final
  <2>1. Fresh("RUNNING") \in Records /\ \A f \in Final : Fresh(f) \in Records
    BY <1>1 DEF Fresh, Records
  <2>2. told' \in {told, [told EXCEPT ![s] = told[s] \union {"RUNNING"}]}
    BY <1>2, <1>4 DEF ClaimRun, TellRunning, Tells, StoreResult
  <2>3. record' \in {record, [record EXCEPT ![s] = Fresh("RUNNING")]} \/
          (status \in Final /\ record' = [record EXCEPT ![s] = Fresh(status)])
    BY <1>2, <1>4 DEF ClaimRun, TellRunning
  <2>4. QED
    BY <1>1, <1>2, <2>1, <2>2, <2>3 DEF RunsTyped
<1>7. RunsTyped'
  <2>1. \A v \in Runners : runner'[v].at = "stored" => runner'[v].status \in Final
    BY <1>1, <1>4, <1>5 DEF RunsTyped
  <2>2. QED
    BY <1>1, <1>3, <1>5, <1>6, <2>1 DEF RunsTyped, Engagements
<1>8. ASSUME NEW r \in RunIds, r # s
      PROVE  RunKept(r)'
  <2>1. \A v \in Runners : Has(v, r)' => Has(v, r) /\ runner'[v] = runner[v]
    BY <1>1, <1>5, <1>8 DEF Has
  <2>2. QED
    BY <1>1, <1>3, <1>6, <1>8, <2>1, Bystander
<1>9. JobsCounted(s)' /\ NewRun(s)'
  BY <1>2, <1>3, <1>5, <1>6 DEF RunKept, JobsCounted, NewRun, Fresh, Final
<1>10. ASSUME s \notin shared'
       PROVE  InStep(s)'
  <2>1. InStep(s) /\ \A v \in Runners : Has(v, s)' => v = w
    BY <1>2, <1>3, <1>5, <1>10 DEF RunKept, InStep
  <2>2. CASE ClaimRun(w)
    <3>1. stage = "claimed" /\ record'[s].status = "RUNNING" /\ told'[s] = {}
      BY <1>1, <1>2, <1>4, <2>1, <2>2
      DEF ClaimRun, RunnerAt, TellRunning, StoreResult, InStep, RunsTyped, Fresh
    <3>2. QED
      BY <1>5, <2>1, <3>1 DEF InStep
  <2>3. CASE TellRunning(w)
    <3>1. /\ stage = "judging" /\ UNCHANGED record /\ record[s].status \in {"none", "RUNNING"}
          /\ told'[s] \subseteq {"RUNNING"}
      BY <1>1, <1>2, <1>4, <2>1, <2>3
      DEF TellRunning, Tells, RunnerAt, ClaimRun, StoreResult, InStep, RunsTyped
    <3>2. QED
      BY <1>5, <2>1, <3>1 DEF InStep, Final
  <2>4. CASE StoreResult(w)
    <3>1. runner[w].at = "judging" /\ told'[s] = told[s] /\ told[s] \subseteq {"RUNNING"}
      BY <1>2, <2>1, <2>4 DEF StoreResult, RunnerAt, InStep
    <3>2. stage = "stored" /\ status \in Final /\ record' = [record EXCEPT ![s] = Fresh(status)]
      BY <1>2, <1>4, <3>1 DEF RunnerAt, ClaimRun, TellRunning
    <3>3. record'[s].status = status
      BY <1>1, <3>2 DEF RunsTyped, Fresh
    <3>4. QED
      BY <1>5, <2>1, <3>1, <3>2, <3>3 DEF InStep, Final
  <2>5. QED
    BY <2>2, <2>3, <2>4
<1>11. QED
  BY <1>7, <1>8, <1>9, <1>10 DEF RunsInv, RunKept

\* A worker puts its run down: told, raised or killed.
LEMMA EndStep ==
  ASSUME RunsInv, NEW w \in Runners, TellResult(w) \/ RunRaises(w) \/ KillRunner(w)
  PROVE  RunsInv'
<1>1. /\ RunsTyped /\ MaxCrashes \in Nat /\ RunTtl \in Nat /\ crashes \in Nat
      /\ \A r \in RunIds : RunKept(r) /\ jobs[r] \in Nat
      /\ runner[w].at # "idle" /\ runner[w].status \in {"none"} \union Final
  BY RunsAssumption, RunOf
  DEF RunsInv, RunsTyped, TellResult, RunRaises, KillRunner, RunnerAt
<1>2. PICK s \in RunIds : /\ s = runner[w].run /\ RunKept(s) /\ Has(w, s)
                          /\ request[s] \notin {"new", "recorded"}
  BY <1>1, RunOf
<1>3. UNCHANGED <<broker, shared>> /\ runner' = [runner EXCEPT ![w] = IdleRunner]
  BY DEF TellResult, RunRaises, KillRunner
<1>4. /\ runner' \in [Runners -> {IdleRunner} \union Engagements]
      /\ \A v \in Runners \ {w} : runner'[v] = runner[v]
      /\ \A r : ~Has(w, r)' /\ \A v \in Runners \ {w} : Has(v, r)' <=> Has(v, r)
  BY <1>1, <1>3, PutDown
<1>5. /\ request' \in {request, [request EXCEPT ![s] = "answered"],
                        [request EXCEPT ![s] = "refused"]}
      /\ record' \in {record, [record EXCEPT ![s] = NoRecord]}
      /\ \/ crashes' = crashes /\ jobs' = jobs
         \/ /\ crashes < MaxCrashes /\ crashes' = crashes + 1 /\ UNCHANGED request
            /\ jobs' = jobs \/ (broker /\ jobs' = [jobs EXCEPT ![s] = jobs[s] + 1])
      /\ \/ told' = told
         \/ TellResult(w) /\ told' = [told EXCEPT ![s] = told[s] \union {runner[w].status}]
  BY <1>2 DEF TellResult, RunRaises, KillRunner, Answered, Tells
<1>6. /\ \A r \in RunIds \ {s} : /\ record'[r] = record[r] /\ told'[r] = told[r]
                                 /\ request'[r] = request[r] /\ jobs'[r] = jobs[r]
      /\ record'[s] \in {record[s], NoRecord}
      /\ request'[s] \in {request[s], "answered", "refused"}
      /\ crashes' \in 0 .. MaxCrashes /\ crashes <= crashes'
      /\ jobs'[s] \in {jobs[s], jobs[s] + (crashes' - crashes)}
      /\ crashes' = crashes \/ request'[s] = request[s]
  BY <1>1, <1>2, <1>5 DEF RunsTyped
<1>7. RunsTyped'
  <2>1. NoRecord \in Records
    BY <1>1 DEF NoRecord, Records
  <2>2. record' \in [RunIds -> Records]
    BY <1>1, <1>5, <2>1 DEF RunsTyped
  <2>3. told' \in [RunIds -> SUBSET ({"RUNNING"} \union Final)]
    BY <1>1, <1>2, <1>5 DEF RunsTyped, TellResult, RunnerAt
  <2>4. jobs' \in [RunIds -> 0 .. 2 + MaxCrashes]
    <3>1. jobs'[s] \in 0 .. 2 + MaxCrashes
      BY <1>1, <1>2, <1>6 DEF RunKept, JobsCounted, RunsTyped
    <3>2. QED
      BY <1>1, <1>5, <3>1 DEF RunsTyped
  <2>5. request' \in [RunIds -> {"new", "recorded", "published", "inline", "answered", "refused"}]
    BY <1>1, <1>5 DEF RunsTyped
  <2>6. \A v \in Runners : runner'[v].at = "stored" => runner'[v].status \in Final
    BY <1>1, <1>3, <1>4 DEF RunsTyped, IdleRunner
  <2>7. QED
    BY <1>1, <1>3, <1>4, <1>6, <2>2, <2>3, <2>4, <2>5, <2>6 DEF RunsTyped, Engagements
<1>8. ASSUME NEW r \in RunIds, r # s
      PROVE  RunKept(r)'
  <2>1. \A v \in Runners : /\ Has(v, r)' => Has(v, r)
                           /\ Has(v, r)' => runner'[v] = runner[v]
    BY <1>4
  <2>2. QED
    BY <1>1, <1>3, <1>6, <1>8, <2>1, Bystander
<1>9. JobsCounted(s)' /\ NewRun(s)'
  <2>1. request[s] = "inline" => jobs'[s] = 0
    BY <1>1, <1>2, <1>5 DEF RunKept, JobsCounted, RunsTyped
  <2>2. JobsCounted(s)'
    BY <1>1, <1>2, <1>3, <1>4, <1>6, <2>1 DEF RunKept, JobsCounted, RunsTyped
  <2>3. NewRun(s)'
    BY <1>2, <1>6 DEF RunKept, NewRun, NoRecord
  <2>4. QED
    BY <2>2, <2>3
<1>10. ASSUME s \notin shared'
       PROVE  InStep(s)'
  <2>1. InStep(s) /\ \A v \in Runners : ~Has(v, s)'
    BY <1>2, <1>3, <1>4, <1>10 DEF RunKept, InStep
  <2>2. record'[s].status \in {record[s].status, "none"}
    BY <1>6 DEF NoRecord
  <2>3. CASE told'[s] = told[s]
    BY <2>1, <2>2, <2>3 DEF InStep, Final
  <2>4. CASE TellResult(w) /\ told'[s] = told[s] \union {runner[w].status}
    <3>1. /\ runner[w].status \in Final /\ told[s] \subseteq {"RUNNING"}
          /\ record[s].status \in {"none", runner[w].status}
      BY <1>1, <1>2, <2>1, <2>4 DEF TellResult, RunnerAt, InStep, RunsTyped
    <3>2. QED
      BY <2>1, <2>2, <2>4, <3>1 DEF InStep, Final
  <2>5. QED
    BY <1>1, <1>2, <1>5, <2>3, <2>4 DEF RunsTyped
<1>11. QED
  BY <1>7, <1>8, <1>9, <1>10 DEF RunsInv, RunKept

\* Records grow older, and are gone when their time is over.
LEMMA TickStep ==
  ASSUME RunsInv, RunTick
  PROVE  RunsInv'
<1>1. RunsTyped /\ RunTtl \in Nat /\ \A r \in RunIds : RunKept(r)
  BY RunsAssumption DEF RunsInv
<1>2. UNCHANGED <<broker, request, jobs, runner, told, shared, crashes>>
  BY DEF RunTick
<1>3. ASSUME NEW r \in RunIds
      PROVE  /\ record'[r] \in Records
             /\ record'[r].status \in {record[r].status, "none"}
             /\ record'[r].status = "none" => record'[r] = NoRecord
             /\ record[r] = NoRecord => record'[r] = NoRecord
  <2>1. record[r] \in Records /\ record'[r] = Older(record[r])
    BY <1>1 DEF RunTick, RunsTyped
  <2>2. NewRun(r)
    BY <1>1 DEF RunKept
  <2>3. QED
    BY <1>1, <2>1, <2>2 DEF Older, Records, NoRecord, NewRun, Final
<1>4. RunsTyped'
  BY <1>1, <1>2, <1>3 DEF RunsTyped, RunTick
<1>5. ASSUME NEW r \in RunIds
      PROVE  RunKept(r)'
  <2>1. JobsCounted(r)'
    BY <1>1, <1>2 DEF RunKept, JobsCounted, Has
  <2>2. NewRun(r)'
    BY <1>1, <1>2, <1>3 DEF RunKept, NewRun
  <2>3. r \notin shared' => InStep(r)'
    BY <1>1, <1>2, <1>3 DEF RunKept, InStep, Has
  <2>4. QED
    BY <2>1, <2>2, <2>3 DEF RunKept
<1>6. QED
  BY <1>4, <1>5 DEF RunsInv

\* The invariant holds at the beginning, and every step preserves it.
LEMMA RunsInitInv == RunsInit => RunsInv
BY RunsAssumption DEF RunsInit, RunsInv, RunsTyped, RunKept, JobsCounted, NewRun, InStep, Has,
   IdleRunner, NoRecord, Records, Final

LEMMA RunsNextInv == RunsInv /\ [RunsNext]_runsVars => RunsInv'
<1> SUFFICES ASSUME RunsInv, [RunsNext]_runsVars
             PROVE  RunsInv'
  OBVIOUS
<1>1. CASE UNCHANGED runsVars
  BY <1>1 DEF runsVars, RunsInv, RunsTyped, RunKept, JobsCounted, NewRun, InStep, Has
<1>2. CASE RunsNext
  BY <1>2, ApiStep, LoadStep, WorkStep, EndStep, TickStep DEF RunsNext
<1>3. QED
  BY <1>1, <1>2

\* The invariant of run_for, the queue, run_code and the record in Redis, with expiry and kills.
THEOREM RunsInvariant == RunsSpec => []RunsInv
BY RunsInitInv, RunsNextInv, PTL DEF RunsSpec

\* What Redis, the broker and the workers hold has its type; jobs are bounded by the
\* publications and the crashes.
THEOREM RunsTypesOK == RunsSpec => []RunsTypeOK
<1>1. RunsInv => RunsTypeOK
  BY RunsAssumption DEF RunsInv, RunsTyped, RunsTypeOK, Records, Stages, IdleRunner
<1>2. QED
  BY <1>1, RunsInvariant, PTL

\* An event of run_code never runs ahead of the record that a client polls (get_run).
THEOREM EventsAreConfirmed == RunsSpec => []PollConfirmsEvents
<1>1. RunsInv => PollConfirmsEvents
  <2> SUFFICES ASSUME RunsInv, NEW r \in RunIds \ shared
               PROVE  /\ \A status \in told[r] \intersect Final : GetRun(r) \in {status, "none"}
                      /\ "RUNNING" \in told[r] => GetRun(r) # "QUEUED"
                      /\ ~(Final \subseteq told[r])
    BY DEF PollConfirmsEvents
  <2>1. InStep(r)
    BY DEF RunsInv, RunKept
  <2>2. QED
    BY <2>1 DEF InStep, GetRun, Final
<1>2. QED
  BY <1>1, RunsInvariant, PTL

\* While its record is there, a run that no two workers have had only moves forward.
THEOREM RunsMoveForward == RunsSpec => RunMovesForward
<1> DEFINE Forward(r) ==
      record[r] # NoRecord /\ record'[r] # NoRecord =>
        /\ Rank(record[r].status) <= Rank(record'[r].status)
        /\ record[r].status \in Final => record'[r].status = record[r].status
<1>1. ASSUME RunsInv, [RunsNext]_runsVars, NEW r \in RunIds \ shared'
      PROVE  Forward(r)
  <2>1. RunsTyped /\ NewRun(r) /\ record[r] \in Records
    BY <1>1 DEF RunsInv, RunKept, RunsTyped
  <2>2. CASE record'[r].status = record[r].status
    <3>1. record[r].status \in {"none", "QUEUED", "RUNNING"} \union Final
      BY <2>1 DEF Records
    <3>2. QED
      BY <2>2, <3>1 DEF Rank, Final
  <2>3. ASSUME NEW w \in Runners, ClaimRun(w) \/ StoreResult(w)
        PROVE  Forward(r)
    <3>1. CASE runner[w].run = r
      <4>1. Has(w, r) /\ InStep(r)
        BY <1>1, <2>3, <3>1 DEF Has, RunsInv, RunKept, ClaimRun, StoreResult, RunnerAt
      <4>2. CASE ClaimRun(w)
        <5>1. record[r].status \in {"none", "QUEUED"} /\ record'[r].status = "RUNNING"
          BY <2>1, <3>1, <4>1, <4>2 DEF ClaimRun, RunnerAt, InStep, RunsTyped, Fresh
        <5>2. QED
          BY <2>1, <5>1 DEF Rank, Final, NewRun
      <4>3. CASE StoreResult(w)
        <5>1. record[r].status \in {"none", "RUNNING"} /\ record'[r].status \in Final
          BY <2>1, <3>1, <4>1, <4>3 DEF StoreResult, RunnerAt, InStep, RunsTyped, Fresh
        <5>2. QED
          BY <2>1, <5>1 DEF Rank, Final, NewRun
      <4>4. QED
        BY <2>3, <4>2, <4>3
    <3>2. CASE runner[w].run # r
      BY <2>1, <2>2, <2>3, <3>2 DEF ClaimRun, StoreResult, RunsTyped
    <3>3. QED
      BY <3>1, <3>2
  <2>4. ASSUME NEW s \in RunIds, CreateRun(s) \/ EnqueueRunFails(s)
        PROVE  Forward(r)
    <3>1. CASE s = r
      BY <2>1, <2>4, <3>1 DEF CreateRun, EnqueueRunFails, NewRun, RunsTyped
    <3>2. CASE s # r
      BY <2>1, <2>2, <2>4, <3>2 DEF CreateRun, EnqueueRunFails, RunsTyped
    <3>3. QED
      BY <3>1, <3>2
  <2>5. ASSUME NEW w \in Runners, RunRaises(w)
        PROVE  Forward(r)
    <3>1. record'[r] \in {record[r], NoRecord}
      BY <2>1, <2>5 DEF RunRaises, RunsTyped
    <3>2. QED
      BY <2>2, <3>1
  <2>6. CASE RunTick
    <3>1. record'[r].status = record[r].status \/ record'[r] = NoRecord
      BY <2>1, <2>6 DEF RunTick, Older, Records
    <3>2. QED
      BY <2>2, <3>1
  <2>7. CASE UNCHANGED record
    BY <2>2, <2>7
  <2>8. QED
    BY <1>1, <2>3, <2>4, <2>5, <2>6, <2>7
    DEF RunsNext, PublishRun, EnqueueRun, Deliver, EnqueueInline, TellRunning, TellResult,
        KillRunner, runsVars
<1>2. ASSUME RunsInv, [RunsNext]_runsVars
      PROVE  \A r \in RunIds \ shared' : Forward(r)
  BY <1>1, <1>2
<1>3. QED
  BY <1>2, RunsInvariant, PTL DEF RunsSpec, RunMovesForward

-----------------------------------------------------------------------------
(* The page: the inductive invariant                                       *)

Flags ==
  /\ overdue \in BOOLEAN /\ due \in BOOLEAN /\ unheard \in BOOLEAN
  /\ ticket \in BOOLEAN /\ frames \in BOOLEAN

Parts ==
  /\ page \in Pages
  /\ row \in [status : OpenRow \union ClosedRow, late : BOOLEAN]
  /\ worker \in {"idle", "judging", "failing", "done"}
  /\ shown \in [status : OpenRow \union ClosedRow \union {"none"}, failed : BOOLEAN]
  /\ fetch \in [at : {"idle", "asked", "read"}, read : OpenRow \union ClosedRow \union {"none"},
                tries : 0 .. MaxRetries]
  /\ socket \in [at : {"off", "ticket", "opening", "open", "waiting", "unavailable"},
                 retries : 0 .. MaxReconnects, opened : BOOLEAN]
  /\ server \in {"none", "accepted", "subscribed"}

\* What is in flight agrees with itself: only a subscribed server sends frames.
InFlight ==
  /\ (fetch.at = "read") <=> (fetch.read # "none")
  /\ fetch.at = "idle" => fetch = NoFetch
  /\ frames => server = "subscribed"

\* How the row follows its worker: it is the reaper's or nobody's until the worker commits,
\* and it changes after it was closed only once its worker has.
RowFollowsWorker ==
  /\ worker = "idle" => row.status \in {"QUEUED", "FAILED"} /\ ~row.late
  /\ worker = "judging" => row.status \in {"RUNNING", "FAILED"} /\ ~row.late
  /\ worker = "failing" => row.status = "COMPLETED"
  /\ worker = "done" => row.status \in ClosedRow

\* A closed status that the row does not have any more.
Outdated(status) == status \in ClosedRow /\ status # row.status
\* Something is under way that will make the page ask, or nobody heard of the last change.
Noticed == unheard \/ due \/ frames

\* What the page shows, or is about to show, is the row, or the page will ask again, or the
\* row changed late and the page has not heard of it.
ShownOrNoticed ==
  /\ Outdated(shown.status) =>
       shown.failed \/ (row.late /\ (Noticed \/ fetch.at = "asked" \/ fetch.read = row.status))
  /\ Outdated(fetch.read) => row.late /\ Noticed
  /\ shown.status = "none" => shown.failed \/ fetch.at # "idle"

LiveInv == Flags /\ Parts /\ InFlight /\ RowFollowsWorker /\ ShownOrNoticed

\* The five kinds of steps: of the row, of events, of the line, and requests with the same
\* and with a new answer on the page.
RowChanges == ClaimRow \/ CompleteRow \/ FailRow \/ SweepSelects \/ SweepCloses
EventMoves == PublishEvent \/ EventIsLost
LineMoves == TakeTicket \/ TicketExpires \/ Redeem \/ Subscribe \/ OnOpen \/ OnClose \/ Reconnect
PageAsks == OnMessage \/ Poll \/ ReadRow \/ FetchRetries
PageLearns == FetchAnswers \/ FetchFails

\* Every step of the page is of one of these kinds.
LEMMA LiveSteps ==
  LiveNext => RowChanges \/ EventMoves \/ LineMoves \/ PageAsks \/ PageLearns
BY DEF LiveNext, RowChanges, EventMoves, LineMoves, PageAsks, PageLearns

\* What a request can be, and what a socket can be.
LEMMA Beginnings ==
  /\ NoFetch \in [at : {"idle", "asked", "read"}, read : OpenRow \union ClosedRow \union {"none"},
                  tries : 0 .. MaxRetries]
  /\ \A n \in 0 .. MaxRetries : [Asking EXCEPT !.tries = n] \in
       [at : {"idle", "asked", "read"}, read : OpenRow \union ClosedRow \union {"none"},
        tries : 0 .. MaxRetries]
  /\ Asking = [Asking EXCEPT !.tries = 0] /\ 0 \in 0 .. MaxRetries
  /\ \A socketNew \in {NoSocket, NewSocket} : socketNew \in
       [at : {"off", "ticket", "opening", "open", "waiting", "unavailable"},
        retries : 0 .. MaxReconnects, opened : BOOLEAN]
BY LiveViewAssumption DEF NoFetch, Asking, NoSocket, NewSocket

\* A step of the row preserves the invariant.
LEMMA RowStep ==
  ASSUME LiveInv, RowChanges
  PROVE  LiveInv'
<1> USE DEF LiveInv, RowChanges, Changes, pageSide, lineSide, OpenRow, ClosedRow
<1>1. UNCHANGED <<page, shown, fetch, socket, server, ticket, frames>>
  BY DEF ClaimRow, CompleteRow, FailRow, SweepSelects, SweepCloses
<1>2. Flags'
  BY DEF ClaimRow, CompleteRow, FailRow, SweepSelects, SweepCloses, Flags
<1>3. worker' \in {"idle", "judging", "failing", "done"} /\ RowFollowsWorker'
  BY DEF ClaimRow, CompleteRow, FailRow, SweepSelects, SweepCloses, Parts, RowFollowsWorker
\* A closed row that changes had not changed late before; every change is noticed.
<1>4. \/ row' = row /\ (Noticed => Noticed')
      \/ \E status \in {"RUNNING", "COMPLETED", "FAILED"} :
           /\ row' = [status |-> status, late |-> row.status \in ClosedRow /\ status # row.status]
           /\ row.status = status => ~row.late
           /\ Noticed'
  <2>1. CASE SweepSelects
    BY <2>1 DEF SweepSelects, Noticed
  <2>2. CASE ClaimRow \/ CompleteRow \/ FailRow
    BY <2>2 DEF ClaimRow, CompleteRow, FailRow, RowFollowsWorker, Noticed, Flags
  <2>3. CASE SweepCloses
    BY <2>3 DEF SweepCloses, RowFollowsWorker, Noticed, Flags, Parts
  <2>4. QED
    BY <2>1, <2>2, <2>3
<1>5. row' = row \/ \E status \in OpenRow \union ClosedRow, late \in BOOLEAN :
                        row' = [status |-> status, late |-> late]
  <2>1. CASE row' = row
    BY <2>1
  <2>2. CASE row' # row
    <3>1. PICK status \in {"RUNNING", "COMPLETED", "FAILED"} :
            row' = [status |-> status, late |-> row.status \in ClosedRow /\ status # row.status]
      BY <1>4, <2>2
    <3> DEFINE changedLate == row.status \in ClosedRow /\ status # row.status
    <3>2. changedLate \in BOOLEAN
      OBVIOUS
    <3>3. row' = [status |-> status, late |-> changedLate]
      BY <3>1
    <3> HIDE DEF changedLate
    <3>4. QED
      BY <3>2, <3>3
  <2>3. QED
    BY <2>1, <2>2
<1>6. Parts' /\ InFlight'
  BY <1>1, <1>3, <1>5 DEF Parts, InFlight
<1>7. ShownOrNoticed'
  <2>1. CASE row' = row /\ (Noticed => Noticed')
    BY <1>1, <2>1 DEF ShownOrNoticed, Outdated
  <2>2. CASE ~(row' = row /\ (Noticed => Noticed'))
    <3>1. PICK status \in {"RUNNING", "COMPLETED", "FAILED"} :
            /\ row' = [status |-> status, late |-> row.status \in ClosedRow /\ status # row.status]
            /\ row.status = status => ~row.late
            /\ Noticed'
      BY <1>4, <2>2
    <3>2. /\ row'.status = status
          /\ row'.late <=> (row.status \in ClosedRow /\ status # row.status)
      BY <3>1
    <3>3. row.late => row.status \in ClosedRow
      BY DEF RowFollowsWorker, Parts
    <3>4. QED
      BY <1>1, <3>1, <3>2, <3>3 DEF ShownOrNoticed, Outdated
  <2>3. QED
    BY <2>1, <2>2
<1>8. QED
  BY <1>2, <1>3, <1>6, <1>7

\* So does a step of an event or of the line.
LEMMA LineStep ==
  ASSUME LiveInv, EventMoves \/ LineMoves
  PROVE  LiveInv'
<1> USE DEF LiveInv, EventMoves, LineMoves, LineCut, SocketGoes, SocketAt,
            rowSide, pageSide, lineSide
<1>1. UNCHANGED <<page, row, worker, overdue, shown, fetch>>
  BY DEF PublishEvent, EventIsLost, TakeTicket, TicketExpires, Redeem, Subscribe, OnOpen, OnClose,
         Reconnect
<1>2. Flags'
  BY DEF PublishEvent, EventIsLost, TakeTicket, TicketExpires, Redeem, Subscribe, OnOpen, OnClose,
         Reconnect, Flags
<1>3. socket' \in [at : {"off", "ticket", "opening", "open", "waiting", "unavailable"},
                   retries : 0 .. MaxReconnects, opened : BOOLEAN]
  <2> DEFINE Sockets == [at : {"off", "ticket", "opening", "open", "waiting", "unavailable"},
                         retries : 0 .. MaxReconnects, opened : BOOLEAN]
  <2>0. socket \in Sockets /\ MaxReconnects \in Nat
    BY LiveViewAssumption DEF Parts
  <2>1. CASE OnClose
    <3>1. CASE socket.opened /\ socket.retries < MaxReconnects
      <4>1. socket.retries + 1 \in 0 .. MaxReconnects
        BY <2>0, <3>1
      <4>2. socket' = [[socket EXCEPT !.at = "waiting"] EXCEPT !.retries = socket.retries + 1]
        BY <2>0, <2>1, <3>1 DEF OnClose
      <4>3. [socket EXCEPT !.at = "waiting"] \in Sockets
        BY <2>0
      <4>4. QED
        BY <4>1, <4>2, <4>3
    <3>2. CASE ~(socket.opened /\ socket.retries < MaxReconnects)
      <4>1. socket' = [socket EXCEPT !.at = "unavailable"]
        BY <2>1, <3>2 DEF OnClose
      <4>2. QED
        BY <2>0, <4>1
    <3>3. QED
      BY <3>1, <3>2
  <2>2. CASE TakeTicket \/ OnOpen \/ Reconnect
    <3>1. CASE OnOpen
      <4>1. socket' = [at |-> "open", retries |-> 0, opened |-> TRUE] /\ 0 \in 0 .. MaxReconnects
        BY <2>0, <3>1 DEF OnOpen
      <4>2. QED
        BY <4>1
    <3>2. CASE TakeTicket \/ Reconnect
      <4>1. \E at \in {"opening", "unavailable", "ticket"} : socket' = [socket EXCEPT !.at = at]
        BY <3>2 DEF TakeTicket, Reconnect
      <4>2. QED
        BY <2>0, <4>1
    <3>3. QED
      BY <2>2, <3>1, <3>2
  <2>3. CASE UNCHANGED socket
    BY <2>3 DEF Parts
  <2>4. QED
    BY <2>1, <2>2, <2>3 DEF PublishEvent, EventIsLost, TicketExpires, Redeem, Subscribe
<1>4. server' \in {"none", "accepted", "subscribed"} /\ (frames' => server' = "subscribed")
  <2>1. CASE PublishEvent \/ EventIsLost
    <3>1. CASE PublishEvent
      <4>1. server' = server /\ (frames' => server = "subscribed")
        BY <3>1 DEF PublishEvent
      <4>2. QED
        BY <4>1 DEF Parts
    <3>2. CASE EventIsLost
      <4>1. server' = server /\ frames' = frames
        BY <3>2 DEF EventIsLost
      <4>2. QED
        BY <4>1 DEF Parts, InFlight
    <3>3. QED
      BY <2>1, <3>1, <3>2
  <2>2. CASE Redeem \/ Subscribe \/ OnClose
    BY <2>2 DEF Redeem, Subscribe, OnClose, Parts, InFlight
  <2>3. CASE TakeTicket \/ TicketExpires \/ OnOpen \/ Reconnect
    BY <2>3 DEF TakeTicket, TicketExpires, OnOpen, Reconnect, Parts, InFlight
  <2>4. QED
    BY <2>1, <2>2, <2>3
<1>5. Parts' /\ InFlight' /\ RowFollowsWorker'
  BY <1>1, <1>3, <1>4 DEF Parts, InFlight, RowFollowsWorker
<1>6. Noticed => Noticed'
  BY DEF PublishEvent, EventIsLost, TakeTicket, TicketExpires, Redeem, Subscribe, OnOpen, OnClose,
         Reconnect, Flags, Noticed
<1>7. ShownOrNoticed'
  BY <1>1, <1>6 DEF ShownOrNoticed, Outdated
<1>8. QED
  BY <1>2, <1>5, <1>7

\* So does a step of a request: one that begins will read the row as it is by then.
LEMMA AskStep ==
  ASSUME LiveInv, PageAsks
  PROVE  LiveInv'
<1> USE DEF LiveInv, PageAsks, rowSide, pageSide, lineSide
<1>1. UNCHANGED <<page, row, worker, overdue, due, shown, socket, server, ticket>>
  BY DEF OnMessage, Poll, ReadRow, FetchRetries
<1>2. Flags' /\ (frames' => frames)
  <2>1. CASE OnMessage
    BY <2>1 DEF OnMessage, Flags
  <2>2. CASE UNCHANGED <<unheard, frames>>
    BY <1>1, <2>2 DEF Flags
  <2>3. QED
    BY <2>1, <2>2 DEF Poll, ReadRow, FetchRetries
<1>3. \/ fetch' = fetch /\ (Noticed => Noticed')
      \/ \E n \in 0 .. MaxRetries : fetch' = [Asking EXCEPT !.tries = n]
      \/ ReadRow
  <2>1. CASE OnMessage
    <3>1. fetch' = Asking \/ (fetch' = fetch /\ fetch' # Asking /\ unheard')
      BY <2>1 DEF OnMessage
    <3>2. QED
      BY <3>1, Beginnings DEF Noticed
  <2>2. CASE Poll
    BY <2>2, Beginnings DEF Poll
  <2>3. CASE FetchRetries
    <3>1. fetch.tries + 1 \in 0 .. MaxRetries
      BY <2>3, LiveViewAssumption DEF FetchRetries, Parts
    <3>2. QED
      BY <2>3, <3>1 DEF FetchRetries
  <2>4. QED
    BY <2>1, <2>2, <2>3
<1>4. CASE ~ReadRow
  <2>1. Parts' /\ InFlight' /\ RowFollowsWorker'
    BY <1>1, <1>2, <1>3, <1>4, Beginnings DEF Parts, InFlight, RowFollowsWorker, Asking
  <2>2. fetch' = fetch \/ (fetch'.at = "asked" /\ fetch'.read = "none")
    BY <1>3, <1>4 DEF Asking
  <2>3. ShownOrNoticed'
    <3>1. CASE fetch' = fetch /\ (Noticed => Noticed')
      BY <1>1, <3>1 DEF ShownOrNoticed, Outdated
    <3>2. CASE fetch'.at = "asked" /\ fetch'.read = "none"
      <4>1. ~Outdated(fetch'.read)
        BY <3>2 DEF Outdated, ClosedRow
      <4>2. Outdated(shown.status) => shown.failed \/ row.late
        BY DEF ShownOrNoticed
      <4>3. QED
        BY <1>1, <3>2, <4>1, <4>2 DEF ShownOrNoticed, Outdated, ClosedRow
    <3>3. \/ fetch' = fetch /\ (Noticed => Noticed')
          \/ fetch'.at = "asked" /\ fetch'.read = "none"
      BY <1>3, <1>4 DEF Asking
    <3>4. QED
      BY <3>1, <3>2, <3>3
  <2>4. QED
    BY <1>2, <2>1, <2>3
<1>5. CASE ReadRow
  <2>1. fetch' = [fetch EXCEPT !.at = "read", !.read = row.status]
    BY <1>5 DEF ReadRow
  <2>2. /\ fetch' \in [at : {"idle", "asked", "read"},
                       read : OpenRow \union ClosedRow \union {"none"}, tries : 0 .. MaxRetries]
        /\ fetch'.at = "read" /\ fetch'.read = row.status /\ row.status # "none"
    BY <2>1 DEF Parts, OpenRow, ClosedRow
  <2>3. UNCHANGED <<unheard, frames>>
    BY <1>5 DEF ReadRow
  <2>4. Parts' /\ InFlight' /\ RowFollowsWorker'
    BY <1>1, <2>2, <2>3 DEF Parts, InFlight, RowFollowsWorker
  <2>5. ShownOrNoticed'
    BY <1>1, <2>2, <2>3 DEF ShownOrNoticed, Outdated, Noticed
  <2>6. QED
    BY <1>2, <2>4, <2>5
<1>6. QED
  BY <1>4, <1>5

\* So does an answer, or a request that fails for good.
LEMMA LearnStep ==
  ASSUME LiveInv, PageLearns
  PROVE  LiveInv'
<1> USE DEF LiveInv, PageLearns, Shows, LineCut, SocketAt, rowSide, pageSide, lineSide
<1>1. UNCHANGED <<page, row, worker, overdue, due, ticket>> /\ fetch' = NoFetch
  BY DEF FetchAnswers, FetchFails
<1>2. PICK status \in OpenRow \union ClosedRow \union {"none"}, fails \in BOOLEAN :
        /\ shown' = [status |-> status, failed |-> fails]
        /\ \/ fails /\ status = shown.status
           \/ ~fails /\ status = fetch.read /\ status # "none"
  BY DEF FetchAnswers, FetchFails, Parts, InFlight
<1>3. Flags' /\ (Noticed => Noticed')
  BY DEF FetchAnswers, FetchFails, Flags, Noticed
<1>4. /\ socket' \in {socket, NoSocket, NewSocket} /\ server' \in {server, "none"}
      /\ frames' => server' = server /\ frames' = frames
  BY DEF FetchAnswers, FetchFails
<1>5. Parts' /\ InFlight' /\ RowFollowsWorker'
  BY <1>1, <1>2, <1>3, <1>4, Beginnings DEF Parts, InFlight, RowFollowsWorker, Flags, NoFetch
<1>6. ShownOrNoticed'
  BY <1>1, <1>2, <1>3 DEF ShownOrNoticed, Outdated, NoFetch, ClosedRow
<1>7. QED
  BY <1>3, <1>5, <1>6

\* The invariant holds at the beginning, and every step preserves it.
LEMMA LiveInitInv == LiveInit => LiveInv
<1> SUFFICES ASSUME LiveInit
             PROVE  LiveInv
  OBVIOUS
<1>1. /\ fetch = Asking /\ fetch.at = "asked" /\ fetch.read = "none"
      /\ row.status = "QUEUED" /\ ~row.late /\ worker = "idle" /\ shown.status = "none" /\ ~frames
  BY DEF LiveInit, Asking
<1>2. Flags
  BY DEF LiveInit, Flags
<1>3. row \in [status : OpenRow \union ClosedRow, late : BOOLEAN]
  BY DEF LiveInit, OpenRow, ClosedRow
<1>4. shown \in [status : OpenRow \union ClosedRow \union {"none"}, failed : BOOLEAN]
  BY DEF LiveInit
<1>5. Parts
  BY <1>1, <1>3, <1>4, Beginnings DEF LiveInit, Parts
<1>6. InFlight /\ RowFollowsWorker
  BY <1>1 DEF InFlight, RowFollowsWorker
<1>7. ShownOrNoticed
  BY <1>1 DEF ShownOrNoticed, Outdated, ClosedRow
<1>8. QED
  BY <1>2, <1>5, <1>6, <1>7 DEF LiveInv

LEMMA LiveNextInv == LiveInv /\ [LiveNext]_liveVars => LiveInv'
<1>1. LiveInv /\ UNCHANGED liveVars => LiveInv'
  BY DEF liveVars, LiveInv, Flags, Parts, InFlight, RowFollowsWorker, ShownOrNoticed, Outdated,
         Noticed
<1>2. LiveInv /\ LiveNext => LiveInv'
  BY LiveSteps, RowStep, LineStep, AskStep, LearnStep
<1>3. QED
  BY <1>1, <1>2

\* The invariant of the page, its socket and its requests against the row.
THEOREM LiveInvariant == LiveSpec => []LiveInv
BY LiveInitInv, LiveNextInv, PTL DEF LiveSpec

\* The row, the page and the line between them keep their types.
THEOREM LiveTypesOK == LiveSpec => []LiveTypeOK
<1>1. LiveInv => LiveTypeOK
  BY DEF LiveInv, Flags, Parts, InFlight, LiveTypeOK
<1>2. QED
  BY <1>1, LiveInvariant, PTL

\* A page that has come to rest shows the row, or knows that it has failed, or the row
\* changed after it was closed and no request followed its last event.
THEOREM PageRestsOnTheRow == LiveSpec => []RestsOnTheRow
<1>1. LiveInv => RestsOnTheRow
  BY DEF LiveInv, Flags, Parts, InFlight, ShownOrNoticed, Outdated, Noticed, RestsOnTheRow, Quiet,
     NoFetch, OpenRow, ClosedRow
<1>2. QED
  BY <1>1, LiveInvariant, PTL
=============================================================================
