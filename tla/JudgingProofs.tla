---------------------------- MODULE JudgingProofs ----------------------------
(***************************************************************************)
(* What Judging promises for any number of submissions, users, problems    *)
(* and workers, under any choice of faults.                                *)
(***************************************************************************)
EXTENDS Judging, FiniteSetTheorems, TLAPS

-----------------------------------------------------------------------------
(* Types                                                                   *)

\* A submission's owner and problem name a progress row.
LEMMA PairTyped ==
  ASSUME NEW s \in Submissions
  PROVE  problemOf[s] \in Problems /\ Pair(s) \in Users \X Problems
BY JudgingAssumption DEF Pair

\* A claimed job is a submission: the only worker without one is idle.
JobsTyped == \A w \in Workers : wpc[w] # "idle" => job[w] \in Submissions

\* A step of a submit handler preserves types.
LEMMA ApiTyped ==
  ASSUME TypeOK, NEW s \in Submissions, Api(s)
  PROVE  TypeOK'
<1> USE JudgingAssumption DEF TypeOK, rowVars, bookVars, workerVars, reaperVars
<1>1. CASE CheckPending(s) \/ RefusePending(s) \/ RefuseNoTests(s) \/ ApiCrash(s)
  <2>1. request' \in [Submissions -> RequestStates]
    BY <1>1, SMTT(30) DEF CheckPending, RefusePending, RefuseNoTests, ApiCrash, RequestStates
  <2>2. UNCHANGED <<rowVars, bookVars, queue, workerVars, reaperVars, announced>>
    BY <1>1 DEF CheckPending, RefusePending, RefuseNoTests, ApiCrash
  <2>3. QED
    BY <2>1, <2>2
<1>2. CASE InsertRow(s)
  BY <1>2 DEF InsertRow, RequestStates, OpenStates
<1>3. ASSUME NEW n \in 0..3, NEW ok \in BOOLEAN, Enqueue(s, n, ok)
      PROVE  TypeOK'
  <2>1. queue' \in [Submissions -> 0..MaxMessages]
    BY <1>3 DEF Enqueue
  <2>2. request' \in [Submissions -> RequestStates]
    BY <1>3 DEF Enqueue, RequestStates
  <2>3. QED
    BY <1>3, <2>1, <2>2 DEF Enqueue
<1>4. CASE CloseUnavailable(s)
  BY <1>4 DEF CloseUnavailable, RequestStates, ClosedStates
<1>5. CASE AnnounceQueued(s)
  BY <1>5 DEF AnnounceQueued, Publish, RequestStates, Events
<1>6. QED
  BY <1>1, <1>2, <1>3, <1>4, <1>5, SMTT(30) DEF Api

\* A step of a judge worker preserves types.
LEMMA WorkerTyped ==
  ASSUME TypeOK, JobsTyped, NEW w \in Workers, Worker(w)
  PROVE  TypeOK' /\ JobsTyped'
<1> USE JudgingAssumption
    DEF TypeOK, JobsTyped, rowVars, bookVars, workerVars, reaperVars, WorkerStates
<1>1. ASSUME NEW s \in Submissions, Claim(w, s)
      PROVE  TypeOK' /\ JobsTyped'
  BY <1>1 DEF Claim, OpenStates
<1>2. ASSUME NEW s \in Submissions, SkipDelivery(w, s)
      PROVE  TypeOK' /\ JobsTyped'
  BY <1>2 DEF SkipDelivery
<1>3. CASE AnnounceRunning(w)
  BY <1>3 DEF AnnounceRunning, Publish, Events
<1>4. ASSUME NEW v \in Verdicts, Judge(w, v)
      PROVE  TypeOK' /\ JobsTyped'
  BY <1>4 DEF Judge
<1>5. CASE JudgeError(w)
  BY <1>5 DEF JudgeError
<1>6. ASSUME NEW replied \in BOOLEAN, Persist(w, replied)
      PROVE  TypeOK' /\ JobsTyped'
  <2> DEFINE s == job[w]
  <2>1. s \in Submissions /\ problemOf[s] \in Problems /\ Pair(s) \in Users \X Problems
    BY <1>6, PairTyped DEF Persist
  <2>2. /\ total' \in [Problems -> Nat]
        /\ accepted' \in [Problems -> Nat]
        /\ attempts' \in [Users \X Problems -> Nat]
        /\ solved' \in SUBSET (Users \X Problems)
    BY <1>6, <2>1 DEF Persist, CountAttempt
  <2>3. /\ status' \in [Submissions -> OpenStates \union ClosedStates \union {"ABSENT"}]
        /\ verdict' \in [Submissions -> Verdicts \union {"SYSTEM_ERROR", NoVerdict}]
        /\ result' \in [Submissions -> Verdicts \union {NoVerdict}]
    BY <1>6, <2>1 DEF Persist, ClosedStates
  <2>4. /\ wpc' \in [Workers -> WorkerStates]
        /\ report' \in [Workers -> Verdicts \union {NoVerdict}]
    BY <1>6 DEF Persist
  <2>5. UNCHANGED <<stale, request, queue, job, rpc, rids, announced>>
    BY <1>6 DEF Persist
  <2>6. \A x \in Workers : wpc'[x] # "idle" => wpc[x] # "idle"
    BY <1>6 DEF Persist
  <2>7. QED
    BY <2>2, <2>3, <2>4, <2>5, <2>6
<1>7. CASE Fail(w)
  BY <1>7 DEF Fail, ClosedStates
<1>8. CASE AnnounceClosed(w)
  BY <1>8 DEF AnnounceClosed, Publish, Release, Events
<1>9. CASE Abort(w)
  BY <1>9 DEF Abort, Release
<1>10. CASE WorkerCrash(w)
  BY <1>10 DEF WorkerCrash, Release
<1>11. QED
  BY <1>1, <1>2, <1>3, <1>4, <1>5, <1>6, <1>7, <1>8, <1>9, <1>10 DEF Worker

\* A redelivery, a loss or the passing of time preserves types.
LEMMA BrokerTyped ==
  ASSUME TypeOK, NEW s \in Submissions, Redeliver(s) \/ LoseMessage(s) \/ Age(s)
  PROVE  TypeOK'
<1> USE JudgingAssumption DEF TypeOK, rowVars, bookVars, workerVars, reaperVars
<1>1. CASE Redeliver(s)
  BY <1>1 DEF Redeliver
<1>2. CASE LoseMessage(s)
  BY <1>2 DEF LoseMessage
<1>3. CASE Age(s)
  BY <1>3 DEF Age
<1>4. QED
  BY <1>1, <1>2, <1>3

\* A step of the reaper preserves types.
LEMMA ReaperTyped ==
  ASSUME TypeOK, Reaper
  PROVE  TypeOK'
<1> USE DEF TypeOK, rowVars, bookVars, workerVars, reaperVars
<1>1. CASE ReapSelect
  BY <1>1 DEF ReapSelect, StaleOpen
<1>2. CASE ReapClose
  BY <1>2 DEF ReapClose, ClosedStates
<1>3. ASSUME NEW s \in Submissions, ReapAnnounce(s)
      PROVE  TypeOK'
  BY <1>3 DEF ReapAnnounce, Publish, Events
<1>4. CASE ReaperCrash
  BY <1>4 DEF ReaperCrash
<1>5. QED
  BY <1>1, <1>2, <1>3, <1>4 DEF Reaper

\* Only a worker's own steps touch its control state.
LEMMA JobsTypedElsewhere ==
  ASSUME JobsTyped, UNCHANGED <<wpc, job>>
  PROVE  JobsTyped'
BY DEF JobsTyped

\* Every variable of every actor keeps its type; in particular the counters stay
\* natural numbers and a busy worker holds a submission.
THEOREM TypeCorrect == Spec => [](TypeOK /\ JobsTyped)
<1>1. Init => TypeOK /\ JobsTyped
  BY JudgingAssumption DEF Init, TypeOK, JobsTyped, RequestStates, WorkerStates
<1>2. ASSUME TypeOK, JobsTyped, [Next]_vars
      PROVE  TypeOK' /\ JobsTyped'
  <2>1. ASSUME NEW s \in Submissions, Api(s)
        PROVE  TypeOK' /\ JobsTyped'
    <3>1. UNCHANGED <<wpc, job>>
      BY <2>1 DEF Api, CheckPending, RefusePending, RefuseNoTests, InsertRow, Enqueue,
                  CloseUnavailable, AnnounceQueued, ApiCrash, workerVars
    <3>2. QED
      BY <1>2, <2>1, <3>1, ApiTyped, JobsTypedElsewhere
  <2>2. ASSUME NEW w \in Workers, Worker(w)
        PROVE  TypeOK' /\ JobsTyped'
    BY <1>2, <2>2, WorkerTyped
  <2>3. ASSUME NEW s \in Submissions, Redeliver(s) \/ LoseMessage(s) \/ Age(s)
        PROVE  TypeOK' /\ JobsTyped'
    <3>1. UNCHANGED <<wpc, job>>
      BY <2>3 DEF Redeliver, LoseMessage, Age, workerVars
    <3>2. QED
      BY <1>2, <2>3, <3>1, BrokerTyped, JobsTypedElsewhere
  <2>4. CASE Reaper
    <3>1. UNCHANGED <<wpc, job>>
      BY <2>4 DEF Reaper, ReapSelect, ReapClose, ReapAnnounce, ReaperCrash, workerVars
    <3>2. QED
      BY <1>2, <2>4, <3>1, ReaperTyped, JobsTypedElsewhere
  <2>5. CASE UNCHANGED vars
    BY <1>2, <2>5 DEF vars, rowVars, bookVars, workerVars, reaperVars, TypeOK, JobsTyped
  <2>6. QED
    BY <1>2, <2>1, <2>2, <2>3, <2>4, <2>5 DEF Next
<1>3. QED
  BY <1>1, <1>2, PTL DEF Spec
-----------------------------------------------------------------------------
(* The inductive invariant                                                 *)

\* A row exists exactly when the handler has inserted it, and carries nothing
\* before that.
RowsRecorded ==
  \A s \in Submissions :
    /\ request[s] \in {"new", "checked"} => status[s] = "ABSENT"
    /\ request[s] \in {"inserted", "unavailable", "enqueued", "answered"}
         => status[s] # "ABSENT"
    /\ status[s] = "ABSENT" => /\ verdict[s] = NoVerdict /\ result[s] = NoVerdict
                               /\ s \notin stale /\ announced[s] = {}

\* What a worker or the reaper holds, it holds alone (a worker) and past the state
\* from which it could be claimed again.
Custody ==
  /\ \A w \in Busy : status[job[w]] \notin {"ABSENT", "QUEUED"}
  /\ SingleJudge
  /\ \A s \in rids : status[s] # "ABSENT"

\* A worker that is still to store a report is the first to do so.
ReportsFresh ==
  /\ \A w \in Workers :
       /\ wpc[w] = "persisting" => report[w] \in Verdicts
       /\ wpc[w] \in {"claimed", "judging", "persisting"} => result[job[w]] = NoVerdict
  /\ RowMatchesReport

\* Whoever is about to announce a closed row has already closed it.
EventsBacked ==
  /\ \A w \in Workers :
       /\ wpc[w] = "completed" => result[job[w]] # NoVerdict
       /\ wpc[w] = "failed" => status[job[w]] \in ClosedStates
  /\ rpc = "announcing" => \A s \in rids : status[s] \in ClosedStates
  /\ NoEventBeforeCommit

RepliesBelieved == Faults \cap {"broker_reply_lost", "commit_reply_lost"} = {}

\* While replies can be believed, nobody is about to close a counted row: a worker
\* on its error path has stored nothing, and a handler that was told that the
\* job was not enqueued is alone with its row.
FailuresUncounted ==
  /\ FailedNotCounted
  /\ RepliesBelieved =>
       /\ \A w \in Workers : wpc[w] = "failing" => result[job[w]] = NoVerdict
       /\ \A s \in Submissions :
            request[s] \in {"new", "checked", "inserted", "unavailable"} =>
              /\ queue[s] = 0 /\ result[s] = NoVerdict
              /\ \A w \in Busy : job[w] # s

IInv == /\ TypeOK /\ JobsTyped
        /\ RowsRecorded /\ Custody /\ ReportsFresh /\ EventsBacked
        /\ FailuresUncounted /\ AcknowledgedHasMessage

\* API and clock move a row on only where it stands, and touch no worker.
LEMMA RowsRecordedStep ==
  ASSUME TypeOK, JobsTyped, RowsRecorded, Custody, [Next]_vars
  PROVE  RowsRecorded'
<1> USE DEF TypeOK, RowsRecorded, rowVars, bookVars, workerVars, reaperVars
<1>1. ASSUME NEW s \in Submissions, Api(s)
      PROVE  RowsRecorded'
  <2>1. CASE CheckPending(s) \/ RefusePending(s) \/ RefuseNoTests(s) \/ ApiCrash(s)
    BY <2>1 DEF CheckPending, RefusePending, RefuseNoTests, ApiCrash
  <2>2. CASE InsertRow(s)
    BY <2>2 DEF InsertRow
  <2>3. ASSUME NEW n \in 0..3, NEW ok \in BOOLEAN, Enqueue(s, n, ok)
        PROVE  RowsRecorded'
    BY <2>3 DEF Enqueue
  <2>4. CASE CloseUnavailable(s)
    BY <2>4 DEF CloseUnavailable
  <2>5. CASE AnnounceQueued(s)
    BY <2>5 DEF AnnounceQueued, Publish
  <2>6. QED
    BY <1>1, <2>1, <2>2, <2>3, <2>4, <2>5 DEF Api
<1>2. ASSUME NEW w \in Workers, Worker(w)
      PROVE  RowsRecorded'
  <2>1. ASSUME NEW s \in Submissions, Claim(w, s) \/ SkipDelivery(w, s)
        PROVE  RowsRecorded'
    BY <2>1 DEF Claim, SkipDelivery
  <2>2. CASE AnnounceRunning(w) \/ AnnounceClosed(w)
    BY <2>2 DEF AnnounceRunning, AnnounceClosed, Publish, Release, Custody, Busy,
                JobsTyped
  <2>3. CASE \/ \E v \in Verdicts : Judge(w, v)
             \/ JudgeError(w) \/ Abort(w) \/ WorkerCrash(w)
    BY <2>3 DEF Judge, JudgeError, Abort, WorkerCrash, Release
  <2>4. ASSUME NEW replied \in BOOLEAN, Persist(w, replied)
        PROVE  RowsRecorded'
    BY <2>4 DEF Persist, Custody, Busy, JobsTyped
  <2>5. CASE Fail(w)
    BY <2>5 DEF Fail, Custody, Busy, JobsTyped
  <2>6. QED
    BY <1>2, <2>1, <2>2, <2>3, <2>4, <2>5 DEF Worker
<1>3. ASSUME NEW s \in Submissions, Redeliver(s) \/ LoseMessage(s) \/ Age(s)
      PROVE  RowsRecorded'
  BY <1>3 DEF Redeliver, LoseMessage, Age, OpenStates
<1>4. CASE Reaper
  <2>1. CASE ReapSelect \/ ReaperCrash
    BY <2>1 DEF ReapSelect, ReaperCrash
  <2>2. CASE ReapClose
    BY <2>2 DEF ReapClose, Reapable, OpenStates
  <2>3. ASSUME NEW s \in Submissions, ReapAnnounce(s)
        PROVE  RowsRecorded'
    BY <2>3 DEF ReapAnnounce, Publish, Custody
  <2>4. QED
    BY <1>4, <2>1, <2>2, <2>3 DEF Reaper
<1>5. CASE UNCHANGED vars
  BY <1>5 DEF vars
<1>6. QED
  BY <1>1, <1>2, <1>3, <1>4, <1>5 DEF Next

\* The conditional UPDATE of _claim lets one worker in, and a row never becomes
\* QUEUED again.
LEMMA CustodyStep ==
  ASSUME TypeOK, JobsTyped, RowsRecorded, Custody, [Next]_vars
  PROVE  Custody'
<1> USE DEF TypeOK, Custody, SingleJudge, Busy, rowVars, bookVars, workerVars, reaperVars
<1>1. ASSUME NEW s \in Submissions, Api(s)
      PROVE  Custody'
  <2>1. UNCHANGED <<wpc, job, rids>>
    BY <1>1 DEF Api, CheckPending, RefusePending, RefuseNoTests, InsertRow, Enqueue,
                CloseUnavailable, AnnounceQueued, ApiCrash
  <2>2. \A t \in Submissions :
          /\ status[t] # "ABSENT" => status'[t] # "ABSENT"
          /\ status[t] \notin {"ABSENT", "QUEUED"} => status'[t] # "QUEUED"
    BY <1>1 DEF Api, CheckPending, RefusePending, RefuseNoTests, InsertRow, Enqueue,
                CloseUnavailable, AnnounceQueued, ApiCrash, RowsRecorded
  <2>3. QED
    BY <2>1, <2>2 DEF JobsTyped
<1>2. ASSUME NEW w \in Workers, Worker(w)
      PROVE  Custody'
  <2> USE DEF JobsTyped
  <2>1. ASSUME NEW s \in Submissions, Claim(w, s)
        PROVE  Custody'
    BY <2>1 DEF Claim
  <2>2. ASSUME NEW s \in Submissions, SkipDelivery(w, s)
        PROVE  Custody'
    BY <2>2 DEF SkipDelivery
  <2>3. CASE \/ AnnounceRunning(w) \/ JudgeError(w) \/ \E v \in Verdicts : Judge(w, v)
    BY <2>3 DEF AnnounceRunning, Judge, JudgeError
  <2>4. CASE AnnounceClosed(w) \/ Abort(w) \/ WorkerCrash(w)
    BY <2>4 DEF AnnounceClosed, Abort, WorkerCrash, Release
  <2>5. ASSUME NEW replied \in BOOLEAN, Persist(w, replied)
        PROVE  Custody'
    BY <2>5 DEF Persist
  <2>6. CASE Fail(w)
    BY <2>6 DEF Fail
  <2>7. QED
    BY <1>2, <2>1, <2>2, <2>3, <2>4, <2>5, <2>6 DEF Worker
<1>3. ASSUME NEW s \in Submissions, Redeliver(s) \/ LoseMessage(s) \/ Age(s)
      PROVE  Custody'
  BY <1>3 DEF Redeliver, LoseMessage, Age
<1>4. CASE Reaper
  <2> USE DEF JobsTyped
  <2>1. CASE ReapSelect
    BY <2>1 DEF ReapSelect, StaleOpen, OpenStates
  <2>2. CASE ReapClose
    BY <2>2 DEF ReapClose, Reapable, OpenStates
  <2>3. ASSUME NEW s \in Submissions, ReapAnnounce(s)
        PROVE  Custody'
    BY <2>3 DEF ReapAnnounce
  <2>4. CASE ReaperCrash
    BY <2>4 DEF ReaperCrash
  <2>5. QED
    BY <1>4, <2>1, <2>2, <2>3, <2>4 DEF Reaper
<1>5. CASE UNCHANGED vars
  BY <1>5 DEF vars
<1>6. QED
  BY <1>1, <1>2, <1>3, <1>4, <1>5 DEF Next

\* A report is stored by the worker that holds the job, and nobody else stores one.
LEMMA ReportsFreshStep ==
  ASSUME TypeOK, JobsTyped, RowsRecorded, Custody, ReportsFresh, [Next]_vars
  PROVE  ReportsFresh'
<1> USE DEF TypeOK, ReportsFresh, RowMatchesReport, OpenStates, Verdicts, NoVerdict,
            rowVars, bookVars, workerVars, reaperVars
<1>1. ASSUME NEW s \in Submissions, Api(s)
      PROVE  ReportsFresh'
  <2>1. UNCHANGED <<wpc, job, report, result>>
    BY <1>1 DEF Api, CheckPending, RefusePending, RefuseNoTests, InsertRow, Enqueue,
                CloseUnavailable, AnnounceQueued, ApiCrash
  <2>2. RowMatchesReport'
    <3>1. CASE InsertRow(s)
      BY <3>1 DEF InsertRow, RowsRecorded
    <3>2. CASE CloseUnavailable(s)
      BY <3>2 DEF CloseUnavailable
    <3>3. CASE UNCHANGED rowVars
      BY <3>3
    <3>4. QED
      BY <1>1, <3>1, <3>2, <3>3
      DEF Api, CheckPending, RefusePending, RefuseNoTests, Enqueue, AnnounceQueued,
          ApiCrash
  <2>3. QED
    BY <2>1, <2>2
<1>2. ASSUME NEW w \in Workers, Worker(w)
      PROVE  ReportsFresh'
  <2> USE DEF JobsTyped
  <2>1. ASSUME NEW s \in Submissions, Claim(w, s)
        PROVE  ReportsFresh'
    BY <2>1 DEF Claim
  <2>2. ASSUME NEW s \in Submissions, SkipDelivery(w, s)
        PROVE  ReportsFresh'
    BY <2>2 DEF SkipDelivery
  <2>3. CASE AnnounceRunning(w) \/ JudgeError(w)
    BY <2>3 DEF AnnounceRunning, JudgeError
  <2>4. ASSUME NEW v \in Verdicts, Judge(w, v)
        PROVE  ReportsFresh'
    BY <2>4 DEF Judge
  <2>5. CASE AnnounceClosed(w) \/ Abort(w) \/ WorkerCrash(w)
    BY <2>5 DEF AnnounceClosed, Abort, WorkerCrash, Release
  <2>6. ASSUME NEW replied \in BOOLEAN, Persist(w, replied)
        PROVE  ReportsFresh'
    <3>1. \A x \in Busy : x # w => job[x] # job[w]
      BY <2>6 DEF Persist, Custody, SingleJudge, Busy
    <3>2. RowMatchesReport'
      BY <2>6 DEF Persist
    <3>3. ASSUME NEW x \in Workers
          PROVE  /\ wpc'[x] = "persisting" => report'[x] \in Verdicts
                 /\ wpc'[x] \in {"claimed", "judging", "persisting"}
                      => result'[job'[x]] = NoVerdict
      BY <2>6, <3>1, <3>3 DEF Persist, Busy
    <3>4. QED
      BY <3>2, <3>3
  <2>7. CASE Fail(w)
    BY <2>7 DEF Fail
  <2>8. QED
    BY <1>2, <2>1, <2>2, <2>3, <2>4, <2>5, <2>6, <2>7 DEF Worker
<1>3. ASSUME NEW s \in Submissions, Redeliver(s) \/ LoseMessage(s) \/ Age(s)
      PROVE  ReportsFresh'
  BY <1>3 DEF Redeliver, LoseMessage, Age
<1>4. CASE Reaper
  <2>1. CASE ReapSelect \/ ReaperCrash \/ \E s \in Submissions : ReapAnnounce(s)
    BY <2>1 DEF ReapSelect, ReaperCrash, ReapAnnounce
  <2>2. CASE ReapClose
    BY <2>2 DEF ReapClose, Reapable
  <2>3. QED
    BY <1>4, <2>1, <2>2 DEF Reaper
<1>5. CASE UNCHANGED vars
  BY <1>5 DEF vars
<1>6. QED
  BY <1>1, <1>2, <1>3, <1>4, <1>5 DEF Next

\* Nothing but event e about s was published, if anything.
OnlyAnnounces(s, e) ==
  \A t \in Submissions :
    announced'[t] = announced[t] \/ (t = s /\ announced'[t] = announced[t] \union {e})

\* publish_event, delivered or not, changes one row of the channel.
LEMMA PublishAdds ==
  ASSUME TypeOK, NEW s \in Submissions, NEW e, Publish(s, e)
  PROVE  OnlyAnnounces(s, e)
<1>1. announced \in [Submissions -> SUBSET Events]
  BY DEF TypeOK
<1>2. CASE announced' = [announced EXCEPT ![s] = @ \union {e}]
  BY <1>1, <1>2 DEF OnlyAnnounces
<1>3. CASE UNCHANGED announced
  BY <1>3 DEF OnlyAnnounces
<1>4. QED
  BY <1>2, <1>3 DEF Publish

\* Events only follow the commits that they announce, and those commits stay.
LEMMA EventsBackedStep ==
  ASSUME TypeOK, JobsTyped, RowsRecorded, Custody, ReportsFresh, EventsBacked,
         [Next]_vars
  PROVE  EventsBacked'
<1> USE DEF TypeOK, EventsBacked, NoEventBeforeCommit, OpenStates, ClosedStates, Verdicts,
            NoVerdict, rowVars, bookVars, workerVars, reaperVars
<1>1. ASSUME NEW s \in Submissions, Api(s)
      PROVE  EventsBacked'
  <2>1. CASE CheckPending(s) \/ RefusePending(s) \/ RefuseNoTests(s) \/ ApiCrash(s)
    BY <2>1 DEF CheckPending, RefusePending, RefuseNoTests, ApiCrash
  <2>2. CASE InsertRow(s)
    BY <2>2 DEF InsertRow, RowsRecorded, Custody, Busy, JobsTyped
  <2>3. ASSUME NEW n \in 0..3, NEW ok \in BOOLEAN, Enqueue(s, n, ok)
        PROVE  EventsBacked'
    BY <2>3 DEF Enqueue
  <2>4. CASE CloseUnavailable(s)
    BY <2>4 DEF CloseUnavailable, JobsTyped
  <2>5. CASE AnnounceQueued(s)
    <3>1. /\ OnlyAnnounces(s, "QUEUED")
          /\ status[s] # "ABSENT"
      <4>1. request[s] = "enqueued" /\ Publish(s, "QUEUED")
        BY <2>5 DEF AnnounceQueued
      <4>2. QED
        BY <4>1, PublishAdds DEF RowsRecorded
    <3>2. UNCHANGED <<status, result, wpc, job, rpc, rids>>
      BY <2>5 DEF AnnounceQueued
    <3>3. NoEventBeforeCommit'
      BY <3>1, <3>2 DEF OnlyAnnounces
    <3>4. QED
      BY <3>2, <3>3
  <2>6. QED
    BY <1>1, <2>1, <2>2, <2>3, <2>4, <2>5 DEF Api
<1>2. ASSUME NEW w \in Workers, Worker(w)
      PROVE  EventsBacked'
  <2> USE DEF JobsTyped
  <2>1. ASSUME NEW s \in Submissions, Claim(w, s)
        PROVE  EventsBacked'
    BY <2>1 DEF Claim, Custody, Busy
  <2>2. ASSUME NEW s \in Submissions, SkipDelivery(w, s)
        PROVE  EventsBacked'
    BY <2>2 DEF SkipDelivery
  <2>3. CASE AnnounceRunning(w)
    BY <2>3 DEF AnnounceRunning, Publish, Custody, Busy
  <2>4. CASE JudgeError(w) \/ \E v \in Verdicts : Judge(w, v)
    BY <2>4 DEF JudgeError, Judge
  <2>5. ASSUME NEW replied \in BOOLEAN, Persist(w, replied)
        PROVE  EventsBacked'
    BY <2>5 DEF Persist, ReportsFresh
  <2>6. CASE Fail(w)
    BY <2>6 DEF Fail
  <2>7. CASE AnnounceClosed(w)
    <3>1. PICK e \in {"COMPLETED", "FAILED"} :
            /\ OnlyAnnounces(job[w], e)
            /\ e = "COMPLETED" => result[job[w]] # NoVerdict
            /\ e = "FAILED" => status[job[w]] \in ClosedStates
            /\ job[w] \in Submissions /\ status[job[w]] # "ABSENT"
      <4>1. CASE wpc[w] = "completed" /\ Publish(job[w], "COMPLETED")
        BY <4>1, PublishAdds DEF Custody, Busy
      <4>2. CASE wpc[w] = "failed" /\ Publish(job[w], "FAILED")
        BY <4>2, PublishAdds DEF Custody, Busy
      <4>3. QED
        BY <2>7, <4>1, <4>2 DEF AnnounceClosed
    <3>2. UNCHANGED <<status, result, rpc, rids>>
      BY <2>7 DEF AnnounceClosed
    <3>3. NoEventBeforeCommit'
      BY <3>1, <3>2 DEF OnlyAnnounces
    <3>4. \A x \in Workers : wpc'[x] # "idle" => wpc'[x] = wpc[x] /\ job'[x] = job[x]
      BY <2>7 DEF AnnounceClosed, Release
    <3>5. QED
      BY <3>2, <3>3, <3>4
  <2>8. CASE Abort(w) \/ WorkerCrash(w)
    BY <2>8 DEF Abort, WorkerCrash, Release
  <2>9. QED
    BY <1>2, <2>1, <2>2, <2>3, <2>4, <2>5, <2>6, <2>7, <2>8 DEF Worker
<1>3. ASSUME NEW s \in Submissions, Redeliver(s) \/ LoseMessage(s) \/ Age(s)
      PROVE  EventsBacked'
  BY <1>3 DEF Redeliver, LoseMessage, Age
<1>4. CASE Reaper
  <2>1. CASE ReapSelect \/ ReaperCrash
    BY <2>1 DEF ReapSelect, ReaperCrash
  <2>2. CASE ReapClose
    BY <2>2 DEF ReapClose, Reapable, Custody, JobsTyped
  <2>3. ASSUME NEW s \in Submissions, ReapAnnounce(s)
        PROVE  EventsBacked'
    BY <2>3 DEF ReapAnnounce, Publish
  <2>4. QED
    BY <1>4, <2>1, <2>2, <2>3 DEF Reaper
<1>5. CASE UNCHANGED vars
  BY <1>5 DEF vars
<1>6. QED
  BY <1>1, <1>2, <1>3, <1>4, <1>5 DEF Next

\* A failure closes a row that is not counted, as long as replies can be believed.
LEMMA FailuresUncountedStep ==
  ASSUME TypeOK, JobsTyped, RowsRecorded, Custody, ReportsFresh, FailuresUncounted,
         [Next]_vars
  PROVE  FailuresUncounted'
<1> SUFFICES ASSUME RepliesBelieved
             PROVE  FailuresUncounted'
  BY DEF FailuresUncounted, FailedNotCounted, NoFailedIsCounted, RepliesBelieved
<1> USE DEF TypeOK, JobsTyped, FailuresUncounted, FailedNotCounted, NoFailedIsCounted,
            RepliesBelieved, Busy, rowVars, bookVars, workerVars, reaperVars
<1>1. ASSUME NEW s \in Submissions, Api(s)
      PROVE  FailuresUncounted'
  <2>1. CASE CheckPending(s) \/ RefusePending(s) \/ RefuseNoTests(s) \/ ApiCrash(s)
    BY <2>1 DEF CheckPending, RefusePending, RefuseNoTests, ApiCrash
  <2>2. CASE InsertRow(s)
    BY <2>2 DEF InsertRow, RowsRecorded, Custody
  <2>3. ASSUME NEW n \in 0..3, NEW ok \in BOOLEAN, Enqueue(s, n, ok)
        PROVE  FailuresUncounted'
    BY <2>3 DEF Enqueue
  <2>4. CASE CloseUnavailable(s)
    BY <2>4 DEF CloseUnavailable
  <2>5. CASE AnnounceQueued(s)
    BY <2>5 DEF AnnounceQueued
  <2>6. QED
    BY <1>1, <2>1, <2>2, <2>3, <2>4, <2>5 DEF Api
<1>2. ASSUME NEW w \in Workers, Worker(w)
      PROVE  FailuresUncounted'
  <2>1. ASSUME NEW s \in Submissions, Claim(w, s)
        PROVE  FailuresUncounted'
    BY <2>1 DEF Claim
  <2>2. ASSUME NEW s \in Submissions, SkipDelivery(w, s)
        PROVE  FailuresUncounted'
    BY <2>2 DEF SkipDelivery
  <2>3. CASE \/ AnnounceRunning(w) \/ JudgeError(w) \/ \E v \in Verdicts : Judge(w, v)
    BY <2>3 DEF AnnounceRunning, Judge, JudgeError, ReportsFresh
  <2>4. CASE AnnounceClosed(w) \/ Abort(w) \/ WorkerCrash(w)
    BY <2>4 DEF AnnounceClosed, Abort, WorkerCrash, Release
  <2>5. ASSUME NEW replied \in BOOLEAN, Persist(w, replied)
        PROVE  FailuresUncounted'
    BY <2>5 DEF Persist, Custody, SingleJudge
  <2>6. CASE Fail(w)
    BY <2>6 DEF Fail
  <2>7. QED
    BY <1>2, <2>1, <2>2, <2>3, <2>4, <2>5, <2>6 DEF Worker
<1>3. ASSUME NEW s \in Submissions, Redeliver(s) \/ LoseMessage(s) \/ Age(s)
      PROVE  FailuresUncounted'
  <2>1. CASE Redeliver(s)
    BY <2>1 DEF Redeliver
  <2>2. CASE LoseMessage(s) \/ Age(s)
    BY <2>2 DEF LoseMessage, Age
  <2>3. QED
    BY <1>3, <2>1, <2>2
<1>4. CASE Reaper
  <2>1. CASE ReapSelect \/ ReaperCrash \/ \E s \in Submissions : ReapAnnounce(s)
    BY <2>1 DEF ReapSelect, ReaperCrash, ReapAnnounce
  <2>2. CASE ReapClose
    BY <2>2 DEF ReapClose, Reapable, ReportsFresh, RowMatchesReport
  <2>3. QED
    BY <1>4, <2>1, <2>2 DEF Reaper
<1>5. CASE UNCHANGED vars
  BY <1>5 DEF vars
<1>6. QED
  BY <1>1, <1>2, <1>3, <1>4, <1>5 DEF Next

\* Only a claim takes the last message of a QUEUED submission.
LEMMA AcknowledgedHasMessageStep ==
  ASSUME TypeOK, JobsTyped, RowsRecorded, AcknowledgedHasMessage, [Next]_vars
  PROVE  AcknowledgedHasMessage'
<1> SUFFICES ASSUME "message_lost" \notin Faults
             PROVE  AcknowledgedHasMessage'
  BY DEF AcknowledgedHasMessage
<1> USE DEF TypeOK, JobsTyped, AcknowledgedHasMessage, rowVars, bookVars, workerVars,
            reaperVars
<1>1. ASSUME NEW s \in Submissions, Api(s)
      PROVE  AcknowledgedHasMessage'
  <2>1. CASE CheckPending(s) \/ RefusePending(s) \/ RefuseNoTests(s) \/ ApiCrash(s)
    BY <2>1 DEF CheckPending, RefusePending, RefuseNoTests, ApiCrash
  <2>2. CASE InsertRow(s)
    BY <2>2 DEF InsertRow
  <2>3. ASSUME NEW n \in 0..3, NEW ok \in BOOLEAN, Enqueue(s, n, ok)
        PROVE  AcknowledgedHasMessage'
    BY <2>3 DEF Enqueue
  <2>4. CASE CloseUnavailable(s)
    BY <2>4 DEF CloseUnavailable
  <2>5. CASE AnnounceQueued(s)
    BY <2>5 DEF AnnounceQueued
  <2>6. QED
    BY <1>1, <2>1, <2>2, <2>3, <2>4, <2>5 DEF Api
<1>2. ASSUME NEW w \in Workers, Worker(w)
      PROVE  AcknowledgedHasMessage'
  <2>1. ASSUME NEW s \in Submissions, Claim(w, s)
        PROVE  AcknowledgedHasMessage'
    BY <2>1 DEF Claim
  <2>2. ASSUME NEW s \in Submissions, SkipDelivery(w, s)
        PROVE  AcknowledgedHasMessage'
    BY <2>2 DEF SkipDelivery
  <2>3. CASE \/ AnnounceRunning(w) \/ JudgeError(w) \/ \E v \in Verdicts : Judge(w, v)
             \/ AnnounceClosed(w) \/ Abort(w)
    BY <2>3 DEF AnnounceRunning, Judge, JudgeError, AnnounceClosed, Abort
  <2>4. CASE WorkerCrash(w)
    BY <2>4 DEF WorkerCrash
  <2>5. CASE Fail(w) \/ \E replied \in BOOLEAN : Persist(w, replied)
    BY <2>5 DEF Fail, Persist
  <2>6. QED
    BY <1>2, <2>1, <2>2, <2>3, <2>4, <2>5 DEF Worker
<1>3. ASSUME NEW s \in Submissions, Redeliver(s) \/ LoseMessage(s) \/ Age(s)
      PROVE  AcknowledgedHasMessage'
  BY <1>3 DEF Redeliver, LoseMessage, Age
<1>4. CASE Reaper
  BY <1>4 DEF Reaper, ReapSelect, ReapClose, ReapAnnounce, ReaperCrash
<1>5. CASE UNCHANGED vars
  BY <1>5 DEF vars
<1>6. QED
  BY <1>1, <1>2, <1>3, <1>4, <1>5 DEF Next

-----------------------------------------------------------------------------
(* Theorems                                                                *)

\* The invariant holds: no actor ever finds the stores in a state that its code
\* does not expect.
THEOREM Invariant == Spec => []IInv
<1>1. Init => IInv
  <2> SUFFICES ASSUME Init PROVE IInv
    OBVIOUS
  <2>1. TypeOK /\ JobsTyped
    BY JudgingAssumption DEF Init, TypeOK, JobsTyped, RequestStates, WorkerStates
  <2>2. RowsRecorded /\ AcknowledgedHasMessage
    BY DEF Init, RowsRecorded, AcknowledgedHasMessage
  <2>3. Custody
    BY DEF Init, Custody, SingleJudge, Busy
  <2>4. ReportsFresh /\ EventsBacked
    BY DEF Init, ReportsFresh, RowMatchesReport, EventsBacked, NoEventBeforeCommit,
           OpenStates
  <2>5. FailuresUncounted
    BY DEF Init, FailuresUncounted, FailedNotCounted, NoFailedIsCounted,
           RepliesBelieved, Busy
  <2>6. QED
    BY <2>1, <2>2, <2>3, <2>4, <2>5 DEF IInv
<1>2. IInv /\ [Next]_vars /\ TypeOK' /\ JobsTyped' => IInv'
  BY RowsRecordedStep, CustodyStep, ReportsFreshStep, EventsBackedStep,
     FailuresUncountedStep, AcknowledgedHasMessageStep DEF IInv
<1>3. QED
  BY <1>1, <1>2, TypeCorrect, PTL DEF Spec

\* No submission is ever in the hands of two workers (_claim).
THEOREM SingleJudgeHolds == Spec => []SingleJudge
<1>1. IInv => SingleJudge
  BY DEF IInv, Custody
<1>2. QED
  BY <1>1, Invariant, PTL

\* Whoever closes a row, what it shows agrees with the stored report (_persist,
\* _fail, fail_stale_submissions, create_and_enqueue).
THEOREM RowMatchesReportHolds == Spec => []RowMatchesReport
<1>1. IInv => RowMatchesReport
  BY DEF IInv, ReportsFresh
<1>2. QED
  BY <1>1, Invariant, PTL

\* While replies can be believed, a FAILED row is not counted.
THEOREM FailedNotCountedHolds == Spec => []FailedNotCounted
<1>1. IInv => FailedNotCounted
  BY DEF IInv, FailuresUncounted
<1>2. QED
  BY <1>1, Invariant, PTL

\* Unless the broker loses messages, an acknowledged submission that nobody has
\* claimed has one.
THEOREM AcknowledgedHasMessageHolds == Spec => []AcknowledgedHasMessage
<1>1. IInv => AcknowledgedHasMessage
  BY DEF IInv
<1>2. QED
  BY <1>1, Invariant, PTL

\* No event runs ahead of the commit that it tells of.
THEOREM NoEventBeforeCommitHolds == Spec => []NoEventBeforeCommit
<1>1. IInv => NoEventBeforeCommit
  BY DEF IInv, EventsBacked
<1>2. QED
  BY <1>1, Invariant, PTL
-----------------------------------------------------------------------------
(* The in-flight limit                                                     *)

\* A user's open submissions together with the requests that have passed the check:
\* the sum that stays bounded, where the count of rows alone is not inductive.
InFlightSum ==
  \A u \in Users :
    Cardinality(InFlight(u)) + Cardinality(Admitted(u)) < MaxInFlight + MaxConcurrent

\* What is counted is finite.
LEMMA InFlightFinite ==
  \A u \in Users :
    /\ IsFiniteSet(InFlight(u)) /\ Cardinality(InFlight(u)) \in Nat
    /\ IsFiniteSet(Admitted(u)) /\ Cardinality(Admitted(u)) \in Nat
<1>1. \A T \in SUBSET Submissions : IsFiniteSet(T) /\ Cardinality(T) \in Nat
  BY FS_Subset, FS_CardinalityType, JudgingAssumption
<1>2. QED
  BY <1>1 DEF InFlight, Admitted

\* One more element adds one at most.
LEMMA CountOneMore ==
  ASSUME NEW S, NEW x, IsFiniteSet(S)
  PROVE  /\ Cardinality(S \union {x}) \in Nat
         /\ Cardinality(S) \in Nat
         /\ Cardinality(S \union {x}) <= Cardinality(S) + 1
<1>1. IsFiniteSet(S \union {x})
  BY FS_AddElement
<1>2. Cardinality(S \union {x}) \in Nat /\ Cardinality(S) \in Nat
  BY <1>1, FS_CardinalityType
<1>3. QED
  BY <1>2, FS_AddElement

\* Steps that open no row and admit no request keep the bound.
LEMMA ShrinkingKeepsSum ==
  ASSUME InFlightSum,
         \A u \in Users : InFlight(u)' \subseteq InFlight(u),
         \A u \in Users : Admitted(u)' \subseteq Admitted(u)
  PROVE  InFlightSum'
<1>1. ASSUME NEW u \in Users
      PROVE  /\ Cardinality(InFlight(u)') \in Nat
             /\ Cardinality(InFlight(u)') <= Cardinality(InFlight(u))
             /\ Cardinality(Admitted(u)') \in Nat
             /\ Cardinality(Admitted(u)') <= Cardinality(Admitted(u))
  <2>1. InFlight(u)' \in SUBSET InFlight(u) /\ Admitted(u)' \in SUBSET Admitted(u)
    OBVIOUS
  <2>2. QED
    BY <2>1, InFlightFinite, FS_Subset, FS_CardinalityType
<1>2. QED
  BY <1>1, InFlightFinite, JudgingAssumption DEF InFlightSum

\* No row becomes open or younger, and no request passes the check.
OpensNothing ==
  /\ \A s \in Submissions : status'[s] \in OpenStates => status[s] \in OpenStates
  /\ stale \subseteq stale'
  /\ \A s \in Submissions : request'[s] = "checked" => request[s] = "checked"

\* Only CheckPending and InsertRow can move a user towards the limit.
LEMMA OtherStepsShrink ==
  ASSUME TypeOK, JobsTyped, Custody, [Next]_vars,
         \A s \in Submissions : ~CheckPending(s) /\ ~InsertRow(s)
  PROVE  OpensNothing
<1> USE DEF TypeOK, JobsTyped, OpensNothing, OpenStates, rowVars, bookVars, workerVars,
            reaperVars
<1>1. ASSUME NEW s \in Submissions, Api(s)
      PROVE  OpensNothing
  BY <1>1 DEF Api, RefusePending, RefuseNoTests, Enqueue, CloseUnavailable,
              AnnounceQueued, ApiCrash
<1>2. ASSUME NEW w \in Workers, Worker(w)
      PROVE  OpensNothing
  <2>1. ASSUME NEW s \in Submissions, Claim(w, s)
        PROVE  OpensNothing
    BY <2>1 DEF Claim
  <2>2. CASE Fail(w) \/ \E replied \in BOOLEAN : Persist(w, replied)
    BY <2>2 DEF Fail, Persist
  <2>3. CASE UNCHANGED <<rowVars, request>>
    BY <2>3
  <2>4. QED
    BY <1>2, <2>1, <2>2, <2>3
    DEF Worker, SkipDelivery, AnnounceRunning, Judge, JudgeError, AnnounceClosed, Abort,
        WorkerCrash
<1>3. ASSUME NEW s \in Submissions, Redeliver(s) \/ LoseMessage(s) \/ Age(s)
      PROVE  OpensNothing
  BY <1>3 DEF Redeliver, LoseMessage, Age
<1>4. CASE Reaper
  BY <1>4 DEF Reaper, ReapSelect, ReapClose, ReapAnnounce, ReaperCrash
<1>5. CASE UNCHANGED vars
  BY <1>5 DEF vars
<1>6. QED
  BY <1>1, <1>2, <1>3, <1>4, <1>5 DEF Next

\* Admission keeps the sum, by the check or by handing one unit over.
LEMMA InFlightSumStep ==
  ASSUME TypeOK, JobsTyped, RowsRecorded, Custody, InFlightSum, [Next]_vars
  PROVE  InFlightSum'
<1> USE DEF TypeOK, JobsTyped, rowVars, bookVars, workerVars, reaperVars
<1>1. ASSUME NEW s \in Submissions, CheckPending(s)
      PROVE  InFlightSum'
  <2>1. \A u \in Users : InFlight(u)' = InFlight(u)
    BY <1>1 DEF CheckPending, InFlight
  <2>2. /\ Cardinality(InFlight(owner[s])) < MaxInFlight
        /\ Cardinality(Admitted(owner[s])) < MaxConcurrent
    BY <1>1 DEF CheckPending
  <2>3. ASSUME NEW u \in Users, u = owner[s]
        PROVE  /\ Cardinality(Admitted(u)') <= MaxConcurrent
               /\ Cardinality(Admitted(u)') \in Nat
    <3>1. Admitted(u)' = Admitted(u) \union {s}
      BY <1>1, <2>3 DEF CheckPending, Admitted, RequestStates
    <3>2. Cardinality(Admitted(u)) < MaxConcurrent
      BY <2>2, <2>3
    <3>3. /\ Cardinality(Admitted(u)') <= Cardinality(Admitted(u)) + 1
          /\ Cardinality(Admitted(u)') \in Nat
          /\ Cardinality(Admitted(u)) \in Nat
      BY <3>1, InFlightFinite, CountOneMore
    <3>4. QED
      BY <3>2, <3>3, JudgingAssumption
  <2>4. ASSUME NEW u \in Users, u # owner[s]
        PROVE  Admitted(u)' = Admitted(u)
    BY <1>1, <2>4 DEF CheckPending, Admitted, RequestStates
  <2>5. QED
    BY <2>1, <2>2, <2>3, <2>4, InFlightFinite, JudgingAssumption DEF InFlightSum
<1>2. ASSUME NEW s \in Submissions, InsertRow(s)
      PROVE  InFlightSum'
  <2>1. ASSUME NEW u \in Users, u = owner[s]
        PROVE  /\ Cardinality(InFlight(u)') + Cardinality(Admitted(u)')
                    <= Cardinality(InFlight(u)) + Cardinality(Admitted(u))
               /\ Cardinality(InFlight(u)') + Cardinality(Admitted(u)') \in Nat
    <3>1. Admitted(u)' = Admitted(u) \ {s} /\ s \in Admitted(u)
      BY <1>2, <2>1 DEF InsertRow, Admitted
    <3>2. InFlight(u)' = InFlight(u) \union {s}
      BY <1>2, <2>1 DEF InsertRow, InFlight, OpenStates, RowsRecorded
    <3>3. Cardinality(Admitted(u)') = Cardinality(Admitted(u)) - 1
      BY <3>1, InFlightFinite, FS_RemoveElement, ZenonT(60)
    <3>4. /\ Cardinality(InFlight(u)') <= Cardinality(InFlight(u)) + 1
          /\ Cardinality(InFlight(u)') \in Nat
      BY <3>2, InFlightFinite, CountOneMore
    <3>5. Cardinality(Admitted(u)') \in Nat
      BY <3>1, InFlightFinite, FS_RemoveElement, FS_CardinalityType
    <3>6. QED
      BY <3>3, <3>4, <3>5, InFlightFinite
  <2>2. ASSUME NEW u \in Users, u # owner[s]
        PROVE  InFlight(u)' = InFlight(u) /\ Admitted(u)' = Admitted(u)
    BY <1>2, <2>2 DEF InsertRow, InFlight, Admitted
  <2>3. QED
    BY <2>1, <2>2, InFlightFinite, JudgingAssumption DEF InFlightSum
<1>3. CASE \A s \in Submissions : ~CheckPending(s) /\ ~InsertRow(s)
  <2>1. \A u \in Users : InFlight(u)' \subseteq InFlight(u)
    BY <1>3, OtherStepsShrink DEF OpensNothing, InFlight
  <2>2. \A u \in Users : Admitted(u)' \subseteq Admitted(u)
    BY <1>3, OtherStepsShrink DEF OpensNothing, Admitted
  <2>3. QED
    BY <2>1, <2>2, ShrinkingKeepsSum
<1>4. QED
  BY <1>1, <1>2, <1>3

\* The in-flight limit is exceeded by less than one row per request of the user that is
\* handled at the same time (_too_many_pending).
THEOREM InFlightBoundedHolds == Spec => []InFlightBounded
<1>1. Init => InFlightSum
  <2> SUFFICES ASSUME Init, NEW u \in Users
               PROVE  Cardinality(InFlight(u)) + Cardinality(Admitted(u))
                        < MaxInFlight + MaxConcurrent
    BY DEF InFlightSum
  <2>1. InFlight(u) = {} /\ Admitted(u) = {}
    BY DEF Init, InFlight, Admitted, OpenStates
  <2>2. QED
    BY <2>1, FS_EmptySet, JudgingAssumption
<1>2. IInv /\ InFlightSum /\ [Next]_vars => InFlightSum'
  BY InFlightSumStep DEF IInv
<1>3. InFlightSum => InFlightBounded
  BY InFlightFinite, JudgingAssumption DEF InFlightSum, InFlightBounded
<1>4. QED
  BY <1>1, <1>2, <1>3, Invariant, PTL DEF Spec
=============================================================================
