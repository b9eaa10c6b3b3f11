------------------------------- MODULE Judging -------------------------------
(***************************************************************************)
(* The life of a submission: the API handler that records and enqueues it, *)
(* the broker, the judge workers and the reaper that closes what they left *)
(* behind.  They share two stores, PostgreSQL rows and broker messages,    *)
(* and every action below is one committed transaction, one message or one *)
(* published event: whatever can run between two of them, does.            *)
(***************************************************************************)
EXTENDS Integers, FiniteSets

CONSTANTS
  Submissions,    \* one id per POST /api/submissions
  Users,
  Problems,
  owner,          \* owner[s]: the user who posts s
  problemOf,      \* problemOf[s]: the problem it is for
  Workers,        \* judge worker processes
  NoJob,          \* an idle worker's job
  MaxInFlight,    \* settings.max_inflight_submissions
  MaxConcurrent,  \* bound: submit requests of one user handled at the same time
  MaxMessages,    \* bound: deliverable messages of one submission
  Faults          \* the faults the environment may show, of AllFaults

AllFaults ==
  { "broker_reply_lost",   \* send_task published, but its reply never came
    "commit_reply_lost",   \* a commit raised, or the soft time limit, once it was done
    "message_lost",        \* the broker lost a message
    "redelivery",          \* visibility_timeout handed a reserved message out again
    "worker_crash",        \* a worker process is killed
    "worker_abort",        \* an exception escapes judge_submission's own handler
    "api_crash",           \* an API process is killed while handling a request
    "event_lost" }         \* Redis was away when an event was published

Verdicts == {"ACCEPTED", "WRONG_ANSWER"}   \* WRONG_ANSWER: any verdict but ACCEPTED
NoVerdict == "NONE"

ASSUME JudgingAssumption ==
  /\ IsFiniteSet(Submissions)
  /\ owner \in [Submissions -> Users]
  /\ problemOf \in [Submissions -> Problems]
  /\ NoJob \notin Submissions
  /\ MaxInFlight \in Nat \ {0}
  /\ MaxConcurrent \in Nat \ {0}
  /\ MaxMessages \in Nat \ {0}
  /\ Faults \subseteq AllFaults

VARIABLES
  status,     \* status[s]: submissions.status, ABSENT before the INSERT
  verdict,    \* verdict[s]: submissions.verdict
  result,     \* result[s]: the stored report (submission_results), or NoVerdict
  stale,      \* ids of open rows whose created_at is before the horizon
  total,      \* total[p]: problems.total_submissions
  accepted,   \* accepted[p]: problems.accepted_submissions
  attempts,   \* attempts[<<u, p>>]: user_problem_progress.attempts
  solved,     \* pairs <<u, p>> whose progress row is SOLVED
  request,    \* request[s]: where the handler of the POST for s is
  queue,      \* queue[s]: deliverable messages for s
  wpc,        \* wpc[w]: where worker w is in judge_submission
  job,        \* job[w]: the submission it claimed
  report,     \* report[w]: what the engine reported for it
  rpc,        \* where the reaper is
  rids,       \* the ids its SELECT returned
  announced   \* announced[s]: events published on the owner's channel about s

rowVars == <<status, verdict, result, stale>>
bookVars == <<total, accepted, attempts, solved>>
workerVars == <<wpc, job, report>>
reaperVars == <<rpc, rids>>
vars == <<rowVars, bookVars, request, queue, workerVars, reaperVars, announced>>

-----------------------------------------------------------------------------
OpenStates == {"QUEUED", "RUNNING"}
ClosedStates == {"COMPLETED", "FAILED"}
Events == {"QUEUED", "RUNNING", "COMPLETED", "FAILED"}
RequestStates == {"new", "checked", "inserted", "unavailable", "enqueued",
                  "answered", "refused", "crashed"}
WorkerStates == {"idle", "claimed", "judging", "persisting", "failing",
                 "completed", "failed"}

Pair(s) == <<owner[s], problemOf[s]>>

TypeOK ==
  /\ status \in [Submissions -> OpenStates \union ClosedStates \union {"ABSENT"}]
  /\ verdict \in [Submissions -> Verdicts \union {"SYSTEM_ERROR", NoVerdict}]
  /\ result \in [Submissions -> Verdicts \union {NoVerdict}]
  /\ stale \in SUBSET Submissions
  /\ total \in [Problems -> Nat]
  /\ accepted \in [Problems -> Nat]
  /\ attempts \in [Users \X Problems -> Nat]
  /\ solved \in SUBSET (Users \X Problems)
  /\ request \in [Submissions -> RequestStates]
  /\ queue \in [Submissions -> 0..MaxMessages]
  /\ wpc \in [Workers -> WorkerStates]
  /\ job \in [Workers -> Submissions \union {NoJob}]
  /\ report \in [Workers -> Verdicts \union {NoVerdict}]
  /\ rpc \in {"idle", "selected", "announcing"}
  /\ rids \in SUBSET Submissions
  /\ announced \in [Submissions -> SUBSET Events]

Init ==
  /\ status = [s \in Submissions |-> "ABSENT"]
  /\ verdict = [s \in Submissions |-> NoVerdict]
  /\ result = [s \in Submissions |-> NoVerdict]
  /\ stale = {}
  /\ total = [p \in Problems |-> 0]
  /\ accepted = [p \in Problems |-> 0]
  /\ attempts = [x \in Users \X Problems |-> 0]
  /\ solved = {}
  /\ request = [s \in Submissions |-> "new"]
  /\ queue = [s \in Submissions |-> 0]
  /\ wpc = [w \in Workers |-> "idle"]
  /\ job = [w \in Workers |-> NoJob]
  /\ report = [w \in Workers |-> NoVerdict]
  /\ rpc = "idle"
  /\ rids = {}
  /\ announced = [s \in Submissions |-> {}]

\* publish_event is best effort: when Redis is away the event is dropped and
\* the caller goes on.
Publish(s, e) ==
  \/ announced' = [announced EXCEPT ![s] = @ \union {e}]
  \/ "event_lost" \in Faults /\ UNCHANGED announced

-----------------------------------------------------------------------------
(* The API handler: create_and_enqueue                                     *)

\* What _too_many_pending counts.
InFlight(u) ==
  {s \in Submissions : owner[s] = u /\ status[s] \in OpenStates /\ s \notin stale}

Admitted(u) == {s \in Submissions : owner[s] = u /\ request[s] = "checked"}

\* A wrong CheckPending: the limit is compared with > instead of >=.
CheckOneTooMany(s) ==
  /\ request[s] = "new"
  /\ Cardinality(Admitted(owner[s])) < MaxConcurrent
  /\ Cardinality(InFlight(owner[s])) <= MaxInFlight
  /\ request' = [request EXCEPT ![s] = "checked"]
  /\ UNCHANGED <<rowVars, bookVars, queue, workerVars, reaperVars, announced>>

\* The handler passes the in-flight check; nothing is written yet.
CheckPending(s) ==
  /\ request[s] = "new"
  /\ Cardinality(Admitted(owner[s])) < MaxConcurrent
  /\ Cardinality(InFlight(owner[s])) < MaxInFlight
  /\ request' = [request EXCEPT ![s] = "checked"]
  /\ UNCHANGED <<rowVars, bookVars, queue, workerVars, reaperVars, announced>>

\* 429 TOO_MANY_PENDING_SUBMISSIONS.
RefusePending(s) ==
  /\ request[s] = "new"
  /\ Cardinality(InFlight(owner[s])) >= MaxInFlight
  /\ request' = [request EXCEPT ![s] = "refused"]
  /\ UNCHANGED <<rowVars, bookVars, queue, workerVars, reaperVars, announced>>

\* 409 PROBLEM_NOT_JUDGEABLE: the problem has no tests.
RefuseNoTests(s) ==
  /\ request[s] = "checked"
  /\ request' = [request EXCEPT ![s] = "refused"]
  /\ UNCHANGED <<rowVars, bookVars, queue, workerVars, reaperVars, announced>>

\* The row is committed before anything is enqueued.
InsertRow(s) ==
  /\ request[s] = "checked"
  /\ request' = [request EXCEPT ![s] = "inserted"]
  /\ status' = [status EXCEPT ![s] = "QUEUED"]
  /\ UNCHANGED <<verdict, result, stale, bookVars, queue, workerVars, reaperVars,
                 announced>>

\* send_task puts n copies on the queue and returns (ok) or raises.  A reply
\* that is lost makes kombu publish again (max_retries 2, so up to 3 copies), or
\* makes enqueue raise although the message is there.
Enqueue(s, n, ok) ==
  /\ request[s] = "inserted"
  /\ \/ ok /\ n = 1
     \/ ~ok /\ n = 0
     \/ "broker_reply_lost" \in Faults /\ n > 0
  /\ queue[s] + n <= MaxMessages
  /\ queue' = [queue EXCEPT ![s] = @ + n]
  /\ request' = [request EXCEPT ![s] = IF ok THEN "enqueued" ELSE "unavailable"]
  /\ UNCHANGED <<rowVars, bookVars, workerVars, reaperVars, announced>>

\* QueueUnavailableError: the handler closes its row, whatever became of it, and
\* answers 503.
CloseUnavailable(s) ==
  /\ request[s] = "unavailable"
  /\ request' = [request EXCEPT ![s] = "refused"]
  /\ status' = [status EXCEPT ![s] = "FAILED"]
  /\ verdict' = [verdict EXCEPT ![s] = "SYSTEM_ERROR"]
  /\ UNCHANGED <<result, stale, bookVars, queue, workerVars, reaperVars, announced>>

\* submission.queued is published after the job is on the queue, then 202.
AnnounceQueued(s) ==
  /\ request[s] = "enqueued"
  /\ request' = [request EXCEPT ![s] = "answered"]
  /\ Publish(s, "QUEUED")
  /\ UNCHANGED <<rowVars, bookVars, queue, workerVars, reaperVars>>

ApiCrash(s) ==
  /\ "api_crash" \in Faults
  /\ request[s] \in {"checked", "inserted", "unavailable", "enqueued"}
  /\ request' = [request EXCEPT ![s] = "crashed"]
  /\ UNCHANGED <<rowVars, bookVars, queue, workerVars, reaperVars, announced>>

Api(s) ==
  \/ CheckPending(s)
  \/ RefusePending(s)
  \/ RefuseNoTests(s)
  \/ InsertRow(s)
  \/ \E n \in 0..3, ok \in BOOLEAN : Enqueue(s, n, ok)
  \/ CloseUnavailable(s)
  \/ AnnounceQueued(s)
  \/ ApiCrash(s)

-----------------------------------------------------------------------------
(* The judge worker: judge_submission                                      *)

Release(w) ==
  /\ wpc' = [wpc EXCEPT ![w] = "idle"]
  /\ job' = [job EXCEPT ![w] = NoJob]
  /\ report' = [report EXCEPT ![w] = NoVerdict]

\* A wrong Claim: any row that is not closed is taken.
ClaimOpen(w, s) ==
  /\ wpc[w] = "idle"
  /\ queue[s] > 0
  /\ status[s] \in OpenStates
  /\ queue' = [queue EXCEPT ![s] = @ - 1]
  /\ status' = [status EXCEPT ![s] = "RUNNING"]
  /\ wpc' = [wpc EXCEPT ![w] = "claimed"]
  /\ job' = [job EXCEPT ![w] = s]
  /\ UNCHANGED <<verdict, result, stale, bookVars, request, report, reaperVars,
                 announced>>

\* A wrong Claim: a redelivered message retries a FAILED submission.
ClaimFailed(w, s) ==
  /\ wpc[w] = "idle"
  /\ queue[s] > 0
  /\ status[s] \in {"QUEUED", "FAILED"}
  /\ queue' = [queue EXCEPT ![s] = @ - 1]
  /\ status' = [status EXCEPT ![s] = "RUNNING"]
  /\ wpc' = [wpc EXCEPT ![w] = "claimed"]
  /\ job' = [job EXCEPT ![w] = s]
  /\ UNCHANGED <<verdict, result, stale, bookVars, request, report, reaperVars,
                 announced>>

\* A delivery whose UPDATE ... WHERE status = QUEUED hits the row.
Claim(w, s) ==
  /\ wpc[w] = "idle"
  /\ queue[s] > 0
  /\ status[s] = "QUEUED"
  /\ queue' = [queue EXCEPT ![s] = @ - 1]
  /\ status' = [status EXCEPT ![s] = "RUNNING"]
  /\ wpc' = [wpc EXCEPT ![w] = "claimed"]
  /\ job' = [job EXCEPT ![w] = s]
  /\ UNCHANGED <<verdict, result, stale, bookVars, request, report, reaperVars,
                 announced>>

\* A wrong SkipDelivery: a message is acknowledged without one being delivered.
SkipNothing(w, s) ==
  /\ wpc[w] = "idle"
  /\ status[s] # "QUEUED"
  /\ queue' = [queue EXCEPT ![s] = @ - 1]
  /\ UNCHANGED <<rowVars, bookVars, request, workerVars, reaperVars, announced>>

\* A wrong SkipDelivery: acknowledged on receipt, so it may be gone unclaimed.
AcknowledgeEarly(w, s) ==
  /\ wpc[w] = "idle"
  /\ queue[s] > 0
  /\ queue' = [queue EXCEPT ![s] = @ - 1]
  /\ UNCHANGED <<rowVars, bookVars, request, workerVars, reaperVars, announced>>

\* A delivery whose claim hits no row is acknowledged and dropped.
SkipDelivery(w, s) ==
  /\ wpc[w] = "idle"
  /\ queue[s] > 0
  /\ status[s] # "QUEUED"
  /\ queue' = [queue EXCEPT ![s] = @ - 1]
  /\ UNCHANGED <<rowVars, bookVars, request, workerVars, reaperVars, announced>>

AnnounceRunning(w) ==
  /\ wpc[w] = "claimed"
  /\ wpc' = [wpc EXCEPT ![w] = "judging"]
  /\ Publish(job[w], "RUNNING")
  /\ UNCHANGED <<rowVars, bookVars, request, queue, job, report, reaperVars>>

\* A wrong Judge: the closing event is published before the report is stored.
AnnounceThenPersist(w, v) ==
  /\ wpc[w] = "judging"
  /\ wpc' = [wpc EXCEPT ![w] = "persisting"]
  /\ report' = [report EXCEPT ![w] = v]
  /\ Publish(job[w], "COMPLETED")
  /\ UNCHANGED <<rowVars, bookVars, request, queue, job, reaperVars>>

\* judge_tests returned a report with verdict v.
Judge(w, v) ==
  /\ wpc[w] = "judging"
  /\ wpc' = [wpc EXCEPT ![w] = "persisting"]
  /\ report' = [report EXCEPT ![w] = v]
  /\ UNCHANGED <<rowVars, bookVars, request, queue, job, reaperVars, announced>>

\* Loading, judging or persisting raised, and nothing was committed.
JudgeError(w) ==
  /\ wpc[w] \in {"judging", "persisting"}
  /\ wpc' = [wpc EXCEPT ![w] = "failing"]
  /\ report' = [report EXCEPT ![w] = NoVerdict]
  /\ UNCHANGED <<rowVars, bookVars, request, queue, job, reaperVars, announced>>

\* A wrong CountAttempt: the progress row takes the status of the last attempt.
CountLastAttempt(s, v) ==
  /\ total' = [total EXCEPT ![problemOf[s]] = @ + 1]
  /\ accepted' = IF v = "ACCEPTED"
                 THEN [accepted EXCEPT ![problemOf[s]] = @ + 1] ELSE accepted
  /\ attempts' = [attempts EXCEPT ![Pair(s)] = @ + 1]
  /\ solved' = IF v = "ACCEPTED" THEN solved \union {Pair(s)} ELSE solved \ {Pair(s)}

\* The problem's counters and the owner's progress, in the transaction of s.
CountAttempt(s, v) ==
  /\ total' = [total EXCEPT ![problemOf[s]] = @ + 1]
  /\ accepted' = IF v = "ACCEPTED"
                 THEN [accepted EXCEPT ![problemOf[s]] = @ + 1] ELSE accepted
  /\ attempts' = [attempts EXCEPT ![Pair(s)] = @ + 1]
  /\ solved' = IF v = "ACCEPTED" THEN solved \union {Pair(s)} ELSE solved

\* The transaction of _persist: COMPLETED whatever the row says by now; the
\* primary key of submission_results lets only one report in.  When its
\* reply is lost, the worker takes the error path although it committed.
Persist(w, replied) ==
  LET s == job[w] IN
  /\ wpc[w] = "persisting"
  /\ replied \/ "commit_reply_lost" \in Faults
  /\ result[s] = NoVerdict
  /\ status' = [status EXCEPT ![s] = "COMPLETED"]
  /\ verdict' = [verdict EXCEPT ![s] = report[w]]
  /\ result' = [result EXCEPT ![s] = report[w]]
  /\ CountAttempt(s, report[w])
  /\ wpc' = [wpc EXCEPT ![w] = IF replied THEN "completed" ELSE "failing"]
  /\ report' = [report EXCEPT ![w] = NoVerdict]
  /\ UNCHANGED <<stale, request, queue, job, reaperVars, announced>>

\* _fail: FAILED / SYSTEM_ERROR, without looking at the row.
Fail(w) ==
  /\ wpc[w] = "failing"
  /\ wpc' = [wpc EXCEPT ![w] = "failed"]
  /\ status' = [status EXCEPT ![job[w]] = "FAILED"]
  /\ verdict' = [verdict EXCEPT ![job[w]] = "SYSTEM_ERROR"]
  /\ UNCHANGED <<result, stale, bookVars, request, queue, job, report, reaperVars,
                 announced>>

\* The closing event, after the commit; then the message is acknowledged.
AnnounceClosed(w) ==
  /\ \/ wpc[w] = "completed" /\ Publish(job[w], "COMPLETED")
     \/ wpc[w] = "failed" /\ Publish(job[w], "FAILED")
  /\ Release(w)
  /\ UNCHANGED <<rowVars, bookVars, request, queue, reaperVars>>

\* An exception leaves the task: the claim or _fail itself raised, the soft time
\* limit fired outside the try, or the hard one ended it.  The message is
\* acknowledged.
Abort(w) ==
  /\ "worker_abort" \in Faults
  /\ wpc[w] # "idle"
  /\ Release(w)
  /\ UNCHANGED <<rowVars, bookVars, request, queue, reaperVars, announced>>

\* The process dies; acks_late and reject_on_worker_lost redeliver its message.
WorkerCrash(w) ==
  /\ "worker_crash" \in Faults
  /\ wpc[w] # "idle"
  /\ queue[job[w]] < MaxMessages
  /\ queue' = [queue EXCEPT ![job[w]] = @ + 1]
  /\ Release(w)
  /\ UNCHANGED <<rowVars, bookVars, request, reaperVars, announced>>

Worker(w) ==
  \/ \E s \in Submissions : Claim(w, s) \/ SkipDelivery(w, s)
  \/ AnnounceRunning(w)
  \/ \E v \in Verdicts : Judge(w, v)
  \/ JudgeError(w)
  \/ \E replied \in BOOLEAN : Persist(w, replied)
  \/ Fail(w)
  \/ AnnounceClosed(w)
  \/ Abort(w)
  \/ WorkerCrash(w)

-----------------------------------------------------------------------------
(* The broker and the clock                                                *)

\* The visibility timeout of a message that was fetched but not acknowledged: one
\* waiting in a worker's prefetch, or the one a worker is judging.
Redeliver(s) ==
  /\ "redelivery" \in Faults
  /\ queue[s] > 0 \/ \E w \in Workers : wpc[w] # "idle" /\ job[w] = s
  /\ queue[s] < MaxMessages
  /\ queue' = [queue EXCEPT ![s] = @ + 1]
  /\ UNCHANGED <<rowVars, bookVars, request, workerVars, reaperVars, announced>>

LoseMessage(s) ==
  /\ "message_lost" \in Faults
  /\ queue[s] > 0
  /\ queue' = [queue EXCEPT ![s] = @ - 1]
  /\ UNCHANGED <<rowVars, bookVars, request, workerVars, reaperVars, announced>>

\* created_at of an open row falls behind the horizon (judge_stale_after).
Age(s) ==
  /\ status[s] \in OpenStates
  /\ s \notin stale
  /\ stale' = stale \union {s}
  /\ UNCHANGED <<status, verdict, result, bookVars, request, queue, workerVars,
                 reaperVars, announced>>

-----------------------------------------------------------------------------
(* The reaper: fail_stale_submissions                                      *)

\* A wrong StaleOpen: only submissions a worker has claimed are reaped.
StaleRunning == {s \in stale : status[s] = "RUNNING"}

StaleOpen == {s \in stale : status[s] \in OpenStates}

ReapSelect ==
  /\ rpc = "idle"
  /\ StaleOpen # {}
  /\ rids' = StaleOpen
  /\ rpc' = "selected"
  /\ UNCHANGED <<rowVars, bookVars, request, queue, workerVars, announced>>

\* The UPDATE repeats the status condition: rows closed since the SELECT stay.
Reapable == {s \in rids : status[s] \in OpenStates}

\* A wrong ReapClose: the UPDATE trusts the SELECT.
ReapSelected ==
  /\ rpc = "selected"
  /\ status' = [s \in Submissions |-> IF s \in rids THEN "FAILED" ELSE status[s]]
  /\ verdict' = [s \in Submissions |-> IF s \in rids THEN "SYSTEM_ERROR" ELSE verdict[s]]
  /\ rpc' = "announcing"
  /\ UNCHANGED <<result, stale, bookVars, request, queue, workerVars, rids, announced>>

ReapClose ==
  /\ rpc = "selected"
  /\ status' = [s \in Submissions |-> IF s \in Reapable THEN "FAILED" ELSE status[s]]
  /\ verdict' = [s \in Submissions |->
                   IF s \in Reapable THEN "SYSTEM_ERROR" ELSE verdict[s]]
  /\ rpc' = "announcing"
  /\ UNCHANGED <<result, stale, bookVars, request, queue, workerVars, rids, announced>>

\* Every selected id is announced as FAILED, also one the UPDATE left alone.
ReapAnnounce(s) ==
  /\ rpc = "announcing"
  /\ s \in rids
  /\ Publish(s, "FAILED")
  /\ rids' = rids \ {s}
  /\ rpc' = IF rids' = {} THEN "idle" ELSE rpc
  /\ UNCHANGED <<rowVars, bookVars, request, queue, workerVars>>

ReaperCrash ==
  /\ "worker_crash" \in Faults
  /\ rpc # "idle"
  /\ rpc' = "idle"
  /\ rids' = {}
  /\ UNCHANGED <<rowVars, bookVars, request, queue, workerVars, announced>>

Reaper ==
  \/ ReapSelect
  \/ ReapClose
  \/ \E s \in Submissions : ReapAnnounce(s)
  \/ ReaperCrash

-----------------------------------------------------------------------------
Next ==
  \/ \E s \in Submissions : Api(s)
  \/ \E w \in Workers : Worker(w)
  \/ \E s \in Submissions : Redeliver(s) \/ LoseMessage(s) \/ Age(s)
  \/ Reaper

Spec == Init /\ [][Next]_vars

\* Time passes, and beat runs the reaper every 300 s.  It may crash, even
\* often, but not in every one of its runs.  Nothing is assumed of users,
\* of the API, of the broker or of the workers that judge.
Fairness ==
  /\ \A s \in Submissions : WF_vars(Age(s))
  /\ WF_vars(ReapSelect)
  /\ SF_vars(ReapClose)
  /\ \A s \in Submissions : WF_vars(ReapAnnounce(s))

FairSpec == Spec /\ Fairness

-----------------------------------------------------------------------------
(* Invariants                                                              *)

Busy == {w \in Workers : wpc[w] # "idle"}

\* No submission is ever in the hands of two workers, whatever the broker
\* delivers twice: _claim's conditional UPDATE is the only way in.
SingleJudge ==
  \A v, w \in Busy : job[v] = job[w] => v = w

\* A COMPLETED row shows exactly the verdict of the stored report, and a row
\* still open shows no verdict and has no report: API, reaper and worker
\* write the same row without looking at each other.
RowMatchesReport ==
  \A s \in Submissions :
    /\ status[s] = "COMPLETED" => result[s] # NoVerdict /\ verdict[s] = result[s]
    /\ status[s] = "FAILED" => verdict[s] = "SYSTEM_ERROR"
    /\ status[s] \in OpenStates => verdict[s] = NoVerdict /\ result[s] = NoVerdict

\* A FAILED submission is not counted as an attempt (the comment on
\* SubmissionStatus.FAILED): none of the places that close a row as FAILED looks
\* whether a report was stored.
NoFailedIsCounted ==
  \A s \in Submissions : status[s] = "FAILED" => result[s] = NoVerdict

\* So it is as long as a reply that says "not done" can be believed.
FailedNotCounted ==
  Faults \cap {"broker_reply_lost", "commit_reply_lost"} = {} => NoFailedIsCounted

\* After a 202, a submission nobody has claimed has a message on the queue, so
\* it is not lost between the commit of its row and the enqueue.
AcknowledgedHasMessage ==
  "message_lost" \notin Faults
    => \A s \in Submissions :
         request[s] \in {"enqueued", "answered"} /\ status[s] = "QUEUED"
           => queue[s] > 0

\* No event runs ahead of the database: a client that refetches on an event
\* finds the row at least as far as the event said.
NoEventBeforeCommit ==
  \A s \in Submissions :
    /\ announced[s] # {} => status[s] # "ABSENT"
    /\ "RUNNING" \in announced[s] => status[s] \notin {"ABSENT", "QUEUED"}
    /\ "COMPLETED" \in announced[s] => result[s] # NoVerdict
    /\ "FAILED" \in announced[s] => status[s] \in ClosedStates

\* The in-flight limit is checked before the row exists, so concurrent requests
\* can pass it together: the excess is at most one per request in the handler.
InFlightBounded ==
  \A u \in Users : Cardinality(InFlight(u)) < MaxInFlight + MaxConcurrent

-----------------------------------------------------------------------------
(* Properties                                                              *)

Phase ==
  [s \in Submissions |->
     CASE status[s] = "ABSENT" -> "absent"
       [] status[s] \in OpenStates -> "open"
       [] OTHER -> "closed"]

Ledger == INSTANCE SubmissionLedger
            WITH phase <- Phase, booked <- result

\* Whatever crashes, repeats or gets lost, judging is one Open, at most one Book
\* and no reopening per submission, with the counters moving in that step.
ImplementsLedger == Ledger!Spec

\* Once the reaper, the worker or the API has closed a submission as FAILED, it
\* is never counted as an attempt later on (reaper.py: "closed as FAILED /
\* SYSTEM_ERROR (not counted as attempts)").
FailedStaysUncounted ==
  [][\A s \in Submissions : status[s] = "FAILED" => result'[s] = result[s]]_vars

\* Nobody watches a spinner forever: every recorded submission is closed, even
\* if its API process or worker died or its message was lost.
EventuallyClosed ==
  \A s \in Submissions :
    status[s] \in OpenStates ~> status[s] \in ClosedStates
=============================================================================
