-------------------------- MODULE JudgingRefinement --------------------------
(***************************************************************************)
(* Judging, with its queue, crashes and races, implements                  *)
(* SubmissionLedger: so every counter on the site agrees with the stored   *)
(* reports.                                                                *)
(***************************************************************************)
EXTENDS JudgingProofs

\* A step that leaves every row's phase, its report and the counters alone.
LedgerStutters == UNCHANGED <<Phase, result, bookVars>>

\* A step that leaves rows, reports and counters alone is a stutter of the ledger.
LEMMA StutterMapped ==
  ASSUME LedgerStutters
  PROVE  UNCHANGED Ledger!vars
BY DEF LedgerStutters, Ledger!vars, bookVars

\* What Phase says of each row.
LEMMA PhaseOf ==
  ASSUME NEW s \in Submissions
  PROVE  /\ Phase[s] = "absent" <=> status[s] = "ABSENT"
         /\ Phase[s] = "open" <=> status[s] \in OpenStates
         /\ Phase[s] = "closed" <=> status[s] \notin {"ABSENT"} \union OpenStates
BY DEF Phase, OpenStates

\* Closing some open rows without a report is one Close.
LEMMA CloseMapped ==
  ASSUME TypeOK, NEW S \in SUBSET Submissions,
         \A s \in S : status[s] \in OpenStates,
         status' = [s \in Submissions |-> IF s \in S THEN "FAILED" ELSE status[s]],
         UNCHANGED <<result, bookVars>>
  PROVE  Ledger!Close(S)
<1>1. \A s \in S : Phase[s] = "open"
  BY PhaseOf
<1>2. Phase' = [s \in Submissions |-> IF s \in S THEN "closed" ELSE Phase[s]]
  BY DEF Phase, OpenStates
<1>3. QED
  BY <1>1, <1>2 DEF Ledger!Close, bookVars

\* Overwriting the status of one recorded row with FAILED closes it, or changes
\* nothing that the ledger sees.
LEMMA FailMapped ==
  ASSUME TypeOK, NEW s \in Submissions, status[s] # "ABSENT",
         status' = [status EXCEPT ![s] = "FAILED"],
         UNCHANGED <<result, bookVars>>
  PROVE  Ledger!Close({s}) \/ LedgerStutters
<1>1. CASE status[s] \in OpenStates
  <2>1. status' = [t \in Submissions |-> IF t \in {s} THEN "FAILED" ELSE status[t]]
    BY DEF TypeOK
  <2>2. QED
    BY <1>1, <2>1, CloseMapped
<1>2. CASE status[s] \notin OpenStates
  <2>1. Phase' = Phase
    BY <1>2 DEF Phase, OpenStates, TypeOK
  <2>2. QED
    BY <2>1 DEF LedgerStutters
<1>3. QED
  BY <1>1, <1>2

\* The ledger sees nothing else of the model.
LEMMA UnchangedMapped ==
  ASSUME UNCHANGED <<status, result, bookVars>>
  PROVE  LedgerStutters
BY DEF Phase, LedgerStutters

\* A claim moves a row between open states, which the ledger does not tell apart.
LEMMA ClaimMapped ==
  ASSUME TypeOK, NEW s \in Submissions, status[s] \in OpenStates,
         status' = [status EXCEPT ![s] = "RUNNING"],
         UNCHANGED <<result, bookVars>>
  PROVE  LedgerStutters
<1>1. Phase' = Phase
  BY DEF Phase, OpenStates, TypeOK
<1>2. QED
  BY <1>1 DEF LedgerStutters

\* Inserting the row opens the submission.
LEMMA InsertMapped ==
  ASSUME TypeOK, RowsRecorded, NEW s \in Submissions, InsertRow(s)
  PROVE  Ledger!Open(s)
<1>1. status[s] = "ABSENT" /\ status' = [status EXCEPT ![s] = "QUEUED"]
  BY DEF InsertRow, RowsRecorded
<1>2. Phase[s] = "absent"
  BY <1>1, PhaseOf
<1>3. Phase' = [Phase EXCEPT ![s] = "open"]
  BY <1>1 DEF Phase, OpenStates, TypeOK
<1>4. QED
  BY <1>2, <1>3 DEF Ledger!Open, InsertRow, bookVars

\* The transaction of _persist books the verdict, also of a row the reaper closed.
LEMMA PersistMapped ==
  ASSUME TypeOK, JobsTyped, Custody, ReportsFresh,
         NEW w \in Workers, NEW replied \in BOOLEAN, Persist(w, replied)
  PROVE  /\ Ledger!Book(job[w], report[w])
         /\ job[w] \in Submissions /\ report[w] \in Verdicts
<1> DEFINE s == job[w]
<1>1. s \in Submissions /\ status[s] # "ABSENT" /\ report[w] \in Verdicts
  BY DEF Persist, JobsTyped, Custody, Busy, ReportsFresh
<1>2. Phase[s] # "absent"
  BY <1>1, PhaseOf
<1>3. Phase' = [Phase EXCEPT ![s] = "closed"]
  BY <1>1 DEF Persist, Phase, OpenStates, TypeOK
<1>4. QED
  BY <1>1, <1>2, <1>3 DEF Ledger!Book, Ledger!Pair, Persist, CountAttempt, Pair

\* Every step of every actor is one step of the ledger or none.
LEMMA StepMapped ==
  ASSUME IInv, [Next]_vars
  PROVE  [Ledger!Next]_(Ledger!vars)
<1> TypeOK /\ JobsTyped /\ RowsRecorded /\ Custody /\ ReportsFresh
  BY DEF IInv
<1>1. ASSUME NEW s \in Submissions, Api(s)
      PROVE  Ledger!Next \/ LedgerStutters
  <2>1. CASE InsertRow(s)
    BY <2>1, InsertMapped DEF Ledger!Next
  <2>2. CASE CloseUnavailable(s)
    <3>1. status[s] # "ABSENT"
      BY <2>2 DEF CloseUnavailable, RowsRecorded
    <3>2. {s} \in SUBSET Submissions
      OBVIOUS
    <3>3. Ledger!Close({s}) \/ LedgerStutters
      BY <2>2, <3>1, FailMapped DEF CloseUnavailable, bookVars
    <3>4. QED
      BY <3>2, <3>3 DEF Ledger!Next
  <2>3. CASE ~InsertRow(s) /\ ~CloseUnavailable(s)
    <3>1. UNCHANGED <<status, result, bookVars>>
      BY <1>1, <2>3 DEF Api, CheckPending, RefusePending, RefuseNoTests, Enqueue,
                        AnnounceQueued, ApiCrash, rowVars
    <3>2. QED
      BY <3>1, UnchangedMapped
  <2>4. QED
    BY <2>1, <2>2, <2>3
<1>2. ASSUME NEW w \in Workers, Worker(w)
      PROVE  Ledger!Next \/ LedgerStutters
  <2>1. ASSUME NEW s \in Submissions, Claim(w, s)
        PROVE  LedgerStutters
    BY <2>1, ClaimMapped DEF Claim, OpenStates
  <2>2. ASSUME NEW replied \in BOOLEAN, Persist(w, replied)
        PROVE  Ledger!Next
    BY <2>2, PersistMapped DEF Ledger!Next
  <2>3. CASE Fail(w)
    <3>1. job[w] \in Submissions /\ status[job[w]] # "ABSENT"
      BY <2>3 DEF Fail, JobsTyped, Custody, Busy
    <3>2. {job[w]} \in SUBSET Submissions
      BY <3>1
    <3>3. Ledger!Close({job[w]}) \/ LedgerStutters
      BY <2>3, <3>1, FailMapped DEF Fail, bookVars
    <3>4. QED
      BY <3>2, <3>3 DEF Ledger!Next
  <2>4. CASE UNCHANGED <<status, result, bookVars>>
    BY <2>4, UnchangedMapped
  <2>5. QED
    BY <1>2, <2>1, <2>2, <2>3, <2>4
    DEF Worker, SkipDelivery, AnnounceRunning, Judge, JudgeError, AnnounceClosed, Abort,
        WorkerCrash, rowVars
<1>3. ASSUME NEW s \in Submissions, Redeliver(s) \/ LoseMessage(s) \/ Age(s)
      PROVE  LedgerStutters
  BY <1>3, UnchangedMapped DEF Redeliver, LoseMessage, Age, rowVars
<1>4. CASE Reaper
  <2>1. CASE ReapClose
    <3>1. Reapable \in SUBSET Submissions /\ \A s \in Reapable : status[s] \in OpenStates
      BY DEF Reapable, TypeOK
    <3>2. Ledger!Close(Reapable)
      BY <2>1, <3>1, CloseMapped DEF ReapClose, bookVars
    <3>3. QED
      BY <3>1, <3>2 DEF Ledger!Next
  <2>2. CASE ~ReapClose
    <3>1. UNCHANGED <<status, result, bookVars>>
      BY <1>4, <2>2 DEF Reaper, ReapSelect, ReapAnnounce, ReaperCrash, rowVars
    <3>2. QED
      BY <3>1, UnchangedMapped, StutterMapped
  <2>3. QED
    BY <2>1, <2>2
<1>5. CASE UNCHANGED vars
  <2>1. UNCHANGED <<status, result, bookVars>>
    BY <1>5 DEF vars, rowVars
  <2>2. QED
    BY <2>1, UnchangedMapped, StutterMapped
<1>6. QED
  BY <1>1, <1>2, <1>3, <1>4, <1>5, StutterMapped DEF Next

\* Whatever crashes, repeats or gets lost, a submission is opened once, never
\* reopened and booked at most once, with its counters.
THEOREM Refinement == Spec => ImplementsLedger
<1>1. Init => Ledger!Init
  <2> SUFFICES ASSUME Init PROVE Ledger!Init
    OBVIOUS
  <2>1. Phase = [s \in Submissions |-> "absent"]
    BY DEF Init, Phase, OpenStates
  <2>2. QED
    BY <2>1 DEF Init, Ledger!Init
<1>2. IInv /\ [Next]_vars => [Ledger!Next]_(Ledger!vars)
  BY StepMapped
<1>3. QED
  BY <1>1, <1>2, Invariant, PTL DEF Spec, ImplementsLedger, Ledger!Spec

-----------------------------------------------------------------------------
(* The counters                                                            *)

Books == INSTANCE SubmissionLedgerProofs
           WITH phase <- Phase, booked <- result

\* Problem statistics, attempts and SOLVED flags agree with the stored reports in
\* every state of the platform, whatever crashes, repeats or gets lost.
THEOREM CountersHold == Spec => []Ledger!CountersMatchBooks
<1>1. Books!WellFormed
  <2>1. Books!IsFiniteSet(Submissions)
    BY JudgingAssumption DEF IsFiniteSet, Books!IsFiniteSet
  <2>2. QED
    BY <2>1, JudgingAssumption DEF Books!WellFormed, Verdicts, NoVerdict
<1>2. Books!Spec => []Books!CountersMatchBooks
  BY <1>1, Books!LedgerCountersCorrect
<1>3. Ledger!Init => Books!Init
  BY DEF Ledger!Init, Books!Init
<1>4. [Ledger!Next]_(Ledger!vars) => [Books!Next]_(Books!vars)
  BY DEF Ledger!Next, Ledger!Open, Ledger!Close, Ledger!Book, Ledger!Pair, Ledger!vars,
         Books!Next, Books!Open, Books!Close, Books!Book, Books!Pair, Books!vars
<1>5. Books!CountersMatchBooks => Ledger!CountersMatchBooks
  <2>1. \A S : Books!Cardinality(S) = Ledger!Cardinality(S)
    BY DEF Books!Cardinality, Ledger!Cardinality
  <2>2. QED
    BY <2>1
    DEF Ledger!CountersMatchBooks, Ledger!BookedFor, Ledger!AcceptedFor,
        Ledger!BookedBy, Ledger!Pair,
        Books!CountersMatchBooks, Books!BookedFor, Books!AcceptedFor,
        Books!BookedBy, Books!Pair
<1>6. QED
  BY <1>2, <1>3, <1>4, <1>5, Refinement, PTL
  DEF ImplementsLedger, Ledger!Spec, Books!Spec
=============================================================================
