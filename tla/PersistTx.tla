------------------------------ MODULE PersistTx ------------------------------
(***************************************************************************)
(* The inside of Judging's Persist: the transactions of _persist, one SQL  *)
(* statement at a time, as they run side by side for several submissions.  *)
(*                                                                         *)
(* PostgreSQL at READ COMMITTED: a statement sees what is committed when   *)
(* it starts and what its own transaction wrote; a row that is written     *)
(* stays locked until its transaction ends; an INSERT waits for another    *)
(* transaction's uncommitted row with the same key.  The session does not  *)
(* autoflush: pending objects reach the database at a SAVEPOINT or at the  *)
(* commit, not at a query.                                                 *)
(***************************************************************************)
EXTENDS Integers, FiniteSets, Sequences

CONSTANTS
  Submissions,   \* submissions that reach _persist, each at most once
  Users,
  Problems,
  owner,
  problemOf,
  languageOf,    \* languageOf[s]: language_key
  Reaper,        \* the reaper's transaction
  SolveGoal,     \* solved problems that earn "solved"
  StreakGoal,    \* days in a row that earn "streak"
  SubmitGoal,    \* submissions that earn "submitted"
  MaxWorkers,    \* judge worker processes: transactions at the same time
  MaxDay,        \* bound: days that pass
  Faults         \* what else may happen, of AllFaults

AllFaults == { "abort",    \* an exception or a broken connection rolls back
               "reaper" }  \* the reaper sweeps submissions being judged

Verdicts == {"ACCEPTED", "WRONG_ANSWER"}   \* WRONG_ANSWER: any verdict but ACCEPTED
NoVerdict == "NONE"
Actors == Submissions \union {Reaper}

\* The shapes of achievements: solved problems (first_solve, ten_solved,
\* all_difficulties, topic_explorer), accepted languages, the longest streak
\* (streak_7, streak_30) and the number of submissions.
CHECKS == <<"solved", "polyglot", "streak", "submitted">>
Achievements == {CHECKS[i] : i \in 1..Len(CHECKS)}

NoStreak == [current |-> 0, longest |-> 0, last |-> 0]
NoDraft == [total |-> 0, accepted |-> 0, attempts |-> 0, solved |-> FALSE,
            streak |-> NoStreak]

ASSUME PersistTxAssumption ==
  /\ IsFiniteSet(Submissions)
  /\ owner \in [Submissions -> Users]
  /\ problemOf \in [Submissions -> Problems]
  /\ DOMAIN languageOf = Submissions
  /\ Reaper \notin Submissions
  /\ {SolveGoal, StreakGoal, SubmitGoal, MaxWorkers, MaxDay} \subseteq Nat \ {0}
  /\ Faults \subseteq AllFaults

VARIABLES
  \* committed
  status,     \* status[s]: submissions.status
  result,     \* result[s]: the stored report
  total, accepted, attempts, solved,   \* as in SubmissionLedger; attempts 0: no row
  streak,     \* streak[u]: the row of user_streaks, or NoStreak
  earned,     \* rows <<u, a>> of user_achievements
  \* of the transactions
  pc,         \* pc[s]: the next statement of the transaction of s
  report,     \* report[s]: what the engine reported
  draft,      \* draft[s]: the row versions it has written
  today,      \* today[s]: the date that record_streak read
  known,      \* known[s]: achievements that its first query found earned
  next,       \* next[s]: index of the next check
  staged,     \* staged[s]: achievements it is about to insert
  held,       \* held[a]: rows that a has written, and so locked
  rids, rpc,  \* the reaper: rows its UPDATE has yet to lock, and its state
  day         \* the calendar

committed == <<status, result, total, accepted, attempts, solved, streak, earned>>
locals == <<report, draft, today, known, next, staged>>
reaperVars == <<rids, rpc>>
vars == <<committed, pc, locals, held, reaperVars, day>>

-----------------------------------------------------------------------------
Pair(s) == <<owner[s], problemOf[s]>>

Statements == {"update_problem", "update_progress", "insert_progress", "read_clock",
               "update_streak", "insert_streak", "read_earned", "check", "commit"}

\* A wrong Row: the flush also writes a row of the owner, such as a last activity.
OwnerRow(s) == <<"submissions", owner[s]>>

\* Rows that can be locked.
Row(s) == <<"submissions", s>>
ProblemRow(s) == <<"problems", problemOf[s]>>
ProgressRow(s) == <<"progress", Pair(s)>>
StreakRow(s) == <<"streak", owner[s]>>
AchievementRow(s, a) == <<"achievement", <<owner[s], a>>>>
RowsOf(s) == {Row(s), ProblemRow(s), ProgressRow(s), StreakRow(s)}
                \union {AchievementRow(s, a) : a \in Achievements}
Rows == UNION {RowsOf(s) : s \in Submissions}

Streaks == [current : Nat, longest : Nat, last : Nat]

TypeOK ==
  /\ status \in [Submissions -> {"ABSENT", "RUNNING", "COMPLETED", "FAILED"}]
  /\ result \in [Submissions -> Verdicts \union {NoVerdict}]
  /\ total \in [Problems -> Nat]
  /\ accepted \in [Problems -> Nat]
  /\ attempts \in [Users \X Problems -> Nat]
  /\ solved \in SUBSET (Users \X Problems)
  /\ streak \in [Users -> Streaks]
  /\ earned \in SUBSET (Users \X Achievements)
  /\ pc \in [Submissions -> Statements \union {"new", "failing", "done"}]
  /\ report \in [Submissions -> Verdicts \union {NoVerdict}]
  /\ draft \in [Submissions -> [total : Nat, accepted : Nat, attempts : Nat,
                                solved : BOOLEAN, streak : Streaks]]
  /\ today \in [Submissions -> Nat]
  /\ known \in [Submissions -> SUBSET Achievements]
  /\ next \in [Submissions -> 1..(Len(CHECKS) + 1)]
  /\ staged \in [Submissions -> SUBSET Achievements]
  /\ held \in [Actors -> SUBSET Rows]
  /\ rids \in SUBSET Submissions
  /\ rpc \in {"idle", "update", "over"}
  /\ day \in 1..MaxDay

Init ==
  /\ status = [s \in Submissions |-> "ABSENT"]
  /\ result = [s \in Submissions |-> NoVerdict]
  /\ total = [p \in Problems |-> 0]
  /\ accepted = [p \in Problems |-> 0]
  /\ attempts = [x \in Users \X Problems |-> 0]
  /\ solved = {}
  /\ streak = [u \in Users |-> NoStreak]
  /\ earned = {}
  /\ pc = [s \in Submissions |-> "new"]
  /\ report = [s \in Submissions |-> NoVerdict]
  /\ draft = [s \in Submissions |-> NoDraft]
  /\ today = [s \in Submissions |-> 0]
  /\ known = [s \in Submissions |-> {}]
  /\ next = [s \in Submissions |-> 1]
  /\ staged = [s \in Submissions |-> {}]
  /\ held = [a \in Actors |-> {}]
  /\ rids = {} /\ rpc = "idle"
  /\ day = 1

-----------------------------------------------------------------------------
(* Locks                                                                   *)

\* The rows of the statement INSERT INTO user_achievements, in the order staged.
NextStaged(s) ==
  LET waiting == {i \in 1..Len(CHECKS) : /\ CHECKS[i] \in staged[s]
                                         /\ AchievementRow(s, CHECKS[i]) \notin held[s]}
  IN  {CHECKS[i] : i \in {j \in waiting : \A k \in waiting : j <= k}}

\* The row that the next statement of s writes, if any.  The SAVEPOINT of a first
\* progress or streak row flushes the submission; so does the commit, after the
\* achievements.
Wants(s) ==
  CASE pc[s] = "update_problem" -> {ProblemRow(s)}
    [] pc[s] = "update_progress" /\ attempts[Pair(s)] > 0 -> {ProgressRow(s)}
    [] pc[s] = "insert_progress" ->
         IF Row(s) \in held[s] THEN {ProgressRow(s)} ELSE {Row(s)}
    [] pc[s] = "update_streak" /\ streak[owner[s]] # NoStreak -> {StreakRow(s)}
    [] pc[s] = "insert_streak" ->
         IF Row(s) \in held[s] THEN {StreakRow(s)} ELSE {Row(s)}
    [] pc[s] = "commit" ->
         IF NextStaged(s) # {} THEN {AchievementRow(s, a) : a \in NextStaged(s)}
                               ELSE {Row(s)} \ held[s]
    [] pc[s] = "failing" -> {Row(s)}
    [] OTHER -> {}

\* The reaper's UPDATE meets the rows in some fixed order.
ScanNext == CHOOSE s \in rids : TRUE

Wanted(a) ==
  IF a # Reaper THEN Wants(a)
  ELSE IF rids = {} THEN {} ELSE {Row(ScanNext)}

Blocks(a, b) == a # b /\ Wanted(b) \intersect held[a] # {}

Granted(b) == \A a \in Actors : ~Blocks(a, b)

Lock(a) == held' = [held EXCEPT ![a] = @ \union Wanted(a)]

Goto(s, label) == pc' = [pc EXCEPT ![s] = label]

\* A transaction ends and forgets what it had not committed.
EndTransaction(s, label) ==
  /\ Goto(s, label)
  /\ held' = [held EXCEPT ![s] = {}]
  /\ draft' = [draft EXCEPT ![s] = NoDraft]
  /\ report' = [report EXCEPT ![s] = NoVerdict]
  /\ today' = [today EXCEPT ![s] = 0]
  /\ known' = [known EXCEPT ![s] = {}]
  /\ next' = [next EXCEPT ![s] = 1]
  /\ staged' = [staged EXCEPT ![s] = {}]

-----------------------------------------------------------------------------
(* record_streak                                                           *)

\* The streak row after an accepted submission on that date.
Extended(st, date) ==
  LET current == CASE st.last = date -> st.current
                   [] st.last = date - 1 -> st.current + 1
                   [] OTHER -> 1
  IN  [current |-> current, last |-> date,
       longest |-> IF current > st.longest THEN current ELSE st.longest]

-----------------------------------------------------------------------------
(* evaluate_achievements                                                   *)

SubmittedBy(u) == {s \in Submissions : owner[s] = u /\ status[s] # "ABSENT"}
AcceptedOf(u) ==
  {s \in Submissions : owner[s] = u /\ status[s] = "COMPLETED" /\ result[s] = "ACCEPTED"}

\* Whether a's goal is reached by a user with these solved problems, accepted
\* submissions and longest streak.
Reached(a, u, problems, acceptances, longest) ==
  CASE a = "solved" -> Cardinality(problems) >= SolveGoal
    [] a = "polyglot" -> Cardinality({languageOf[s] : s \in acceptances}) >= 2
    [] a = "streak" -> longest >= StreakGoal
    [] a = "submitted" -> Cardinality(SubmittedBy(u)) >= SubmitGoal

SolvedBy(u) == {p \in Problems : <<u, p>> \in solved}

\* In the database.
IsReached(a, u) == Reached(a, u, SolvedBy(u), AcceptedOf(u), streak[u].longest)

\* In a query of the transaction of s: the progress and the streak have been
\* written, the submission only if it has been flushed.
SeesReached(s, a) ==
  LET u == owner[s] IN
  Reached(a, u,
          SolvedBy(u) \union (IF draft[s].solved THEN {problemOf[s]} ELSE {}),
          AcceptedOf(u) \union
            (IF Row(s) \in held[s] /\ report[s] = "ACCEPTED" THEN {s} ELSE {}),
          IF StreakRow(s) \in held[s] THEN draft[s].streak.longest ELSE streak[u].longest)

-----------------------------------------------------------------------------
(* The statements of _persist                                              *)

\* The row is RUNNING and the engine has reported; the transaction begins.
Begin(s, v) ==
  /\ pc[s] = "new"
  /\ Cardinality({t \in Submissions : pc[t] \notin {"new", "done"}}) < MaxWorkers
  /\ status' = [status EXCEPT ![s] = "RUNNING"]
  /\ report' = [report EXCEPT ![s] = v]
  /\ Goto(s, "update_problem")
  /\ UNCHANGED <<result, total, accepted, attempts, solved, streak, earned, draft,
                 today, known, next, staged, held, reaperVars, day>>

\* A wrong UpdateProblem: a SELECT, a sum in Python, and a write at the end.
ReadModifyWrite(s) ==
  /\ pc[s] = "update_problem"
  /\ draft' = [draft EXCEPT
       ![s].total = total[problemOf[s]] + 1,
       ![s].accepted = accepted[problemOf[s]] + (IF report[s] = "ACCEPTED" THEN 1 ELSE 0)]
  /\ Goto(s, "update_progress")
  /\ UNCHANGED <<committed, report, today, known, next, staged, held, reaperVars, day>>

UpdateProblem(s) ==
  /\ pc[s] = "update_problem"
  /\ Granted(s)
  /\ Lock(s)
  /\ draft' = [draft EXCEPT
       ![s].total = total[problemOf[s]] + 1,
       ![s].accepted = accepted[problemOf[s]] + (IF report[s] = "ACCEPTED" THEN 1 ELSE 0)]
  /\ Goto(s, "update_progress")
  /\ UNCHANGED <<committed, report, today, known, next, staged, reaperVars, day>>

AfterProgress(s) == IF report[s] = "ACCEPTED" THEN "read_clock" ELSE "read_earned"

\* record_progress: the UPDATE finds the row ...
UpdateProgress(s) ==
  /\ pc[s] = "update_progress"
  /\ attempts[Pair(s)] > 0
  /\ Granted(s)
  /\ Lock(s)
  /\ draft' = [draft EXCEPT
       ![s].attempts = attempts[Pair(s)] + 1,
       ![s].solved = report[s] = "ACCEPTED" \/ Pair(s) \in solved]
  /\ Goto(s, AfterProgress(s))
  /\ UNCHANGED <<committed, report, today, known, next, staged, reaperVars, day>>

\* ... or no committed row ...
NoProgressRow(s) ==
  /\ pc[s] = "update_progress"
  /\ attempts[Pair(s)] = 0
  /\ Goto(s, "insert_progress")
  /\ UNCHANGED <<committed, locals, held, reaperVars, day>>

\* ... and then it inserts one, or meets one inserted meanwhile and updates that.
InsertProgress(s) ==
  /\ pc[s] = "insert_progress"
  /\ Row(s) \in held[s]
  /\ Granted(s)
  /\ IF attempts[Pair(s)] = 0
     THEN /\ Lock(s)
          /\ draft' = [draft EXCEPT ![s].attempts = 1,
                                    ![s].solved = report[s] = "ACCEPTED"]
          /\ Goto(s, AfterProgress(s))
     ELSE Goto(s, "update_progress") /\ UNCHANGED <<draft, held>>
  /\ UNCHANGED <<committed, report, today, known, next, staged, reaperVars, day>>

\* A flush writes the submission's row and inserts its report.
FlushRow(s) ==
  /\ pc[s] \in {"insert_progress", "insert_streak", "commit"}
  /\ Wants(s) = {Row(s)}
  /\ Granted(s)
  /\ Lock(s)
  /\ UNCHANGED <<committed, pc, locals, reaperVars, day>>

\* record_streak computes today in Python, before its first statement.
ReadClock(s) ==
  /\ pc[s] = "read_clock"
  /\ today' = [today EXCEPT ![s] = day]
  /\ Goto(s, "update_streak")
  /\ UNCHANGED <<committed, report, draft, known, next, staged, held, reaperVars, day>>

UpdateStreak(s) ==
  /\ pc[s] = "update_streak"
  /\ streak[owner[s]] # NoStreak
  /\ Granted(s)
  /\ Lock(s)
  /\ draft' = [draft EXCEPT ![s].streak = Extended(streak[owner[s]], today[s])]
  /\ Goto(s, "read_earned")
  /\ UNCHANGED <<committed, report, today, known, next, staged, reaperVars, day>>

NoStreakRow(s) ==
  /\ pc[s] = "update_streak"
  /\ streak[owner[s]] = NoStreak
  /\ Goto(s, "insert_streak")
  /\ UNCHANGED <<committed, locals, held, reaperVars, day>>

InsertStreak(s) ==
  /\ pc[s] = "insert_streak"
  /\ Row(s) \in held[s]
  /\ Granted(s)
  /\ IF streak[owner[s]] = NoStreak
     THEN /\ Lock(s)
          /\ draft' = [draft EXCEPT
               ![s].streak = [current |-> 1, longest |-> 1, last |-> today[s]]]
          /\ Goto(s, "read_earned")
     ELSE Goto(s, "update_streak") /\ UNCHANGED <<draft, held>>
  /\ UNCHANGED <<committed, report, today, known, next, staged, reaperVars, day>>

ReadEarned(s) ==
  /\ pc[s] = "read_earned"
  /\ known' = [known EXCEPT ![s] = {a \in Achievements : <<owner[s], a>> \in earned}]
  /\ Goto(s, "check")
  /\ UNCHANGED <<committed, report, draft, today, next, staged, held, reaperVars, day>>

\* One check, with a query of its own, in the order of CHECKS.
Check(s) ==
  LET a == CHECKS[next[s]] IN
  /\ pc[s] = "check"
  /\ staged' = IF a \notin known[s] /\ SeesReached(s, a)
               THEN [staged EXCEPT ![s] = @ \union {a}] ELSE staged
  /\ next' = [next EXCEPT ![s] = @ + 1]
  /\ Goto(s, IF next[s] = Len(CHECKS) THEN "commit" ELSE "check")
  /\ UNCHANGED <<committed, report, draft, today, known, held, reaperVars, day>>

\* A wrong InsertAchievement: it is granted in a transaction of its own.
GrantAtOnce(s) ==
  /\ pc[s] = "commit"
  /\ NextStaged(s) # {}
  /\ Granted(s)
  /\ Lock(s)
  /\ earned' = earned \union {<<owner[s], a>> : a \in NextStaged(s)}
  /\ UNCHANGED <<status, result, total, accepted, attempts, solved, streak, pc, locals,
                 reaperVars, day>>

\* A row of user_achievements: its key may have been committed since ReadEarned,
\* and then the IntegrityError rolls everything back.
InsertAchievement(s) ==
  /\ pc[s] = "commit"
  /\ NextStaged(s) # {}
  /\ Granted(s)
  /\ IF \E a \in NextStaged(s) : <<owner[s], a>> \in earned
     THEN EndTransaction(s, "failing")
     ELSE Lock(s) /\ UNCHANGED <<pc, locals>>
  /\ UNCHANGED <<committed, reaperVars, day>>

Commit(s) ==
  LET u == owner[s]  p == problemOf[s] IN
  /\ pc[s] = "commit"
  /\ Wants(s) = {}
  /\ status' = [status EXCEPT ![s] = "COMPLETED"]
  /\ result' = [result EXCEPT ![s] = report[s]]
  /\ total' = [total EXCEPT ![p] = draft[s].total]
  /\ accepted' = [accepted EXCEPT ![p] = draft[s].accepted]
  /\ attempts' = [attempts EXCEPT ![Pair(s)] = draft[s].attempts]
  /\ solved' = IF draft[s].solved THEN solved \union {Pair(s)} ELSE solved \ {Pair(s)}
  /\ streak' = IF StreakRow(s) \in held[s]
               THEN [streak EXCEPT ![u] = draft[s].streak] ELSE streak
  /\ earned' = earned \union {<<u, a>> : a \in staged[s]}
  /\ EndTransaction(s, "done")
  /\ UNCHANGED <<reaperVars, day>>

\* A wrong Fail: the verdict is stored as the status.
FailAsVerdict(s) ==
  /\ pc[s] = "failing"
  /\ Granted(s)
  /\ status' = [status EXCEPT ![s] = "SYSTEM_ERROR"]
  /\ Goto(s, "done")
  /\ UNCHANGED <<result, total, accepted, attempts, solved, streak, earned, locals,
                 held, reaperVars, day>>

\* judge_submission's except: _fail, in a transaction of its own.
Fail(s) ==
  /\ pc[s] = "failing"
  /\ Granted(s)
  /\ status' = [status EXCEPT ![s] = "FAILED"]
  /\ Goto(s, "done")
  /\ UNCHANGED <<result, total, accepted, attempts, solved, streak, earned, locals,
                 held, reaperVars, day>>

Abort(s) ==
  /\ "abort" \in Faults
  /\ pc[s] \in Statements
  /\ EndTransaction(s, "failing")
  /\ UNCHANGED <<committed, reaperVars, day>>

\* Everyone in S waits for another of S.
Stuck(S) == S # {} /\ \A b \in S : \E a \in S : Blocks(a, b)

Deadlocked(a) == \E S \in SUBSET Actors : a \in S /\ Stuck(S)

\* PostgreSQL rolls one transaction of a deadlock back.
DeadlockVictim(s) ==
  /\ pc[s] \in Statements
  /\ Deadlocked(s)
  /\ EndTransaction(s, "failing")
  /\ UNCHANGED <<committed, reaperVars, day>>

Transaction(s) ==
  \/ \E v \in Verdicts : Begin(s, v)
  \/ UpdateProblem(s)
  \/ UpdateProgress(s) \/ NoProgressRow(s) \/ InsertProgress(s)
  \/ FlushRow(s)
  \/ ReadClock(s)
  \/ UpdateStreak(s) \/ NoStreakRow(s) \/ InsertStreak(s)
  \/ ReadEarned(s) \/ Check(s)
  \/ InsertAchievement(s)
  \/ Commit(s) \/ Fail(s)
  \/ Abort(s) \/ DeadlockVictim(s)

-----------------------------------------------------------------------------
(* The reaper's UPDATE, which locks row after row                          *)

\* Bound: the reaper sweeps once.
ReapBegin(S) ==
  /\ "reaper" \in Faults
  /\ rpc = "idle"
  /\ S # {}
  /\ \A s \in S : status[s] = "RUNNING"
  /\ rids' = S
  /\ rpc' = "update"
  /\ UNCHANGED <<committed, pc, locals, held, day>>

\* The row is rechecked once its lock is granted.
ReapRow ==
  /\ rids # {}
  /\ Granted(Reaper)
  /\ IF status[ScanNext] = "RUNNING" THEN Lock(Reaper) ELSE UNCHANGED held
  /\ rids' = rids \ {ScanNext}
  /\ UNCHANGED <<committed, pc, locals, rpc, day>>

ReapCommit ==
  /\ rpc = "update" /\ rids = {}
  /\ status' = [s \in Submissions |-> IF Row(s) \in held[Reaper] THEN "FAILED" ELSE status[s]]
  /\ held' = [held EXCEPT ![Reaper] = {}]
  /\ rpc' = "over"
  /\ UNCHANGED <<result, total, accepted, attempts, solved, streak, earned, pc, locals,
                 rids, day>>

ReapVictim ==
  /\ Deadlocked(Reaper)
  /\ held' = [held EXCEPT ![Reaper] = {}]
  /\ rids' = {} /\ rpc' = "over"
  /\ UNCHANGED <<committed, pc, locals, day>>

ReaperTx ==
  \/ \E S \in SUBSET Submissions : ReapBegin(S)
  \/ ReapRow \/ ReapCommit \/ ReapVictim

Midnight ==
  /\ day < MaxDay
  /\ day' = day + 1
  /\ UNCHANGED <<committed, pc, locals, held, reaperVars>>

Next == (\E s \in Submissions : Transaction(s)) \/ ReaperTx \/ Midnight

Spec == Init /\ [][Next]_vars

-----------------------------------------------------------------------------
(* Properties                                                              *)

\* The rows are locked in an order (problem, progress, streak, achievements, own
\* submission) that no two transactions of _persist can turn into a cycle: every
\* deadlock has the reaper in it.
OnlyReaperDeadlocks == \A S \in SUBSET Submissions : ~Stuck(S)

\* No achievement is held that its user has not reached, although checks read
\* rows that their transaction may yet roll back.
EarnedIsReached == \A x \in earned : IsReached(x[2], x[1])

\* However many accepted submissions commit at once, a streak never claims more
\* days than have passed.
StreakWithinDays ==
  \A u \in Users : streak[u].current <= streak[u].longest /\ streak[u].longest <= day

\* What a profile boasts of has happened: its achievements (evaluate_achievements) and its
\* streak (record_streak), through every overlap of the transactions that write them.
ProfileIsTrue == EarnedIsReached /\ StreakWithinDays

Phase == [s \in Submissions |->
            CASE status[s] = "ABSENT" -> "absent"
              [] status[s] = "RUNNING" -> "open"
              [] OTHER -> "closed"]

Ledger == INSTANCE SubmissionLedger WITH phase <- Phase, booked <- result

\* The transactions are atomic towards the books: side by side, they lose and
\* repeat no attempt, so Judging may take Persist as one step.
ImplementsLedger == Ledger!Spec

\* Concurrent judgments cannot lose an attempt (record_progress): without a
\* failure of any kind, every report is stored and counted.
NoAttemptLost == Faults = {} => \A s \in Submissions : status[s] # "FAILED"

\* An accepted submission keeps a streak or extends it; it never takes back a day
\* that was already counted (record_streak: "atomic under concurrent judging").
StreakKeepsItsDays ==
  [][\A u \in Users : streak'[u].last >= streak[u].last]_vars

\* Checks run after every judged submission: when no transaction is under way,
\* whoever has accepted submissions in two languages has the achievement.
PolyglotIsEarned ==
  (\A s \in Submissions : pc[s] \in {"new", "failing", "done"})
    => \A u \in Users : IsReached("polyglot", u) => <<u, "polyglot">> \in earned
=============================================================================
