--------------------------- MODULE PersistTxProofs ---------------------------
(***************************************************************************)
(* What the transactions of _persist promise, however many of them run side *)
(* by side, are rolled back or meet the reaper: types, locks that only the   *)
(* reaper can turn into a deadlock, profiles that are true, and atomicity    *)
(* towards the ledger.                                                      *)
(***************************************************************************)
EXTENDS PersistTx, FiniteSetTheorems, FunctionTheorems, TLAPS

-----------------------------------------------------------------------------
(* Operators                                                               *)

\* Rows of different tables, and rows with different keys, are different rows.
LEMMA RowsDistinct ==
  ASSUME NEW s, NEW t, NEW a, NEW b
  PROVE  /\ Row(s) = Row(t) <=> s = t
         /\ Row(s) \notin {ProblemRow(t), ProgressRow(t), StreakRow(t), AchievementRow(t, a)}
         /\ ProblemRow(s) \notin {ProgressRow(t), StreakRow(t), AchievementRow(t, a)}
         /\ ProgressRow(s) \notin {StreakRow(t), AchievementRow(t, a)}
         /\ StreakRow(s) # AchievementRow(t, a)
         /\ ProblemRow(s) = ProblemRow(t) <=> problemOf[s] = problemOf[t]
         /\ ProgressRow(s) = ProgressRow(t) <=> Pair(s) = Pair(t)
         /\ StreakRow(s) = StreakRow(t) <=> owner[s] = owner[t]
         /\ AchievementRow(s, a) = AchievementRow(t, b) <=> owner[s] = owner[t] /\ a = b
BY DEF Row, ProblemRow, ProgressRow, StreakRow, AchievementRow, Pair

\* The checks, one by one.
LEMMA ChecksListed ==
  /\ Len(CHECKS) = 4
  /\ CHECKS[1] = "solved" /\ CHECKS[2] = "polyglot"
  /\ CHECKS[3] = "streak" /\ CHECKS[4] = "submitted"
  /\ Achievements = {"solved", "polyglot", "streak", "submitted"}
  /\ \A i, j \in 1..4 : CHECKS[i] = CHECKS[j] => i = j
BY DEF CHECKS, Achievements

\* Every row that a transaction may write is one that can be locked.
LEMMA RowsTyped ==
  ASSUME NEW s \in Submissions
  PROVE  /\ Row(s) \in Rows /\ ProblemRow(s) \in Rows /\ ProgressRow(s) \in Rows
         /\ StreakRow(s) \in Rows /\ \A a \in Achievements : AchievementRow(s, a) \in Rows
         /\ owner[s] \in Users /\ problemOf[s] \in Problems /\ Pair(s) \in Users \X Problems
<1>1. RowsOf(s) \subseteq Rows
  BY DEF Rows
<1>2. /\ Row(s) \in RowsOf(s) /\ ProblemRow(s) \in RowsOf(s) /\ ProgressRow(s) \in RowsOf(s)
      /\ StreakRow(s) \in RowsOf(s)
      /\ \A a \in Achievements : AchievementRow(s, a) \in RowsOf(s)
  BY DEF RowsOf
<1>3. owner[s] \in Users /\ problemOf[s] \in Problems
  BY PersistTxAssumption
<1>4. QED
  BY <1>1, <1>2, <1>3 DEF Pair

\* What is staged next is staged.
LEMMA NextStagedTyped ==
  ASSUME NEW s \in Submissions
  PROVE  NextStaged(s) \subseteq Achievements \cap staged[s]
BY ChecksListed DEF NextStaged

\* A statement writes rows that exist.
LEMMA WantsTyped ==
  ASSUME NEW s \in Submissions
  PROVE  Wants(s) \subseteq Rows
<1>1. {AchievementRow(s, a) : a \in NextStaged(s)} \subseteq Rows
  BY NextStagedTyped, RowsTyped
<1>2. QED
  BY <1>1, RowsTyped DEF Wants

\* A streak that is extended stays one.
LEMMA ExtendedTyped ==
  ASSUME NEW st \in Streaks, NEW date \in Nat
  PROVE  Extended(st, date) \in Streaks
BY DEF Extended, Streaks

-----------------------------------------------------------------------------
(* Types                                                                   *)

\* What a transaction can have written of the rows it updates.
Drafts == [Submissions -> [total : Nat, accepted : Nat, attempts : Nat,
                           solved : BOOLEAN, streak : Streaks]]

\* A transaction that is checking has a check to do.
IndexTyped ==
  \A s \in Submissions : /\ pc[s] \notin {"check", "commit"} => next[s] = 1 /\ staged[s] = {}
                         /\ pc[s] = "check" => next[s] \in 1..4

Typed == TypeOK /\ IndexTyped

\* Ending a transaction, by a commit or a rollback, leaves its locals as they were.
LEMMA EndTyped ==
  ASSUME Typed, NEW s \in Submissions, NEW label \in {"failing", "done"},
         EndTransaction(s, label)
  PROVE  /\ pc' \in [Submissions -> Statements \union {"new", "failing", "done"}]
         /\ report' \in [Submissions -> Verdicts \union {NoVerdict}]
         /\ draft' \in [Submissions -> [total : Nat, accepted : Nat, attempts : Nat,
                                        solved : BOOLEAN, streak : Streaks]]
         /\ today' \in [Submissions -> Nat]
         /\ known' \in [Submissions -> SUBSET Achievements]
         /\ next' \in [Submissions -> 1..(Len(CHECKS) + 1)]
         /\ staged' \in [Submissions -> SUBSET Achievements]
         /\ held' \in [Actors -> SUBSET Rows]
         /\ IndexTyped'
<1>1. NoDraft \in [total : Nat, accepted : Nat, attempts : Nat, solved : BOOLEAN,
                   streak : Streaks]
  BY DEF NoDraft, NoStreak, Streaks
<1>2. s \in Actors
  BY DEF Actors
<1>3. QED
  BY <1>1, <1>2, ChecksListed DEF EndTransaction, Goto, Typed, TypeOK, IndexTyped

\* A lock is on rows that exist.
LEMMA LockTyped ==
  ASSUME TypeOK, NEW s \in Submissions, Lock(s)
  PROVE  held' \in [Actors -> SUBSET Rows]
<1>1. s \in Actors /\ s # Reaper
  BY PersistTxAssumption DEF Actors
<1>2. Wanted(s) \subseteq Rows
  BY <1>1, WantsTyped DEF Wanted
<1>3. QED
  BY <1>1, <1>2 DEF Lock, TypeOK

\* A statement of a transaction writes row versions of the right type.
LEMMA DraftTyped ==
  ASSUME Typed, NEW s \in Submissions,
         UpdateProblem(s) \/ UpdateProgress(s) \/ InsertProgress(s) \/ UpdateStreak(s)
           \/ InsertStreak(s)
  PROVE  draft' \in Drafts
<1>1. /\ draft \in Drafts
      /\ total[problemOf[s]] \in Nat /\ accepted[problemOf[s]] \in Nat
      /\ attempts[Pair(s)] \in Nat /\ streak[owner[s]] \in Streaks /\ today[s] \in Nat
  BY RowsTyped DEF Typed, TypeOK, Drafts
<1>2. CASE UpdateProblem(s)
  <2> DEFINE m == total[problemOf[s]] + 1
             n == accepted[problemOf[s]] + (IF report[s] = "ACCEPTED" THEN 1 ELSE 0)
  <2>1. draft' = [draft EXCEPT ![s].total = m, ![s].accepted = n]
    BY <1>2 DEF UpdateProblem
  <2>2. m \in Nat /\ n \in Nat
    BY <1>1
  <2> HIDE DEF m, n
  <2>3. QED
    BY <1>1, <2>1, <2>2 DEF Drafts
<1>3. CASE UpdateProgress(s)
  <2> DEFINE m == attempts[Pair(s)] + 1
             b == report[s] = "ACCEPTED" \/ Pair(s) \in solved
  <2>1. draft' = [draft EXCEPT ![s].attempts = m, ![s].solved = b]
    BY <1>3 DEF UpdateProgress
  <2>2. m \in Nat /\ b \in BOOLEAN
    BY <1>1
  <2> HIDE DEF m, b
  <2>3. QED
    BY <1>1, <2>1, <2>2 DEF Drafts
<1>4. CASE InsertProgress(s)
  <2>1. draft' = draft
          \/ draft' = [draft EXCEPT ![s].attempts = 1, ![s].solved = report[s] = "ACCEPTED"]
    BY <1>4 DEF InsertProgress
  <2>2. QED
    BY <1>1, <2>1 DEF Drafts
<1>5. CASE UpdateStreak(s)
  <2>1. draft' = [draft EXCEPT ![s].streak = Extended(streak[owner[s]], today[s])]
    BY <1>5 DEF UpdateStreak
  <2>2. Extended(streak[owner[s]], today[s]) \in Streaks
    BY <1>1, ExtendedTyped
  <2>3. QED
    BY <1>1, <2>1, <2>2 DEF Drafts
<1>6. CASE InsertStreak(s)
  <2>1. \/ draft' = draft
        \/ draft' = [draft EXCEPT
             ![s].streak = [current |-> 1, longest |-> 1, last |-> today[s]]]
    BY <1>6 DEF InsertStreak
  <2>2. [current |-> 1, longest |-> 1, last |-> today[s]] \in Streaks
    BY <1>1 DEF Streaks
  <2>3. QED
    BY <1>1, <2>1, <2>2 DEF Drafts
<1>7. QED
  BY <1>2, <1>3, <1>4, <1>5, <1>6

\* A statement of a transaction preserves types.
LEMMA TransactionTyped ==
  ASSUME Typed, NEW s \in Submissions, Transaction(s)
  PROVE  Typed'
<1> USE ChecksListed DEF Typed, TypeOK, IndexTyped, committed, locals, reaperVars, Goto, Statements
<1>1. ASSUME NEW v \in Verdicts, Begin(s, v)
      PROVE  Typed'
  BY <1>1 DEF Begin
<1>2. CASE UpdateProblem(s)
  <2>1. draft' \in Drafts /\ held' \in [Actors -> SUBSET Rows]
    BY <1>2, DraftTyped, LockTyped DEF Transaction, UpdateProblem
  <2>2. QED
    BY <1>2, <2>1 DEF UpdateProblem, Drafts
<1>3. CASE UpdateProgress(s)
  <2>1. draft' \in Drafts /\ held' \in [Actors -> SUBSET Rows]
    BY <1>3, DraftTyped, LockTyped DEF Transaction, UpdateProgress
  <2>2. QED
    BY <1>3, <2>1 DEF UpdateProgress, Drafts, AfterProgress
<1>4. CASE NoProgressRow(s)
  BY <1>4 DEF NoProgressRow
<1>5. CASE InsertProgress(s)
  <2>1. draft' \in Drafts /\ held' \in [Actors -> SUBSET Rows]
    BY <1>5, DraftTyped, LockTyped DEF Transaction, InsertProgress
  <2>2. \E label \in Statements \ {"check", "commit"} : pc' = [pc EXCEPT ![s] = label]
    BY <1>5 DEF InsertProgress, AfterProgress
  <2>3. UNCHANGED <<committed, report, today, known, next, staged, reaperVars, day>>
    BY <1>5 DEF InsertProgress
  <2>4. pc[s] = "insert_progress"
    BY <1>5 DEF InsertProgress
  <2>5. QED
    BY <2>1, <2>2, <2>3, <2>4 DEF Drafts
<1>6. CASE FlushRow(s)
  BY <1>6, LockTyped DEF FlushRow
<1>7. CASE ReadClock(s)
  BY <1>7 DEF ReadClock
<1>8. CASE UpdateStreak(s)
  <2>1. draft' \in Drafts /\ held' \in [Actors -> SUBSET Rows]
    BY <1>8, DraftTyped, LockTyped DEF Transaction, UpdateStreak
  <2>2. QED
    BY <1>8, <2>1 DEF UpdateStreak, Drafts
<1>9. CASE NoStreakRow(s)
  BY <1>9 DEF NoStreakRow
<1>10. CASE InsertStreak(s)
  <2>1. draft' \in Drafts /\ held' \in [Actors -> SUBSET Rows]
    BY <1>10, DraftTyped, LockTyped DEF Transaction, InsertStreak
  <2>2. QED
    BY <1>10, <2>1, ZenonT(60) DEF InsertStreak, Drafts
<1>11. CASE ReadEarned(s)
  BY <1>11 DEF ReadEarned
<1>12. CASE Check(s)
  BY <1>12 DEF Check
<1>13. CASE InsertAchievement(s)
  BY <1>13, LockTyped, EndTyped, ZenonT(60) DEF InsertAchievement
<1>14. CASE Commit(s)
  <2>1. /\ status' \in [Submissions -> {"ABSENT", "RUNNING", "COMPLETED", "FAILED"}]
        /\ result' \in [Submissions -> Verdicts \union {NoVerdict}]
        /\ total' \in [Problems -> Nat]
        /\ accepted' \in [Problems -> Nat]
        /\ attempts' \in [Users \X Problems -> Nat]
        /\ solved' \in SUBSET (Users \X Problems)
        /\ streak' \in [Users -> Streaks]
        /\ earned' \in SUBSET (Users \X Achievements)
    BY <1>14, RowsTyped DEF Commit
  <2>2. EndTransaction(s, "done") /\ UNCHANGED <<reaperVars, day>>
    BY <1>14 DEF Commit
  <2>3. QED
    BY <2>1, <2>2, EndTyped
<1>15. CASE Fail(s)
  BY <1>15 DEF Fail
<1>16. CASE Abort(s) \/ DeadlockVictim(s)
  <2>1. EndTransaction(s, "failing") /\ UNCHANGED <<committed, reaperVars, day>>
    BY <1>16 DEF Abort, DeadlockVictim
  <2>2. QED
    BY <2>1, EndTyped
<1>17. QED
  BY <1>1, <1>2, <1>3, <1>4, <1>5, <1>6, <1>7, <1>8, <1>9, <1>10, <1>11, <1>12, <1>13,
     <1>14, <1>15, <1>16 DEF Transaction

\* The row that the reaper's UPDATE meets next is one of those it is about.
LEMMA ScanNextTyped ==
  ASSUME rids # {}
  PROVE  ScanNext \in rids
BY DEF ScanNext

\* The reaper and the calendar preserve types.
LEMMA ElsewhereTyped ==
  ASSUME Typed, ReaperTx \/ Midnight
  PROVE  Typed'
<1> USE DEF Typed, TypeOK, IndexTyped, committed, locals, reaperVars
<1>1. ASSUME NEW S \in SUBSET Submissions, ReapBegin(S)
      PROVE  Typed'
  BY <1>1 DEF ReapBegin
<1>2. CASE ReapRow
  <2>1. ScanNext \in Submissions
    BY <1>2, ScanNextTyped DEF ReapRow
  <2>2. Wanted(Reaper) \subseteq Rows /\ Reaper \in Actors
    BY <2>1, RowsTyped DEF Wanted, Actors
  <2>3. QED
    BY <1>2, <2>2, ZenonT(60) DEF ReapRow, Lock
<1>3. CASE ReapCommit
  BY <1>3 DEF ReapCommit, Actors
<1>4. CASE ReapVictim
  BY <1>4 DEF ReapVictim, Actors
<1>5. CASE Midnight
  BY <1>5, PersistTxAssumption, SMTT(30) DEF Midnight
<1>6. QED
  BY <1>1, <1>2, <1>3, <1>4, <1>5 DEF ReaperTx

-----------------------------------------------------------------------------
(* The inductive invariant                                                 *)

BeforeProgress == {"update_progress", "insert_progress"}
BeforeStreak == {"read_clock", "update_streak", "insert_streak"}
Checking == {"read_earned", "check", "commit"}
Statistics(s) == {ProblemRow(s), ProgressRow(s)}
StagedRows(s) == {AchievementRow(s, a) : a \in staged[s]}

\* What a transaction has locked follows from the statement it has come to.
Footprint(s) ==
  /\ pc[s] \in {"new", "update_problem", "failing", "done"} => held[s] = {}
  /\ pc[s] \in BeforeProgress =>
       ProblemRow(s) \in held[s] /\ held[s] \subseteq {Row(s), ProblemRow(s)}
  /\ pc[s] \in BeforeStreak =>
       /\ Statistics(s) \subseteq held[s]
       /\ held[s] \subseteq {Row(s)} \union Statistics(s)
       /\ report[s] = "ACCEPTED"
  /\ pc[s] \in Checking =>
       /\ Statistics(s) \subseteq held[s]
       /\ held[s] \subseteq {Row(s), StreakRow(s)} \union Statistics(s) \union StagedRows(s)
       /\ StreakRow(s) \in held[s] <=> report[s] = "ACCEPTED"
  /\ pc[s] \in {"read_earned", "check"} =>
       \A a \in Achievements : AchievementRow(s, a) \notin held[s]

\* The rows of user_achievements are locked in the order of CHECKS.
InOrder(s) ==
  \A i, j \in 1..4 : /\ i < j /\ CHECKS[i] \in staged[s]
                     /\ AchievementRow(s, CHECKS[j]) \in held[s]
                     => AchievementRow(s, CHECKS[i]) \in held[s]

\* A row is locked by one transaction at a time.
Exclusive == \A a, b \in Actors : a # b => held[a] \intersect held[b] = {}

\* The reaper locks rows that are still being judged.
Swept ==
  /\ held[Reaper] \subseteq {Row(s) : s \in {t \in Submissions : status[t] = "RUNNING"}}
  /\ rpc # "update" => held[Reaper] = {} /\ rids = {}

\* A stored report, a closed row and a finished transaction belong together.
RowState(s) ==
  /\ status[s] = "ABSENT" <=> pc[s] = "new"
  /\ pc[s] \in Statements <=> report[s] # NoVerdict
  /\ pc[s] # "done" => result[s] = NoVerdict
  /\ status[s] = "COMPLETED" <=> result[s] # NoVerdict

\* What a transaction has written continues what is committed: nobody else can have
\* written those rows since.
Continues(s) ==
  /\ pc[s] \in BeforeProgress \union BeforeStreak \union Checking =>
       /\ draft[s].total = total[problemOf[s]] + 1
       /\ draft[s].accepted =
            accepted[problemOf[s]] + (IF report[s] = "ACCEPTED" THEN 1 ELSE 0)
  /\ pc[s] \in BeforeStreak \union Checking =>
       /\ draft[s].attempts = attempts[Pair(s)] + 1
       /\ draft[s].solved <=> report[s] = "ACCEPTED" \/ Pair(s) \in solved
  /\ pc[s] \notin BeforeStreak \union Checking => ~draft[s].solved

\* A solved problem has been attempted.
SolvedAttempted ==
  \A x \in solved : attempts[x] > 0 /\ \E s \in Submissions : x = Pair(s)

\* The days of a streak, up to the last one it counts, have come.
Possible(st) == /\ st.current <= st.longest /\ st.current <= st.last
                /\ st.longest <= day /\ st.last <= day

StreaksPossible ==
  /\ \A u \in Users : Possible(streak[u])
  /\ \A s \in Submissions :
       /\ today[s] <= day
       /\ pc[s] \in {"update_streak", "insert_streak"} => today[s] > 0
       /\ StreakRow(s) \in held[s] =>
            /\ Possible(draft[s].streak)
            /\ streak[owner[s]].longest <= draft[s].streak.longest

\* An achievement is staged because a check has just seen its goal reached; that is
\* still true of what the transaction sees.
StagedSeen == \A s \in Submissions : \A a \in staged[s] : SeesReached(s, a)

LocksKept ==
  /\ Typed
  /\ \A s \in Submissions : Footprint(s) /\ InOrder(s) /\ RowState(s)
  /\ Exclusive /\ Swept

IInv ==
  /\ LocksKept
  /\ \A s \in Submissions : Continues(s)
  /\ SolvedAttempted /\ StreaksPossible /\ StagedSeen /\ EarnedIsReached

-----------------------------------------------------------------------------
(* What a step touches                                                     *)

\* A lock adds the rows wanted to those of its owner, and leaves the others alone.
LEMMA LockEffect ==
  ASSUME Typed, NEW s \in Submissions, Lock(s)
  PROVE  /\ held'[s] = held[s] \union Wants(s)
         /\ \A a \in Actors \ {s} : held'[a] = held[a]
<1>1. s \in Actors /\ s # Reaper
  BY PersistTxAssumption DEF Actors
<1>2. QED
  BY <1>1 DEF Lock, Wanted, Typed, TypeOK

\* What is left of a transaction that ends.
LEMMA EndEffect ==
  ASSUME Typed, NEW s \in Submissions, NEW label, EndTransaction(s, label)
  PROVE  /\ pc'[s] = label /\ held'[s] = {} /\ draft'[s] = NoDraft
         /\ report'[s] = NoVerdict /\ today'[s] = 0 /\ staged'[s] = {}
         /\ \A a \in Actors \ {s} : held'[a] = held[a]
         /\ \A t \in Submissions \ {s} :
              /\ pc'[t] = pc[t] /\ draft'[t] = draft[t] /\ report'[t] = report[t]
              /\ today'[t] = today[t] /\ staged'[t] = staged[t]
<1>1. s \in Actors
  BY DEF Actors
<1>2. QED
  BY <1>1 DEF EndTransaction, Goto, Typed, TypeOK

\* A transaction leaves the locals, the locks and the row of every other one alone,
\* and the reaper and the calendar too.
LEMMA OthersAlone ==
  ASSUME Typed, NEW s \in Submissions, Transaction(s)
  PROVE  /\ \A a \in Actors \ {s} : held'[a] = held[a]
         /\ \A t \in Submissions \ {s} :
              /\ pc'[t] = pc[t] /\ draft'[t] = draft[t] /\ report'[t] = report[t]
              /\ today'[t] = today[t] /\ staged'[t] = staged[t]
              /\ status'[t] = status[t] /\ result'[t] = result[t]
         /\ UNCHANGED <<rids, rpc, day>>
<1> USE DEF Goto, committed, locals, reaperVars
<1>1. CASE \E v \in Verdicts : Begin(s, v)
  BY <1>1 DEF Begin, Typed, TypeOK
<1>2. CASE UpdateProblem(s)
  BY <1>2, LockEffect DEF UpdateProblem, Typed, TypeOK
<1>3. CASE UpdateProgress(s)
  BY <1>3, LockEffect DEF UpdateProgress, Typed, TypeOK
<1>4. CASE InsertProgress(s)
  BY <1>4, LockEffect DEF InsertProgress, Typed, TypeOK
<1>5. CASE UpdateStreak(s)
  BY <1>5, LockEffect DEF UpdateStreak, Typed, TypeOK
<1>6. CASE InsertStreak(s)
  BY <1>6, LockEffect DEF InsertStreak, Typed, TypeOK
<1>7. CASE NoProgressRow(s) \/ NoStreakRow(s) \/ ReadClock(s) \/ ReadEarned(s) \/ Check(s)
  BY <1>7, SMTT(30) DEF NoProgressRow, NoStreakRow, ReadClock, ReadEarned, Check, Typed, TypeOK
<1>8. CASE FlushRow(s)
  BY <1>8, LockEffect DEF FlushRow, Typed, TypeOK
<1>9. CASE InsertAchievement(s)
  BY <1>9, LockEffect, EndEffect DEF InsertAchievement
<1>10. CASE Commit(s)
  <2>1. EndTransaction(s, "done") /\ UNCHANGED <<rids, rpc, day>>
    BY <1>10 DEF Commit
  <2>2. \A t \in Submissions \ {s} : status'[t] = status[t] /\ result'[t] = result[t]
    BY <1>10 DEF Commit, Typed, TypeOK
  <2>3. QED
    BY <2>1, <2>2, EndEffect
<1>11. CASE Fail(s)
  BY <1>11 DEF Fail, Typed, TypeOK
<1>12. CASE Abort(s) \/ DeadlockVictim(s)
  BY <1>12, EndEffect DEF Abort, DeadlockVictim
<1>13. QED
  BY <1>1, <1>2, <1>3, <1>4, <1>5, <1>6, <1>7, <1>8, <1>9, <1>10, <1>11, <1>12 DEF Transaction

\* Nobody holds a row that was granted.
LEMMA GrantedFree ==
  ASSUME NEW s \in Submissions, Granted(s), NEW a \in Actors \ {s}
  PROVE  Wants(s) \intersect held[a] = {}
BY PersistTxAssumption DEF Granted, Blocks, Wanted

\* The achievement that is inserted next is the first one staged and not yet held.
LEMMA NextStagedFirst ==
  ASSUME Typed, NEW s \in Submissions, NEW i \in 1..4, CHECKS[i] \in NextStaged(s)
  PROVE  /\ NextStaged(s) = {CHECKS[i]}
         /\ CHECKS[i] \in staged[s] /\ AchievementRow(s, CHECKS[i]) \notin held[s]
         /\ \A k \in 1..4 : k < i /\ CHECKS[k] \in staged[s]
                              => AchievementRow(s, CHECKS[k]) \in held[s]
<1> DEFINE waiting == {k \in 1..Len(CHECKS) : /\ CHECKS[k] \in staged[s]
                                              /\ AchievementRow(s, CHECKS[k]) \notin held[s]}
<1>1. PICK j \in waiting : CHECKS[i] = CHECKS[j] /\ \A k \in waiting : j <= k
  BY DEF NextStaged
<1>2. j = i
  BY <1>1, ChecksListed
<1>3. \A x \in NextStaged(s) : x = CHECKS[i]
  <2>1. SUFFICES ASSUME NEW k \in waiting, \A m \in waiting : k <= m
                 PROVE  k = i
    BY DEF NextStaged
  <2>2. QED
    BY <1>1, <1>2, <2>1
<1>4. QED
  BY <1>1, <1>2, <1>3, ChecksListed

\* Whatever a transaction wants at its commit is an achievement it has staged or its
\* own row.
LEMMA WantsAtCommit ==
  ASSUME NEW s \in Submissions, pc[s] = "commit"
  PROVE  /\ Wants(s) \subseteq {Row(s)} \union StagedRows(s)
         /\ NextStaged(s) # {} => Wants(s) = {AchievementRow(s, a) : a \in NextStaged(s)}
         /\ NextStaged(s) = {} => Wants(s) = {Row(s)} \ held[s]
<1>1. {AchievementRow(s, a) : a \in NextStaged(s)} \subseteq StagedRows(s)
  BY NextStagedTyped DEF StagedRows
<1>2. QED
  BY <1>1 DEF Wants

-----------------------------------------------------------------------------
(* Locks follow the statements                                             *)

\* A statement keeps its transaction's locks what the statement it comes to says.
LEMMA FootprintKept ==
  ASSUME Typed, NEW s \in Submissions, Footprint(s), RowState(s), Transaction(s)
  PROVE  Footprint(s)'
<1> USE DEF Goto, committed, locals, reaperVars, BeforeProgress, BeforeStreak, Checking, Footprint
<1>1. CASE \E v \in Verdicts : Begin(s, v)
  BY <1>1 DEF Begin, Typed, TypeOK
<1>2. CASE UpdateProblem(s)
  <2>1. held'[s] = {ProblemRow(s)}
    BY <1>2, LockEffect DEF UpdateProblem, Wants
  <2>2. pc'[s] = "update_progress"
    BY <1>2 DEF UpdateProblem, Typed, TypeOK
  <2>3. QED
    BY <2>1, <2>2
<1>3. CASE UpdateProgress(s)
  <2>1. held'[s] = held[s] \union {ProgressRow(s)}
    BY <1>3, LockEffect DEF UpdateProgress, Wants
  <2>2. pc'[s] = AfterProgress(s) /\ report'[s] = report[s]
    BY <1>3 DEF UpdateProgress, Typed, TypeOK
  <2>3. Statistics(s) \subseteq held'[s] /\ held'[s] \subseteq {Row(s)} \union Statistics(s)
    BY <1>3, <2>1 DEF UpdateProgress, Statistics
  <2>4. QED
    BY <2>2, <2>3, RowsDistinct DEF AfterProgress, Statistics
<1>4. CASE NoProgressRow(s)
  BY <1>4 DEF NoProgressRow, Typed, TypeOK
<1>5. CASE InsertProgress(s)
  <2>1. CASE attempts[Pair(s)] = 0
    <3>1. held'[s] = held[s] \union {ProgressRow(s)}
      BY <1>5, <2>1, LockEffect DEF InsertProgress, Wants
    <3>2. pc'[s] = AfterProgress(s) /\ report'[s] = report[s]
      BY <1>5, <2>1 DEF InsertProgress, Typed, TypeOK
    <3>3. Statistics(s) \subseteq held'[s] /\ held'[s] \subseteq {Row(s)} \union Statistics(s)
      BY <1>5, <3>1 DEF InsertProgress, Statistics
    <3>4. QED
      BY <3>2, <3>3, RowsDistinct DEF AfterProgress, Statistics
  <2>2. CASE attempts[Pair(s)] # 0
    BY <1>5, <2>2 DEF InsertProgress, Typed, TypeOK
  <2>3. QED
    BY <2>1, <2>2
<1>6. CASE FlushRow(s)
  <2>1. held'[s] = held[s] \union {Row(s)}
    BY <1>6, LockEffect DEF FlushRow
  <2>2. UNCHANGED <<pc, report, staged>> /\ pc[s] \in {"insert_progress", "insert_streak", "commit"}
    BY <1>6 DEF FlushRow
  <2>3. QED
    BY <2>1, <2>2, RowsDistinct DEF Statistics, StagedRows
<1>7. CASE ReadClock(s)
  BY <1>7 DEF ReadClock, Typed, TypeOK
<1>8. CASE UpdateStreak(s)
  <2>1. held'[s] = held[s] \union {StreakRow(s)}
    BY <1>8, LockEffect DEF UpdateStreak, Wants
  <2>2. pc'[s] = "read_earned" /\ report'[s] = report[s] /\ report[s] = "ACCEPTED"
    BY <1>8 DEF UpdateStreak, Typed, TypeOK
  <2>3. Statistics(s) \subseteq held[s] /\ held[s] \subseteq {Row(s)} \union Statistics(s)
    BY <1>8 DEF UpdateStreak
  <2>4. QED
    BY <2>1, <2>2, <2>3, RowsDistinct DEF Statistics
<1>9. CASE NoStreakRow(s)
  BY <1>9 DEF NoStreakRow, Typed, TypeOK
<1>10. CASE InsertStreak(s)
  <2>1. CASE streak[owner[s]] = NoStreak
    <3>1. held'[s] = held[s] \union {StreakRow(s)}
      BY <1>10, <2>1, LockEffect DEF InsertStreak, Wants
    <3>2. pc'[s] = "read_earned" /\ report'[s] = report[s] /\ report[s] = "ACCEPTED"
      BY <1>10, <2>1 DEF InsertStreak, Typed, TypeOK
    <3>3. Statistics(s) \subseteq held[s] /\ held[s] \subseteq {Row(s)} \union Statistics(s)
      BY <1>10 DEF InsertStreak
    <3>4. QED
      BY <3>1, <3>2, <3>3, RowsDistinct DEF Statistics
  <2>2. CASE streak[owner[s]] # NoStreak
    BY <1>10, <2>2 DEF InsertStreak, Typed, TypeOK
  <2>3. QED
    BY <2>1, <2>2
<1>11. CASE ReadEarned(s)
  <2>1. UNCHANGED <<held, report, staged>> /\ pc[s] = "read_earned" /\ pc'[s] = "check"
    BY <1>11 DEF ReadEarned, Typed, TypeOK
  <2>2. QED
    BY <2>1 DEF StagedRows
<1>12. CASE Check(s)
  <2>1. UNCHANGED <<held, report>> /\ pc[s] = "check" /\ pc'[s] \in {"check", "commit"}
    BY <1>12 DEF Check, Typed, TypeOK
  <2>2. staged[s] \subseteq staged'[s]
    BY <1>12 DEF Check, Typed, TypeOK
  <2>3. StagedRows(s) \subseteq StagedRows(s)'
    BY <2>2 DEF StagedRows
  <2>4. QED
    BY <2>1, <2>3 
<1>13. CASE InsertAchievement(s)
  <2>1. CASE EndTransaction(s, "failing")
    BY <2>1, EndEffect
  <2>2. CASE Lock(s) /\ UNCHANGED <<pc, locals>>
    <3>1. pc[s] = "commit" /\ held'[s] = held[s] \union Wants(s)
      BY <1>13, <2>2, LockEffect DEF InsertAchievement
    <3>2. Wants(s) \subseteq {Row(s)} \union StagedRows(s)
      BY <3>1, WantsAtCommit
    <3>3. StreakRow(s) \notin Wants(s)
      BY <3>2, RowsDistinct DEF StagedRows
    <3>4. QED
      BY <2>2, <3>1, <3>2, <3>3 DEF StagedRows
  <2>3. QED
    BY <1>13, <2>1, <2>2 DEF InsertAchievement
<1>14. CASE Commit(s)
  BY <1>14, EndEffect DEF Commit
<1>15. CASE Fail(s)
  BY <1>15 DEF Fail, Typed, TypeOK
<1>16. CASE Abort(s) \/ DeadlockVictim(s)
  BY <1>16, EndEffect DEF Abort, DeadlockVictim
<1>17. QED
  BY <1>1, <1>2, <1>3, <1>4, <1>5, <1>6, <1>7, <1>8, <1>9, <1>10, <1>11, <1>12, <1>13,
     <1>14, <1>15, <1>16 DEF Transaction

\* A transaction gains the rows it wanted, granted to it, or gains none.
LEMMA GainsGranted ==
  ASSUME Typed, NEW s \in Submissions, Transaction(s)
  PROVE  \/ held'[s] \subseteq held[s]
         \/ Granted(s) /\ held'[s] = held[s] \union Wants(s)
<1> USE LockEffect DEF Goto, locals
<1>1. CASE UpdateProblem(s) \/ UpdateProgress(s) \/ UpdateStreak(s) \/ FlushRow(s)
  BY <1>1 DEF UpdateProblem, UpdateProgress, UpdateStreak, FlushRow
<1>2. CASE InsertProgress(s) \/ InsertStreak(s)
  BY <1>2 DEF InsertProgress, InsertStreak
<1>3. CASE InsertAchievement(s)
  BY <1>3, EndEffect DEF InsertAchievement
<1>4. CASE \E v \in Verdicts : Begin(s, v)
  BY <1>4 DEF Begin
<1>5. CASE \/ NoProgressRow(s) \/ NoStreakRow(s) \/ ReadClock(s)
           \/ ReadEarned(s) \/ Check(s) \/ Fail(s)
  BY <1>5 DEF NoProgressRow, NoStreakRow, ReadClock, ReadEarned, Check, Fail
<1>6. CASE Commit(s) \/ Abort(s) \/ DeadlockVictim(s)
  BY <1>6, EndEffect DEF Commit, Abort, DeadlockVictim
<1>7. QED
  BY <1>1, <1>2, <1>3, <1>4, <1>5, <1>6 DEF Transaction

\* No row is locked by two transactions after a statement of one of them.
LEMMA ExclusiveKept ==
  ASSUME Typed, Exclusive, NEW s \in Submissions, Transaction(s)
  PROVE  Exclusive'
<1>1. s \in Actors
  BY DEF Actors
<1>2. \A a \in Actors \ {s} : held'[a] = held[a]
  BY OthersAlone
<1>3. \A a \in Actors \ {s} : held'[s] \intersect held[a] = {}
  BY <1>1, GainsGranted, GrantedFree DEF Exclusive
<1>4. QED
  BY <1>1, <1>2, <1>3 DEF Exclusive

\* Achievements are inserted in the order of CHECKS.
LEMMA InOrderKept ==
  ASSUME Typed, NEW s \in Submissions, Footprint(s), Footprint(s)', InOrder(s), Transaction(s)
  PROVE  InOrder(s)'
<1>1. CASE pc'[s] # "commit"
  <2>1. \A a \in Achievements : AchievementRow(s, a) \notin held'[s]
    <3>1. pc'[s] \in {"new", "update_problem", "failing", "done", "read_earned", "check"}
                       \union BeforeProgress \union BeforeStreak
      BY <1>1, TransactionTyped
      DEF Typed, TypeOK, Statements, BeforeProgress, BeforeStreak
    <3>2. QED
      BY <3>1, RowsDistinct DEF Footprint, Statistics
  <2>2. QED
    BY <2>1, ChecksListed DEF InOrder, AchievementRow
<1>2. CASE pc'[s] = "commit"
  <2>1. pc[s] \in {"check", "commit"}
    <3>1. CASE Check(s) \/ FlushRow(s) \/ InsertAchievement(s)
      BY <1>2, <3>1 DEF Check, FlushRow, InsertAchievement
    <3>2. CASE \/ Commit(s) \/ Abort(s) \/ DeadlockVictim(s) \/ Fail(s)
               \/ \E v \in Verdicts : Begin(s, v)
      <4>1. pc'[s] \in {"done", "failing", "update_problem"}
        BY <3>2, EndEffect
        DEF Commit, Abort, DeadlockVictim, Fail, Begin, Goto, Typed, TypeOK
      <4>2. QED
        BY <1>2, <4>1
    <3>3. CASE UpdateProblem(s) \/ UpdateProgress(s) \/ NoProgressRow(s) \/ InsertProgress(s)
      BY <1>2, <3>3
      DEF UpdateProblem, UpdateProgress, NoProgressRow, InsertProgress, AfterProgress, Goto,
          Typed, TypeOK
    <3>4. CASE \/ ReadClock(s) \/ UpdateStreak(s) \/ NoStreakRow(s) \/ InsertStreak(s)
               \/ ReadEarned(s)
      BY <1>2, <3>4
      DEF ReadClock, UpdateStreak, NoStreakRow, InsertStreak, ReadEarned, Goto, Typed, TypeOK
    <3>5. QED
      BY <3>1, <3>2, <3>3, <3>4 DEF Transaction
  <2>2. CASE pc[s] = "check"
    <3>1. Check(s)
      BY <1>2, <2>2, EndEffect
      DEF Transaction, Begin, UpdateProblem, UpdateProgress, NoProgressRow, InsertProgress,
          FlushRow,
          ReadClock, UpdateStreak, NoStreakRow, InsertStreak, ReadEarned, 
          InsertAchievement, Commit, Fail, Abort, DeadlockVictim
    <3>2. \A a \in Achievements : AchievementRow(s, a) \notin held'[s]
      BY <2>2, <3>1 DEF Check, Footprint
    <3>3. QED
      BY <3>2, ChecksListed DEF InOrder, AchievementRow
  <2>3. CASE pc[s] = "commit"
    <3>1. FlushRow(s) \/ InsertAchievement(s)
      BY <1>2, <2>3, EndEffect
      DEF Transaction, Begin, UpdateProblem, UpdateProgress, NoProgressRow, InsertProgress, 
          ReadClock, UpdateStreak, NoStreakRow, InsertStreak, ReadEarned, Check,
          Commit, Fail, Abort, DeadlockVictim
    <3>2. staged' = staged /\ Lock(s)
      BY <1>2, <3>1, EndEffect DEF FlushRow, InsertAchievement, locals
    <3>3. held'[s] = held[s] \union Wants(s)
      BY <3>2, LockEffect
    <3>4. SUFFICES ASSUME NEW i \in 1..4, NEW j \in 1..4, i < j, CHECKS[i] \in staged[s],
                          AchievementRow(s, CHECKS[j]) \in held'[s]
                   PROVE  AchievementRow(s, CHECKS[i]) \in held'[s]
      BY <3>2 DEF InOrder, AchievementRow
    <3>5. CASE AchievementRow(s, CHECKS[j]) \in held[s]
      BY <3>3, <3>4, <3>5 DEF InOrder
    <3>6. CASE AchievementRow(s, CHECKS[j]) \in Wants(s)
      <4>1. NextStaged(s) # {} /\ CHECKS[j] \in NextStaged(s)
        BY <2>3, <3>6, WantsAtCommit, RowsDistinct
      <4>2. QED
        BY <3>3, <3>4, <4>1, NextStagedFirst
    <3>7. QED
      BY <3>3, <3>4, <3>5, <3>6
  <2>4. QED
    BY <2>1, <2>2, <2>3
<1>3. QED
  BY <1>1, <1>2

\* A statement leaves status, report and stored result of its submission in step.
LEMMA RowStateKept ==
  ASSUME Typed, NEW s \in Submissions, RowState(s), Transaction(s)
  PROVE  RowState(s)'
<1> USE DEF RowState, Goto, committed, locals, Statements, Verdicts, NoVerdict
<1>1. CASE \E v \in Verdicts : Begin(s, v)
  BY <1>1 DEF Begin, Typed, TypeOK
<1>2. CASE UpdateProblem(s)
  BY <1>2 DEF UpdateProblem, Typed, TypeOK
<1>3. CASE UpdateProgress(s) \/ InsertProgress(s)
  BY <1>3 DEF UpdateProgress, InsertProgress, AfterProgress, Typed, TypeOK
<1>4. CASE UpdateStreak(s) \/ InsertStreak(s)
  BY <1>4 DEF UpdateStreak, InsertStreak, Typed, TypeOK
<1>5. CASE NoProgressRow(s) \/ NoStreakRow(s) \/ FlushRow(s) \/ ReadClock(s) \/ ReadEarned(s)
  BY <1>5 DEF NoProgressRow, NoStreakRow, FlushRow, ReadClock, ReadEarned, Typed, TypeOK
<1>6. CASE Check(s)
  BY <1>6 DEF Check, Typed, TypeOK
<1>7. CASE InsertAchievement(s)
  BY <1>7, EndEffect DEF InsertAchievement
<1>8. CASE Commit(s)
  <2>1. pc'[s] = "done" /\ report'[s] = NoVerdict
    BY <1>8, EndEffect DEF Commit
  <2>2. status'[s] = "COMPLETED" /\ result'[s] = report[s] /\ pc[s] = "commit"
    BY <1>8 DEF Commit, Typed, TypeOK
  <2>3. QED
    BY <2>1, <2>2
<1>9. CASE Fail(s)
  BY <1>9 DEF Fail, Typed, TypeOK
<1>10. CASE Abort(s) \/ DeadlockVictim(s)
  BY <1>10, EndEffect DEF Abort, DeadlockVictim
<1>11. QED
  BY <1>1, <1>2, <1>3, <1>4, <1>5, <1>6, <1>7, <1>8, <1>9, <1>10 DEF Transaction

\* The reaper never holds a row whose transaction has closed it.
LEMMA SweptKept ==
  ASSUME Typed, Exclusive, Swept, NEW s \in Submissions, RowState(s), Transaction(s)
  PROVE  Swept'
<1>1. /\ \A t \in Submissions \ {s} : status'[t] = status[t]
      /\ UNCHANGED <<rids, rpc>>
  BY OthersAlone
<1>2. held'[Reaper] = held[Reaper]
  BY OthersAlone, PersistTxAssumption DEF Actors
<1>3. CASE Commit(s)
  <2>1. Row(s) \in held[s]
    <3>1. pc[s] = "commit" /\ Wants(s) = {}
      BY <1>3 DEF Commit
    <3>2. NextStaged(s) = {}
      BY <3>1, WantsAtCommit
    <3>3. QED
      BY <3>1, <3>2, WantsAtCommit
  <2>2. Row(s) \notin held[Reaper]
    BY <2>1, PersistTxAssumption DEF Exclusive, Actors
  <2>3. QED
    BY <1>1, <1>2, <2>2, RowsDistinct DEF Swept
<1>4. CASE Fail(s)
  <2>1. Row(s) \notin held[Reaper]
    BY <1>4, GrantedFree, PersistTxAssumption DEF Fail, Wants, Actors
  <2>2. QED
    BY <1>1, <1>2, <2>1, RowsDistinct DEF Swept
<1>5. CASE ~Commit(s) /\ ~Fail(s)
  <2>1. status'[s] = status[s] \/ status'[s] = "RUNNING"
    BY <1>5, EndEffect
    DEF Transaction, Begin, UpdateProblem, UpdateProgress, NoProgressRow, InsertProgress, FlushRow,
        ReadClock, UpdateStreak, NoStreakRow, InsertStreak, ReadEarned, Check,
        InsertAchievement, Abort, DeadlockVictim, committed, Typed, TypeOK
  <2>2. QED
    BY <1>1, <1>2, <2>1 DEF Swept
<1>6. QED
  BY <1>3, <1>4, <1>5

\* A statement of one transaction keeps all locks in order.
LEMMA TransactionLocks ==
  ASSUME LocksKept, NEW s \in Submissions, Transaction(s)
  PROVE  LocksKept'
<1>1. Typed'
  BY TransactionTyped DEF LocksKept
<1>2. Footprint(s)' /\ RowState(s)'
  BY FootprintKept, RowStateKept DEF LocksKept
<1>3. InOrder(s)'
  BY <1>2, InOrderKept DEF LocksKept
<1>4. ASSUME NEW t \in Submissions \ {s}
      PROVE  Footprint(t)' /\ InOrder(t)' /\ RowState(t)'
  <2>1. /\ pc'[t] = pc[t] /\ report'[t] = report[t] /\ staged'[t] = staged[t]
        /\ status'[t] = status[t] /\ result'[t] = result[t] /\ held'[t] = held[t]
    BY OthersAlone, <1>4 DEF LocksKept, Actors
  <2>2. Footprint(t) /\ InOrder(t) /\ RowState(t)
    BY DEF LocksKept
  <2>3. Footprint(t)'
    BY <2>1, <2>2 DEF Footprint, StagedRows
  <2>4. InOrder(t)' /\ RowState(t)'
    BY <2>1, <2>2 DEF InOrder, RowState
  <2>5. QED
    BY <2>3, <2>4
<1>5. Exclusive' /\ Swept'
  BY ExclusiveKept, SweptKept DEF LocksKept
<1>6. QED
  BY <1>1, <1>2, <1>3, <1>4, <1>5 DEF LocksKept

\* The reaper locks only rows that nobody else holds and that are still RUNNING, so it
\* keeps all locks in order too.
LEMMA ElsewhereLocks ==
  ASSUME LocksKept, ReaperTx \/ Midnight
  PROVE  LocksKept'
<1> Typed /\ Exclusive /\ Swept
  BY DEF LocksKept
<1>1. Typed'
  BY ElsewhereTyped
<1>2. UNCHANGED <<pc, locals, result>>
  BY DEF ReaperTx, Midnight, ReapBegin, ReapRow, ReapCommit, ReapVictim, committed
<1>3. \A s \in Submissions : held'[s] = held[s]
  BY PersistTxAssumption
  DEF ReaperTx, Midnight, ReapBegin, ReapRow, Lock, ReapCommit, ReapVictim, Typed, TypeOK, Actors
<1>4. Swept' /\ Exclusive' /\ \A s \in Submissions : status'[s] # status[s] =>
                                   status[s] = "RUNNING" /\ status'[s] = "FAILED"
  <2>1. CASE ReapRow
    <3>1. ScanNext \in Submissions /\ rpc = "update" /\ rids # {}
      BY <2>1, ScanNextTyped DEF ReapRow, Swept, Typed, TypeOK
    <3>2. CASE status[ScanNext] = "RUNNING"
      <4>1. held' = [held EXCEPT ![Reaper] = @ \union {Row(ScanNext)}]
        BY <2>1, <3>1, <3>2 DEF ReapRow, Lock, Wanted
      <4>2. \A a \in Actors \ {Reaper} : Row(ScanNext) \notin held[a]
        BY <2>1, <3>1 DEF ReapRow, Granted, Blocks, Wanted
      <4>3. UNCHANGED <<status, rpc>>
        BY <2>1 DEF ReapRow, committed
      <4>4. held'[Reaper] = held[Reaper] \union {Row(ScanNext)}
            /\ \A a \in Actors \ {Reaper} : held'[a] = held[a]
        BY <4>1 DEF Typed, TypeOK, Actors
      <4>5. Swept'
        BY <3>1, <3>2, <4>3, <4>4 DEF Swept
      <4>6. Exclusive'
        BY <4>2, <4>4 DEF Exclusive
      <4>7. QED
        BY <4>3, <4>5, <4>6
    <3>3. CASE status[ScanNext] # "RUNNING"
      BY <2>1, <3>1, <3>3 DEF ReapRow, committed, Swept, Exclusive
    <3>4. QED
      BY <3>2, <3>3
  <2>2. CASE ReapCommit \/ ReapVictim
    <3>1. held'[Reaper] = {} /\ rids' = {} /\ \A a \in Actors \ {Reaper} : held'[a] = held[a]
      BY <2>2 DEF ReapCommit, ReapVictim, Typed, TypeOK, Actors
    <3>2. \A s \in Submissions : status'[s] # status[s] =>
                                   status[s] = "RUNNING" /\ status'[s] = "FAILED"
      <4>1. \A s \in Submissions : Row(s) \in held[Reaper] => status[s] = "RUNNING"
        BY RowsDistinct DEF Swept
      <4>2. QED
        BY <2>2, <4>1 DEF ReapCommit, ReapVictim, committed
    <3>3. Swept'
      BY <3>1 DEF Swept
    <3>4. Exclusive'
      BY <3>1 DEF Exclusive
    <3>5. QED
      BY <3>2, <3>3, <3>4
  <2>3. CASE Midnight \/ \E S \in SUBSET Submissions : ReapBegin(S)
    BY <2>3 DEF Midnight, ReapBegin, committed, reaperVars, Swept, Exclusive
  <2>4. QED
    BY <2>1, <2>2, <2>3 DEF ReaperTx
<1>5. ASSUME NEW s \in Submissions
      PROVE  Footprint(s)' /\ InOrder(s)' /\ RowState(s)'
  <2>1. Footprint(s) /\ InOrder(s) /\ RowState(s)
    BY DEF LocksKept
  <2>2. pc' = pc /\ report' = report /\ staged' = staged /\ held'[s] = held[s] /\ result' = result
    BY <1>2, <1>3 DEF locals
  <2>3. Footprint(s)' /\ InOrder(s)'
    BY <2>1, <2>2 DEF Footprint, InOrder, StagedRows
  <2>4. RowState(s)'
    BY <1>4, <2>1, <2>2 DEF RowState
  <2>5. QED
    BY <2>3, <2>4
<1>6. QED
  BY <1>1, <1>4, <1>5 DEF LocksKept

-----------------------------------------------------------------------------
(* Deadlocks                                                               *)

\* How far a transaction that waits has come in the common order of rows: problem,
\* progress, streak, achievements as in CHECKS.
Level(s) ==
  CASE pc[s] = "update_problem" -> 1
    [] pc[s] \in BeforeProgress -> 2
    [] pc[s] \in BeforeStreak -> 3
    [] OTHER -> 3 + (CHOOSE i \in 1..4 : CHECKS[i] \in NextStaged(s))

\* What a transaction waits for while another one of _persist holds it: never its own
\* submission, which only it and the reaper lock.
LEMMA BlockedFor ==
  ASSUME LocksKept, NEW a \in Submissions, NEW b \in Submissions, Blocks(a, b)
  PROVE  \/ pc[b] = "update_problem" /\ ProblemRow(b) \in held[a]
         \/ pc[b] \in BeforeProgress /\ ProgressRow(b) \in held[a]
         \/ pc[b] \in BeforeStreak /\ StreakRow(b) \in held[a]
         \/ /\ pc[b] = "commit"
            /\ \E i \in 1..4 : /\ CHECKS[i] \in NextStaged(b)
                               /\ AchievementRow(b, CHECKS[i]) \in held[a]
<1>1. a # b /\ Wants(b) \intersect held[a] # {}
  BY PersistTxAssumption DEF Blocks, Wanted
<1>2. Row(b) \notin held[a]
  <2>1. held[a] \subseteq {Row(a), StreakRow(a)} \union Statistics(a) \union StagedRows(a)
    BY DEF LocksKept, Typed, TypeOK, Footprint, Statements, BeforeProgress, BeforeStreak,
           Checking, Statistics
  <2>2. QED
    <3>1. Row(b) \notin StagedRows(a)
      BY RowsDistinct DEF StagedRows
    <3>2. Row(b) \notin {Row(a), StreakRow(a)} \union Statistics(a)
      BY <1>1, RowsDistinct DEF Statistics
    <3>3. QED
      BY <2>1, <3>1, <3>2
<1>3. CASE pc[b] = "commit"
  <2>1. NextStaged(b) # {}
    BY <1>1, <1>2, <1>3, WantsAtCommit
  <2>2. PICK x \in NextStaged(b) : AchievementRow(b, x) \in held[a]
    BY <1>1, <1>3, <2>1, WantsAtCommit
  <2>3. \E i \in 1..4 : x = CHECKS[i]
    BY NextStagedTyped, ChecksListed
  <2>4. QED
    BY <1>3, <2>2, <2>3
<1>4. CASE pc[b] # "commit"
  BY <1>1, <1>2, <1>4 DEF Wants, BeforeProgress, BeforeStreak
<1>5. QED
  BY <1>3, <1>4

\* Whoever holds what another one waits for and itself waits has come further.
LEMMA WaitsUpward ==
  ASSUME LocksKept, NEW a \in Submissions, NEW b \in Submissions, NEW c \in Submissions,
         Blocks(a, b), Blocks(c, a)
  PROVE  Level(a) \in 1..7 /\ Level(b) \in 1..7 /\ Level(b) < Level(a)
<1> USE DEF BeforeProgress, BeforeStreak
<1>1. ASSUME NEW s \in Submissions, NEW i \in 1..4, pc[s] = "commit", CHECKS[i] \in NextStaged(s)
      PROVE  Level(s) = 3 + i
  <2>1. \A j \in 1..4 : CHECKS[j] \in NextStaged(s) => j = i
    BY <1>1, NextStagedFirst, ChecksListed DEF LocksKept
  <2>2. QED
    BY <1>1, <2>1 DEF Level
<1>2. ASSUME NEW s \in Submissions, NEW t \in Submissions, Blocks(t, s)
      PROVE  /\ Level(s) \in 1..7
             /\ pc[s] \notin BeforeProgress \union {"update_problem"} => Level(s) >= 3
             /\ pc[s] # "update_problem" => Level(s) >= 2
             /\ pc[s] = "commit" => Level(s) >= 4
             /\ pc[s] \in BeforeProgress \union BeforeStreak \union {"update_problem", "commit"}
  BY <1>1, <1>2, BlockedFor DEF Level
<1>3. Footprint(a) /\ InOrder(a) /\ Typed
  BY DEF LocksKept
<1>4. CASE pc[b] = "update_problem" /\ ProblemRow(b) \in held[a]
  BY <1>2, <1>3, <1>4 DEF Footprint, Level
<1>5. CASE pc[b] \in BeforeProgress /\ ProgressRow(b) \in held[a]
  <2>1. pc[a] \notin BeforeProgress \union {"update_problem"}
    BY <1>3, <1>5, RowsDistinct DEF Footprint
  <2>2. Level(b) = 2
    BY <1>5 DEF Level
  <2>3. QED
    BY <1>2, <2>1, <2>2
<1>6. CASE pc[b] \in BeforeStreak /\ StreakRow(b) \in held[a]
  <2>1. pc[a] \notin BeforeProgress \union BeforeStreak \union {"update_problem"}
    BY <1>3, <1>6, RowsDistinct, ZenonT(60) DEF Footprint, Statistics
  <2>2. Level(b) = 3
    BY <1>6 DEF Level
  <2>3. QED
    BY <1>2, <2>1, <2>2
<1>7. ASSUME pc[b] = "commit", NEW i \in 1..4, CHECKS[i] \in NextStaged(b),
             AchievementRow(b, CHECKS[i]) \in held[a]
      PROVE  Level(b) < Level(a)
  <2>1. pc[a] = "commit"
    BY <1>2, <1>3, <1>7, RowsDistinct DEF Footprint, Statistics
  <2>2. PICK j \in 1..4 : CHECKS[j] \in NextStaged(a)
    BY <2>1, BlockedFor
  <2>3. AchievementRow(a, CHECKS[i]) \in held[a]
    <3>1. PICK x : AchievementRow(b, CHECKS[i]) = AchievementRow(a, x)
      BY <1>3, <1>7, <2>1, RowsDistinct DEF Footprint, Statistics, StagedRows, Checking
    <3>2. QED
      BY <1>7, <3>1, RowsDistinct
  <2>4. i < j
    BY <1>3, <2>2, <2>3, NextStagedFirst DEF InOrder
  <2>5. Level(b) = 3 + i /\ Level(a) = 3 + j
    BY <1>1, <1>7, <2>1, <2>2
  <2>6. QED
    BY <2>4, <2>5
<1>8. QED
  BY <1>2, <1>4, <1>5, <1>6, <1>7, BlockedFor

\* So the transactions of _persist alone cannot deadlock.
LEMMA NoCycle ==
  ASSUME LocksKept
  PROVE  OnlyReaperDeadlocks
<1>1. SUFFICES ASSUME NEW S \in SUBSET Submissions, Stuck(S)
               PROVE  FALSE
  BY DEF OnlyReaperDeadlocks
<1>2. \A b \in S : \E a \in S : Level(b) \in 1..7 /\ Level(a) \in 1..7 /\ Level(b) < Level(a)
  <2>1. SUFFICES ASSUME NEW b \in S
                 PROVE  \E a \in S : /\ Level(b) \in 1..7 /\ Level(a) \in 1..7
                                     /\ Level(b) < Level(a)
    OBVIOUS
  <2>2. PICK a \in S : Blocks(a, b)
    BY <1>1 DEF Stuck
  <2>3. PICK c \in S : Blocks(c, a)
    BY <1>1 DEF Stuck
  <2>4. QED
    BY <2>2, <2>3, WaitsUpward
<1>3. \A b \in S : Level(b) < 7
  BY <1>2
<1>4. \A b \in S : Level(b) < 6
  BY <1>2, <1>3
<1>5. \A b \in S : Level(b) < 5
  BY <1>2, <1>4
<1>6. \A b \in S : Level(b) < 4
  BY <1>2, <1>5
<1>7. \A b \in S : Level(b) < 3
  BY <1>2, <1>6
<1>8. \A b \in S : Level(b) < 2
  BY <1>2, <1>7
<1>9. S = {}
  BY <1>2, <1>8
<1>10. QED
  BY <1>1, <1>9 DEF Stuck

-----------------------------------------------------------------------------
(* Nobody else writes what a transaction has read                          *)

\* At the commit everything is locked that the commit publishes.
LEMMA CommitHolds ==
  ASSUME LocksKept, NEW s \in Submissions, Continues(s), Commit(s)
  PROVE  /\ pc[s] = "commit" /\ Row(s) \in held[s] /\ Statistics(s) \subseteq held[s]
         /\ StreakRow(s) \in held[s] <=> report[s] = "ACCEPTED"
         /\ total' = [total EXCEPT ![problemOf[s]] = @ + 1]
         /\ accepted' = [accepted EXCEPT ![problemOf[s]] =
                           @ + (IF report[s] = "ACCEPTED" THEN 1 ELSE 0)]
         /\ attempts' = [attempts EXCEPT ![Pair(s)] = @ + 1]
         /\ solved' = IF report[s] = "ACCEPTED" THEN solved \union {Pair(s)} ELSE solved
<1>1. pc[s] = "commit" /\ Wants(s) = {} /\ Footprint(s)
  BY DEF Commit, LocksKept
<1>2. Row(s) \in held[s]
  BY <1>1, WantsAtCommit
<1>3. Statistics(s) \subseteq held[s] /\ (StreakRow(s) \in held[s] <=> report[s] = "ACCEPTED")
  BY <1>1 DEF Footprint, Checking
<1>4. /\ draft[s].total = total[problemOf[s]] + 1
      /\ draft[s].accepted = accepted[problemOf[s]] + (IF report[s] = "ACCEPTED" THEN 1 ELSE 0)
      /\ draft[s].attempts = attempts[Pair(s)] + 1
      /\ draft[s].solved <=> report[s] = "ACCEPTED" \/ Pair(s) \in solved
  BY <1>1 DEF Continues, Checking
<1>5. total' = [total EXCEPT ![problemOf[s]] = @ + 1]
  BY <1>4 DEF Commit
<1>6. accepted' = [accepted EXCEPT ![problemOf[s]] =
                     @ + (IF report[s] = "ACCEPTED" THEN 1 ELSE 0)]
  BY <1>4 DEF Commit
<1>7. attempts' = [attempts EXCEPT ![Pair(s)] = @ + 1]
  BY <1>4 DEF Commit
<1>8. solved' = IF report[s] = "ACCEPTED" THEN solved \union {Pair(s)} ELSE solved
  BY <1>4 DEF Commit
<1>9. QED
  BY <1>1, <1>2, <1>3, <1>5, <1>6, <1>7, <1>8

\* The counters are committed data: only a commit moves them.
LEMMA CountersStay ==
  ASSUME NEW s \in Submissions, Transaction(s), ~Commit(s)
  PROVE  UNCHANGED <<total, accepted, attempts, solved, streak, earned>>
BY DEF Transaction, Begin, UpdateProblem, UpdateProgress, NoProgressRow, InsertProgress, FlushRow,
       ReadClock, UpdateStreak, NoStreakRow, InsertStreak, ReadEarned, Check,
       InsertAchievement, Fail, Abort, DeadlockVictim, committed

\* What a transaction writes of the counters continues what is committed when it
\* writes.
LEMMA ContinuesOwn ==
  ASSUME Typed, SolvedAttempted, NEW s \in Submissions, Continues(s), RowState(s), Transaction(s)
  PROVE  Continues(s)'
<1> USE DEF Continues, BeforeProgress, BeforeStreak, Checking, Goto
<1>1. CASE Commit(s) \/ Abort(s) \/ DeadlockVictim(s)
  <2>1. pc'[s] \in {"done", "failing"} /\ draft'[s] = NoDraft
    BY <1>1, EndEffect DEF Commit, Abort, DeadlockVictim
  <2>2. QED
    BY <2>1 DEF NoDraft
<1>2. ASSUME ~Commit(s)
      PROVE  UNCHANGED <<total, accepted, attempts, solved>>
  BY <1>2, CountersStay
<1>3. /\ draft \in Drafts /\ pc \in [Submissions -> Statements \union {"new", "failing", "done"}]
      /\ report \in [Submissions -> Verdicts \union {NoVerdict}]
  BY DEF Typed, TypeOK, Drafts
<1>4. CASE \E v \in Verdicts : Begin(s, v)
  <2>1. pc'[s] = "update_problem" /\ draft' = draft /\ ~draft[s].solved
    BY <1>3, <1>4 DEF Begin
  <2>2. QED
    BY <2>1
<1>5. CASE UpdateProblem(s)
  <2> DEFINE m == total[problemOf[s]] + 1
             n == accepted[problemOf[s]] + (IF report[s] = "ACCEPTED" THEN 1 ELSE 0)
  <2>1. draft' = [draft EXCEPT ![s].total = m, ![s].accepted = n]
    BY <1>5 DEF UpdateProblem
  <2>2. draft'[s].total = m /\ draft'[s].accepted = n /\ draft'[s].solved = draft[s].solved
    <3> HIDE DEF m, n
    <3>1. QED
      BY <1>3, <2>1 DEF Drafts
  <2>3. pc'[s] = "update_progress" /\ report' = report /\ ~draft[s].solved
        /\ UNCHANGED <<total, accepted>>
    BY <1>3, <1>5 DEF UpdateProblem, committed
  <2>4. QED
    BY <2>2, <2>3
<1>6. CASE UpdateProgress(s) \/ (InsertProgress(s) /\ attempts[Pair(s)] = 0)
  <2> DEFINE m == attempts[Pair(s)] + 1
             b == report[s] = "ACCEPTED" \/ Pair(s) \in solved
  <2>1. draft' = [draft EXCEPT ![s].attempts = m, ![s].solved = b]
    <3>1. CASE UpdateProgress(s)
      BY <3>1 DEF UpdateProgress
    <3>2. CASE InsertProgress(s) /\ attempts[Pair(s)] = 0
      <4>1. m = 1 /\ b = (report[s] = "ACCEPTED")
        BY <3>2 DEF SolvedAttempted
      <4>2. draft' = [draft EXCEPT ![s].attempts = 1, ![s].solved = report[s] = "ACCEPTED"]
        BY <3>2 DEF InsertProgress
      <4> HIDE DEF m, b
      <4>3. QED
        BY <4>1, <4>2
    <3>3. QED
      BY <1>6, <3>1, <3>2
  <2>2. b \in BOOLEAN
    OBVIOUS
  <2>3. /\ draft'[s].attempts = m /\ draft'[s].solved = b
        /\ draft'[s].total = draft[s].total /\ draft'[s].accepted = draft[s].accepted
    <3> HIDE DEF m, b
    <3>1. QED
      BY <1>3, <2>1 DEF Drafts
  <2>4. /\ pc[s] \in BeforeProgress /\ pc'[s] \in {"read_clock", "read_earned"}
        /\ report' = report /\ UNCHANGED <<total, accepted, attempts, solved>>
    BY <1>3, <1>6 DEF UpdateProgress, InsertProgress, AfterProgress, committed
  <2>5. QED
    BY <2>3, <2>4
<1>7. CASE InsertProgress(s) /\ attempts[Pair(s)] # 0
  <2>1. /\ pc[s] = "insert_progress" /\ pc'[s] = "update_progress"
        /\ UNCHANGED <<draft, report, total, accepted>>
    BY <1>3, <1>7 DEF InsertProgress, committed
  <2>2. QED
    BY <2>1
<1>8. CASE UpdateStreak(s) \/ InsertStreak(s)
  <2>1. \/ draft' = draft
        \/ \E st : draft' = [draft EXCEPT ![s].streak = st]
    BY <1>8 DEF UpdateStreak, InsertStreak
  <2>2. /\ draft'[s].attempts = draft[s].attempts /\ draft'[s].solved = draft[s].solved
        /\ draft'[s].total = draft[s].total /\ draft'[s].accepted = draft[s].accepted
    BY <1>3, <2>1 DEF Drafts
  <2>3. /\ pc[s] \in BeforeStreak /\ pc'[s] \in {"update_streak", "read_earned"}
        /\ report' = report /\ UNCHANGED <<total, accepted, attempts, solved>>
    BY <1>3, <1>8 DEF UpdateStreak, InsertStreak, committed
  <2>4. QED
    BY <2>2, <2>3
<1>9. CASE \/ NoProgressRow(s) \/ NoStreakRow(s) \/ FlushRow(s) \/ ReadClock(s)
           \/ ReadEarned(s) \/ Check(s)
  <2>1. UNCHANGED <<draft, report, total, accepted, attempts, solved>>
    BY <1>9
    DEF NoProgressRow, NoStreakRow, FlushRow, ReadClock, ReadEarned, Check, locals, committed
  <2>2. \/ pc[s] \in BeforeProgress /\ pc'[s] \in BeforeProgress
        \/ pc[s] \in BeforeStreak \union Checking /\ pc'[s] \in BeforeStreak \union Checking
    BY <1>3, <1>9 DEF NoProgressRow, NoStreakRow, FlushRow, ReadClock, ReadEarned, Check
  <2>3. QED
    BY <2>1, <2>2
<1>10. CASE InsertAchievement(s)
  <2>1. CASE EndTransaction(s, "failing")
    BY <2>1, EndEffect DEF NoDraft
  <2>2. CASE UNCHANGED <<pc, locals>>
    BY <1>2, <1>10, <2>2 DEF locals, InsertAchievement, committed
  <2>3. QED
    BY <1>10, <2>1, <2>2 DEF InsertAchievement
<1>11. CASE Fail(s)
  <2>1. pc[s] = "failing" /\ pc'[s] = "done" /\ draft' = draft
    BY <1>3, <1>11 DEF Fail, locals
  <2>2. QED
    BY <2>1
<1>12. QED
  BY <1>1, <1>4, <1>5, <1>6, <1>7, <1>8, <1>9, <1>10, <1>11 DEF Transaction

\* Nor does a commit of another transaction change what it continues: that one would
\* need the same lock.
LEMMA ContinuesOther ==
  ASSUME LocksKept, NEW s \in Submissions, NEW t \in Submissions, s # t,
         Continues(s), Continues(t), Transaction(s)
  PROVE  Continues(t)'
<1>1. Typed /\ Exclusive /\ Footprint(t)
  BY DEF LocksKept
<1>2. pc'[t] = pc[t] /\ report'[t] = report[t] /\ draft'[t] = draft[t]
  BY <1>1, OthersAlone
<1>3. CASE Commit(s)
  <2>1. held[s] \intersect held[t] = {}
    BY <1>1 DEF Exclusive, Actors
  <2>2. ASSUME pc[t] \in BeforeProgress \union BeforeStreak \union Checking
        PROVE  total'[problemOf[t]] = total[problemOf[t]]
               /\ accepted'[problemOf[t]] = accepted[problemOf[t]]
    <3>1. ProblemRow(t) \in held[t] /\ ProblemRow(s) \in held[s]
      BY <1>1, <1>3, <2>2, CommitHolds DEF Footprint, Statistics
    <3>2. problemOf[t] # problemOf[s]
      BY <2>1, <3>1, RowsDistinct
    <3>3. problemOf[t] \in DOMAIN total /\ problemOf[t] \in DOMAIN accepted
      BY <1>1, RowsTyped DEF Typed, TypeOK
    <3>4. /\ total' = [total EXCEPT ![problemOf[s]] = @ + 1]
          /\ accepted' = [accepted EXCEPT ![problemOf[s]] =
                            @ + (IF report[s] = "ACCEPTED" THEN 1 ELSE 0)]
      BY <1>3, CommitHolds
    <3>5. QED
      BY <3>2, <3>3, <3>4
  <2>3. ASSUME pc[t] \in BeforeStreak \union Checking
        PROVE  /\ attempts'[Pair(t)] = attempts[Pair(t)]
               /\ Pair(t) \in solved' <=> Pair(t) \in solved
    <3>1. ProgressRow(t) \in held[t] /\ ProgressRow(s) \in held[s]
      BY <1>1, <1>3, <2>3, CommitHolds DEF Footprint, Statistics
    <3>2. Pair(t) # Pair(s)
      BY <2>1, <3>1, RowsDistinct
    <3>3. Pair(t) \in DOMAIN attempts
      BY <1>1, RowsTyped DEF Typed, TypeOK
    <3>4. /\ attempts' = [attempts EXCEPT ![Pair(s)] = @ + 1]
          /\ solved' = IF report[s] = "ACCEPTED" THEN solved \union {Pair(s)} ELSE solved
      BY <1>3, CommitHolds
    <3>5. QED
      BY <3>2, <3>3, <3>4
  <2>4. Pair(t)' = Pair(t)
    BY DEF Pair
  <2>5. QED
    BY <1>2, <2>2, <2>3, <2>4 DEF Continues
<1>4. CASE ~Commit(s)
  BY <1>2, <1>4, CountersStay DEF Continues, Pair
<1>5. QED
  BY <1>3, <1>4

\* A solved problem stays an attempted one.
LEMMA SolvedAttemptedKept ==
  ASSUME LocksKept, SolvedAttempted, NEW s \in Submissions, Continues(s), Transaction(s)
  PROVE  SolvedAttempted'
<1>1. CASE Commit(s)
  <2>1. attempts \in [Users \X Problems -> Nat] /\ solved \subseteq Users \X Problems
    BY DEF LocksKept, Typed, TypeOK
  <2>2. \A x \in solved' : x \in solved \/ x = Pair(s)
    BY <1>1, CommitHolds
  <2>3. \A x \in Users \X Problems : x = Pair(s) \/ attempts[x] > 0 => attempts'[x] > 0
    BY <1>1, <2>1, CommitHolds, RowsTyped
  <2>4. solved' \subseteq Users \X Problems
    BY <2>1, <2>2, RowsTyped
  <2>5. QED
    BY <2>2, <2>3, <2>4 DEF SolvedAttempted, Pair
<1>2. CASE ~Commit(s)
  BY <1>2, CountersStay DEF SolvedAttempted, Pair
<1>3. QED
  BY <1>1, <1>2

-----------------------------------------------------------------------------
(* Streaks                                                                 *)

\* Extending a possible streak on a day that has come gives a possible streak whose
\* longest run is no shorter.
LEMMA ExtendedPossible ==
  ASSUME NEW st \in Streaks, NEW date \in Nat, day \in Nat, date <= day, date > 0, Possible(st)
  PROVE  Possible(Extended(st, date)) /\ st.longest <= Extended(st, date).longest
BY DEF Possible, Extended, Streaks

\* What a transaction is about to commit as a streak is possible.
LEMMA StreakOwn ==
  ASSUME LocksKept, StreaksPossible, NEW s \in Submissions, Transaction(s)
  PROVE  /\ today'[s] <= day
         /\ pc'[s] \in {"update_streak", "insert_streak"} => today'[s] > 0
         /\ StreakRow(s) \in held'[s] =>
              Possible(draft'[s].streak) /\ streak'[owner[s]].longest <= draft'[s].streak.longest
<1> USE DEF Goto
<1>1. /\ Typed /\ Footprint(s) /\ day \in Nat /\ day > 0 /\ draft \in Drafts
      /\ streak \in [Users -> Streaks] /\ today \in [Submissions -> Nat] /\ owner[s] \in Users
      /\ pc \in [Submissions -> Statements \union {"new", "failing", "done"}]
  <2>1. Typed /\ Footprint(s)
    BY DEF LocksKept
  <2>2. day \in Nat /\ day > 0
    BY <2>1, PersistTxAssumption DEF Typed, TypeOK
  <2>3. QED
    BY <2>1, <2>2, RowsTyped DEF Typed, TypeOK, Drafts
<1>2. /\ today[s] <= day /\ Possible(streak[owner[s]])
      /\ pc[s] \in {"update_streak", "insert_streak"} => today[s] > 0
      /\ StreakRow(s) \in held[s] =>
           Possible(draft[s].streak) /\ streak[owner[s]].longest <= draft[s].streak.longest
  BY <1>1 DEF StreaksPossible
<1>3. CASE Commit(s) \/ Abort(s) \/ DeadlockVictim(s)
  <2>1. pc'[s] \in {"done", "failing"} /\ held'[s] = {} /\ today'[s] = 0
    BY <1>1, <1>3, EndEffect DEF Commit, Abort, DeadlockVictim
  <2>2. QED
    BY <1>1, <2>1
<1>4. CASE UpdateStreak(s)
  <2>1. pc'[s] = "read_earned" /\ UNCHANGED <<today, streak>> /\ pc[s] = "update_streak"
    BY <1>1, <1>4 DEF UpdateStreak, committed
  <2>2. draft'[s].streak = Extended(streak[owner[s]], today[s])
    <3> DEFINE st == Extended(streak[owner[s]], today[s])
    <3>1. draft' = [draft EXCEPT ![s].streak = st]
      BY <1>4 DEF UpdateStreak
    <3> HIDE DEF st
    <3>2. draft'[s].streak = st
      BY <1>1, <3>1 DEF Drafts
    <3>3. QED
      BY <3>2 DEF st
  <2>3. QED
    BY <1>1, <1>2, <2>1, <2>2, ExtendedPossible
<1>5. CASE InsertStreak(s)
  <2>1. CASE streak[owner[s]] = NoStreak
    <3>1. pc'[s] = "read_earned" /\ UNCHANGED <<today, streak>> /\ pc[s] = "insert_streak"
      BY <1>1, <1>5, <2>1 DEF InsertStreak, committed
    <3>2. draft'[s].streak = [current |-> 1, longest |-> 1, last |-> today[s]]
      <4> DEFINE st == [current |-> 1, longest |-> 1, last |-> today[s]]
      <4>1. draft' = [draft EXCEPT ![s].streak = st]
        BY <1>5, <2>1 DEF InsertStreak
      <4> HIDE DEF st
      <4>2. draft'[s].streak = st
        BY <1>1, <4>1 DEF Drafts
      <4>3. QED
        BY <4>2 DEF st
    <3>3. QED
      BY <1>1, <1>2, <2>1, <3>1, <3>2 DEF Possible, NoStreak
  <2>2. CASE streak[owner[s]] # NoStreak
    <3>1. UNCHANGED <<today, streak, held, draft>> /\ pc[s] = "insert_streak"
      BY <1>5, <2>2 DEF InsertStreak, committed
    <3>2. QED
      BY <1>2, <3>1
  <2>3. QED
    BY <2>1, <2>2
<1>6. CASE \/ (\E v \in Verdicts : Begin(s, v)) \/ UpdateProblem(s) \/ UpdateProgress(s)
           \/ NoProgressRow(s) \/ InsertProgress(s)
  <2>1. /\ today' = today
        /\ pc'[s] \in BeforeProgress \union {"update_problem", "read_clock", "read_earned"}
    BY <1>1, <1>6
    DEF Begin, UpdateProblem, UpdateProgress, NoProgressRow, InsertProgress, AfterProgress,
        BeforeProgress, locals
  <2>2. StreakRow(s) \notin held[s]
    BY <1>1, <1>6, RowsDistinct
    DEF Footprint, BeforeProgress, Begin, UpdateProblem, UpdateProgress, NoProgressRow,
        InsertProgress
  <2>3. StreakRow(s) \notin held'[s]
    <3>1. CASE (\E v \in Verdicts : Begin(s, v)) \/ NoProgressRow(s)
      BY <2>2, <3>1 DEF Begin, NoProgressRow
    <3>2. CASE ~(\E v \in Verdicts : Begin(s, v)) /\ ~NoProgressRow(s)
      <4>1. StreakRow(s) \notin Wants(s)
        BY <1>6, <3>2, RowsDistinct, SMTT(30)
        DEF Wants, UpdateProblem, UpdateProgress, InsertProgress
      <4>2. QED
        BY <1>1, <1>6, <2>2, <4>1, GainsGranted
    <3>3. QED
      BY <3>1, <3>2
  <2>4. QED
    BY <1>2, <2>1, <2>3 DEF BeforeProgress
<1>7. CASE FlushRow(s) \/ NoStreakRow(s) \/ ReadClock(s) \/ ReadEarned(s) \/ Check(s) \/ Fail(s)
  <2>1. UNCHANGED <<draft, streak>>
    BY <1>7 DEF FlushRow, NoStreakRow, ReadClock, ReadEarned, Check, Fail, committed, locals
  <2>2. StreakRow(s) \in held'[s] => StreakRow(s) \in held[s]
    <3>1. CASE FlushRow(s)
      BY <1>1, <3>1, LockEffect, RowsDistinct DEF FlushRow
    <3>2. CASE ~FlushRow(s)
      BY <1>7, <3>2 DEF NoStreakRow, ReadClock, ReadEarned, Check, Fail, locals
    <3>3. QED
      BY <3>1, <3>2
  <2>3. /\ today'[s] <= day
        /\ pc'[s] \in {"update_streak", "insert_streak"} => today'[s] > 0
    BY <1>1, <1>2, <1>7 DEF FlushRow, NoStreakRow, ReadClock, ReadEarned, Check, Fail, locals
  <2>4. QED
    BY <1>2, <2>1, <2>2, <2>3
<1>8. CASE InsertAchievement(s)
  <2>1. CASE EndTransaction(s, "failing")
    BY <1>1, <2>1, EndEffect
  <2>2. CASE Lock(s) /\ UNCHANGED <<pc, locals>>
    <3>1. StreakRow(s) \notin Wants(s)
      BY <1>8, WantsAtCommit, RowsDistinct DEF InsertAchievement
    <3>2. QED
      BY <1>1, <1>2, <1>8, <2>2, <3>1, LockEffect DEF InsertAchievement, locals, committed
  <2>3. QED
    BY <1>8, <2>1, <2>2 DEF InsertAchievement
<1>9. QED
  BY <1>3, <1>4, <1>5, <1>6, <1>7, <1>8 DEF Transaction

\* Streaks stay possible, whichever transaction takes a step.
LEMMA StreaksKept ==
  ASSUME LocksKept, StreaksPossible, NEW s \in Submissions, Continues(s), Transaction(s)
  PROVE  StreaksPossible'
<1>1. Typed /\ Exclusive /\ streak \in [Users -> Streaks] /\ owner[s] \in Users
  BY RowsTyped DEF LocksKept, Typed, TypeOK
<1>2. day' = day
  BY <1>1, OthersAlone
<1>3. /\ StreakRow(s) \in held[s] => Possible(draft[s].streak)
      /\ \A u \in Users : Possible(streak[u])
  BY DEF StreaksPossible
<1>4. \A u \in Users : streak'[u] # streak[u] =>
                         /\ u = owner[s] /\ StreakRow(s) \in held[s]
                         /\ streak'[u] = draft[s].streak
  <2>1. CASE Commit(s)
    BY <1>1, <2>1 DEF Commit
  <2>2. CASE ~Commit(s)
    BY <2>2, CountersStay
  <2>3. QED
    BY <2>1, <2>2
<1>5. \A u \in Users : Possible(streak[u])'
  BY <1>2, <1>3, <1>4 DEF Possible
<1>6. ASSUME NEW t \in Submissions
      PROVE  /\ today'[t] <= day
             /\ pc'[t] \in {"update_streak", "insert_streak"} => today'[t] > 0
             /\ StreakRow(t) \in held'[t] =>
                  /\ Possible(draft'[t].streak)
                  /\ streak'[owner[t]].longest <= draft'[t].streak.longest
  <2>1. CASE t = s
    BY <2>1, StreakOwn
  <2>2. CASE t # s
    <3>1. held'[t] = held[t] /\ pc'[t] = pc[t] /\ today'[t] = today[t] /\ draft'[t] = draft[t]
      BY <1>1, <2>2, OthersAlone DEF Actors
    <3>2. StreakRow(t) \in held[t] => streak'[owner[t]] = streak[owner[t]]
      <4>1. held[s] \intersect held[t] = {}
        BY <1>1, <2>2 DEF Exclusive, Actors
      <4>2. owner[t] = owner[s] => StreakRow(t) = StreakRow(s)
        BY DEF StreakRow
      <4>3. QED
        BY <1>4, <4>1, <4>2, RowsTyped
    <3>3. QED
      BY <3>1, <3>2 DEF StreaksPossible
  <2>3. QED
    BY <2>1, <2>2
<1>7. \A t \in Submissions : /\ today'[t] <= day'
                             /\ pc'[t] \in {"update_streak", "insert_streak"} => today'[t] > 0
                             /\ StreakRow(t) \in held'[t] =>
                                  /\ Possible(draft[t].streak)'
                                  /\ streak'[owner[t]].longest <= draft'[t].streak.longest
  BY <1>2, <1>6 DEF Possible
<1>8. QED
  BY <1>5, <1>7 DEF StreaksPossible, StreakRow

-----------------------------------------------------------------------------
(* Achievements                                                            *)

\* A goal, over everything that counts towards it.
Meets(a, problems, acceptances, longest, submitted) ==
  CASE a = "solved" -> Cardinality(problems) >= SolveGoal
    [] a = "polyglot" -> Cardinality({languageOf[s] : s \in acceptances}) >= 2
    [] a = "streak" -> longest >= StreakGoal
    [] a = "submitted" -> Cardinality(submitted) >= SubmitGoal

\* What a function has to say about finitely many arguments is finite.
LEMMA ImageFinite ==
  ASSUME NEW S, IsFiniteSet(S), NEW f
  PROVE  IsFiniteSet({f[s] : s \in S})
<1> DEFINE g == [s \in S |-> f[s]]
<1>1. g \in Surjection(S, {f[s] : s \in S})
  BY DEF Surjection
<1>2. QED
  BY <1>1, FS_Surjection

\* Solved problems are among those submitted to, so there are finitely many of them.
LEMMA SolvedFinite ==
  ASSUME NEW X, \A x \in X : \E s \in Submissions : x = Pair(s), NEW u
  PROVE  IsFiniteSet({p \in Problems : <<u, p>> \in X})
<1>1. {p \in Problems : <<u, p>> \in X} \subseteq {problemOf[s] : s \in Submissions}
  BY DEF Pair
<1>2. IsFiniteSet({problemOf[s] : s \in Submissions})
  BY ImageFinite, PersistTxAssumption
<1>3. QED
  BY <1>1, <1>2, FS_Subset

\* A larger set is larger.
LEMMA CardinalityGrows ==
  ASSUME NEW T, IsFiniteSet(T), NEW S, S \subseteq T, NEW n \in Nat, Cardinality(S) >= n
  PROVE  Cardinality(T) >= n
<1>1. Cardinality(S) <= Cardinality(T) /\ IsFiniteSet(S)
  BY FS_Subset
<1>2. Cardinality(S) \in Nat /\ Cardinality(T) \in Nat
  BY <1>1, FS_CardinalityType
<1>3. QED
  BY <1>1, <1>2

\* Who has done more has reached no fewer goals.
LEMMA MeetsGrows ==
  ASSUME NEW a \in Achievements,
         NEW P, NEW Q, P \subseteq Q, IsFiniteSet(Q),
         NEW A, NEW B, A \subseteq B, B \subseteq Submissions,
         NEW m \in Nat, NEW n \in Nat, m <= n,
         NEW S, NEW T, S \subseteq T, T \subseteq Submissions,
         Meets(a, P, A, m, S)
  PROVE  Meets(a, Q, B, n, T)
<1>1. SolveGoal \in Nat /\ StreakGoal \in Nat /\ SubmitGoal \in Nat /\ IsFiniteSet(Submissions)
  BY PersistTxAssumption
<1>2. CASE a = "solved"
  BY <1>1, <1>2, CardinalityGrows DEF Meets
<1>3. CASE a = "polyglot"
  <2>1. IsFiniteSet({languageOf[s] : s \in B})
    <3>1. IsFiniteSet(B)
      BY <1>1, FS_Subset
    <3>2. QED
      BY <3>1, ImageFinite
  <2>2. {languageOf[s] : s \in A} \subseteq {languageOf[s] : s \in B}
    OBVIOUS
  <2>3. Cardinality({languageOf[s] : s \in A}) >= 2
    BY <1>3 DEF Meets
  <2>4. Cardinality({languageOf[s] : s \in B}) >= 2
    BY <2>1, <2>2, <2>3, CardinalityGrows
  <2>5. QED
    BY <1>3, <2>4 DEF Meets
<1>4. CASE a = "streak"
  BY <1>1, <1>4 DEF Meets
<1>5. CASE a = "submitted"
  <2>1. IsFiniteSet(T)
    BY <1>1, FS_Subset
  <2>2. QED
    BY <1>1, <1>5, <2>1, CardinalityGrows DEF Meets
<1>6. QED
  BY <1>2, <1>3, <1>4, <1>5, ChecksListed

\* What the queries of the transaction of s find.
SeenSolved(s) ==
  SolvedBy(owner[s]) \union (IF draft[s].solved THEN {problemOf[s]} ELSE {})
SeenAccepted(s) ==
  AcceptedOf(owner[s]) \union
    (IF Row(s) \in held[s] /\ report[s] = "ACCEPTED" THEN {s} ELSE {})
SeenLongest(s) ==
  IF StreakRow(s) \in held[s] THEN draft[s].streak.longest ELSE streak[owner[s]].longest

\* A check compares a goal with what its transaction sees, and IsReached with what is
\* committed.
LEMMA ReachedMeets ==
  /\ \A a, u : IsReached(a, u) <=>
                 Meets(a, SolvedBy(u), AcceptedOf(u), streak[u].longest, SubmittedBy(u))
  /\ \A s, a : SeesReached(s, a) <=>
                 Meets(a, SeenSolved(s), SeenAccepted(s), SeenLongest(s), SubmittedBy(owner[s]))
BY DEF IsReached, SeesReached, Reached, Meets, SeenSolved, SeenAccepted, SeenLongest

\* Nothing that counts towards a goal is ever lost.
Grows ==
  \A u \in Users : /\ SolvedBy(u) \subseteq SolvedBy(u)'
                   /\ AcceptedOf(u) \subseteq AcceptedOf(u)'
                   /\ SubmittedBy(u) \subseteq SubmittedBy(u)'
                   /\ streak[u].longest <= streak'[u].longest

\* No statement of a transaction takes back what counts towards a goal.
LEMMA TransactionGrows ==
  ASSUME LocksKept, StreaksPossible, NEW s \in Submissions, Continues(s), Transaction(s)
  PROVE  Grows
<1>1. /\ Typed /\ RowState(s) /\ streak \in [Users -> Streaks]
      /\ status \in [Submissions -> {"ABSENT", "RUNNING", "COMPLETED", "FAILED"}]
      /\ result \in [Submissions -> Verdicts \union {NoVerdict}]
  BY DEF LocksKept, Typed, TypeOK
<1>2. \A t \in Submissions \ {s} : status'[t] = status[t] /\ result'[t] = result[t]
  BY <1>1, OthersAlone
<1>3. solved \subseteq solved' /\ \A u \in Users : streak[u].longest <= streak'[u].longest
  <2>1. CASE Commit(s)
    <3>1. solved \subseteq solved'
      BY <2>1, CommitHolds
    <3>2. \A u \in Users : \/ streak'[u] = streak[u]
                           \/ u = owner[s] /\ StreakRow(s) \in held[s]
                                /\ streak'[u] = draft[s].streak
      BY <1>1, <2>1 DEF Commit
    <3>3. StreakRow(s) \in held[s] => streak[owner[s]].longest <= draft[s].streak.longest
      BY DEF StreaksPossible
    <3>4. \A u \in Users : streak[u].longest <= streak'[u].longest
      BY <1>1, <3>2, <3>3 DEF Streaks
    <3>5. QED
      BY <3>1, <3>4
  <2>2. CASE ~Commit(s)
    BY <1>1, <2>2, CountersStay DEF Streaks
  <2>3. QED
    BY <2>1, <2>2
<1>4. /\ status[s] # "ABSENT" => status'[s] # "ABSENT"
      /\ status[s] # "COMPLETED"
  <2>1. RowState(s)' /\ pc[s] # "done"
    <3>1. pc[s] # "done"
      BY EndEffect
      DEF Transaction, Begin, UpdateProblem, UpdateProgress, NoProgressRow, InsertProgress,
          FlushRow, ReadClock, UpdateStreak, NoStreakRow, InsertStreak, ReadEarned, Check,
          InsertAchievement, Commit, Fail, Abort, DeadlockVictim, Statements
    <3>2. QED
      BY <1>1, <3>1, RowStateKept
  <2>2. pc'[s] # "new"
    <3>1. CASE Commit(s) \/ Abort(s) \/ DeadlockVictim(s)
      <4>1. pc'[s] \in {"done", "failing"}
        BY <1>1, <3>1, EndEffect DEF Commit, Abort, DeadlockVictim
      <4>2. QED
        BY <4>1
    <3>2. CASE InsertAchievement(s)
      BY <1>1, <3>2, EndEffect DEF InsertAchievement, locals
    <3>3. CASE UpdateProblem(s) \/ UpdateProgress(s) \/ NoProgressRow(s) \/ InsertProgress(s)
                 \/ Fail(s) \/ \E v \in Verdicts : Begin(s, v)
      BY <1>1, <3>3
      DEF UpdateProblem, UpdateProgress, NoProgressRow, InsertProgress, AfterProgress, Fail,
          Begin, Goto, Typed, TypeOK
    <3>4. CASE FlushRow(s) \/ ReadClock(s) \/ UpdateStreak(s) \/ NoStreakRow(s)
                 \/ InsertStreak(s) \/ ReadEarned(s) \/ Check(s)
      BY <1>1, <3>4
      DEF FlushRow, ReadClock, UpdateStreak, NoStreakRow, InsertStreak, ReadEarned, Check,
          Goto, Typed, TypeOK
    <3>5. QED
      BY <3>1, <3>2, <3>3, <3>4 DEF Transaction
  <2>3. QED
    BY <1>1, <2>1, <2>2 DEF RowState
<1>5. QED
  BY <1>2, <1>3, <1>4 DEF Grows, SolvedBy, AcceptedOf, SubmittedBy

\* The same as ReachedMeets of the next state.
LEMMA ReachedMeetsNext ==
  /\ \A a, u : IsReached(a, u)' <=>
                 Meets(a, SolvedBy(u)', AcceptedOf(u)', streak'[u].longest, SubmittedBy(u)')
  /\ \A s, a : SeesReached(s, a)' <=>
                 Meets(a, SeenSolved(s)', SeenAccepted(s)', SeenLongest(s)',
                       SubmittedBy(owner[s])')
BY DEF IsReached, SeesReached, Reached, Meets, SeenSolved, SeenAccepted, SeenLongest

\* Everything that the goals look at is finite and typed.
SeenFinite ==
  /\ \A u \in Users : /\ IsFiniteSet(SolvedBy(u)) /\ AcceptedOf(u) \subseteq Submissions
                      /\ SubmittedBy(u) \subseteq Submissions /\ streak[u].longest \in Nat
  /\ \A s \in Submissions : /\ IsFiniteSet(SeenSolved(s))
                            /\ SeenAccepted(s) \subseteq Submissions
                            /\ SeenLongest(s) \in Nat

\* It is, in every state of the right types: only submitted problems are solved.
LEMMA SeenTyped == Typed /\ SolvedAttempted => SeenFinite
<1> SUFFICES ASSUME Typed, SolvedAttempted
             PROVE  SeenFinite
  OBVIOUS
<1>1. \A u : IsFiniteSet(SolvedBy(u))
  BY SolvedFinite DEF SolvedAttempted, SolvedBy
<1>2. /\ \A u : AcceptedOf(u) \subseteq Submissions /\ SubmittedBy(u) \subseteq Submissions
      /\ \A u \in Users : streak[u].longest \in Nat
  BY DEF AcceptedOf, SubmittedBy, Typed, TypeOK, Streaks
<1>3. ASSUME NEW s \in Submissions
      PROVE  IsFiniteSet(SeenSolved(s))
  <2>1. IsFiniteSet(IF draft[s].solved THEN {problemOf[s]} ELSE {})
    BY FS_Singleton, FS_EmptySet
  <2>2. QED
    BY <1>1, <2>1, FS_Union DEF SeenSolved
<1>4. \A s \in Submissions : SeenAccepted(s) \subseteq Submissions
  BY <1>2 DEF SeenAccepted
<1>5. \A s \in Submissions : SeenLongest(s) \in Nat
  BY RowsTyped DEF SeenLongest, Typed, TypeOK, Streaks
<1>6. QED
  BY <1>1, <1>2, <1>3, <1>4, <1>5 DEF SeenFinite

\* A transaction goes on seeing what it has seen, as long as it keeps its locks and
\* what it has written.
LEMMA SeesOn ==
  ASSUME Typed, Typed', SolvedAttempted, SolvedAttempted', Grows,
         NEW t \in Submissions, NEW a \in Achievements, SeesReached(t, a),
         Row(t) \in held[t] => Row(t) \in held'[t],
         StreakRow(t) \in held'[t] <=> StreakRow(t) \in held[t],
         draft'[t] = draft[t], report'[t] = report[t]
  PROVE  SeesReached(t, a)'
<1>1. owner[t] \in Users
  BY RowsTyped
<1>2. Meets(a, SeenSolved(t), SeenAccepted(t), SeenLongest(t), SubmittedBy(owner[t]))
  BY ReachedMeets
<1>3. SeenSolved(t) \subseteq SeenSolved(t)'
  BY <1>1 DEF Grows, SeenSolved
<1>4. SeenAccepted(t) \subseteq SeenAccepted(t)'
  BY <1>1 DEF Grows, SeenAccepted, Row
<1>5. SeenLongest(t) <= SeenLongest(t)'
  <2>1. SeenLongest(t) \in Nat
    BY SeenTyped DEF SeenFinite
  <2>2. CASE StreakRow(t) \in held[t]
    BY <2>1, <2>2 DEF SeenLongest, StreakRow
  <2>3. CASE StreakRow(t) \notin held[t]
    BY <1>1, <2>3 DEF SeenLongest, StreakRow, Grows
  <2>4. QED
    BY <2>2, <2>3
<1>6. SubmittedBy(owner[t]) \subseteq SubmittedBy(owner[t])'
  BY <1>1 DEF Grows
<1>7. SeenLongest(t) \in Nat
  BY SeenTyped DEF SeenFinite
<1>8. /\ IsFiniteSet(SeenSolved(t)') /\ SeenAccepted(t)' \subseteq Submissions
      /\ SeenLongest(t)' \in Nat /\ SubmittedBy(owner[t])' \subseteq Submissions
  <2>1. SeenFinite'
    BY SeenTyped, PTL
  <2>2. QED
    BY <1>1, <2>1 DEF SeenFinite
<1>9. Meets(a, SeenSolved(t)', SeenAccepted(t)', SeenLongest(t)', SubmittedBy(owner[t])')
  BY <1>2, <1>3, <1>4, <1>5, <1>6, <1>7, <1>8, MeetsGrows
<1>10. QED
  BY <1>9, ReachedMeetsNext

\* A goal that is reached stays reached.
LEMMA ReachedOn ==
  ASSUME Typed, Typed', SolvedAttempted, SolvedAttempted', Grows,
         NEW u \in Users, NEW a \in Achievements, IsReached(a, u)
  PROVE  IsReached(a, u)'
<1>1. SeenFinite /\ SeenFinite'
  BY SeenTyped, PTL
<1>2. Meets(a, SolvedBy(u), AcceptedOf(u), streak[u].longest, SubmittedBy(u))
  BY ReachedMeets
<1>3. /\ IsFiniteSet(SolvedBy(u)') /\ AcceptedOf(u)' \subseteq Submissions
      /\ SubmittedBy(u)' \subseteq Submissions
      /\ streak[u].longest \in Nat /\ streak'[u].longest \in Nat
  BY <1>1 DEF SeenFinite
<1>4. Meets(a, SolvedBy(u)', AcceptedOf(u)', streak'[u].longest, SubmittedBy(u)')
  BY <1>2, <1>3, MeetsGrows DEF Grows
<1>5. QED
  BY <1>4, ReachedMeetsNext

\* What a transaction saw reached is reached once the transaction has committed.
LEMMA CommitReached ==
  ASSUME LocksKept, Typed', SolvedAttempted, SolvedAttempted', Grows,
         NEW s \in Submissions, Continues(s), Commit(s),
         NEW a \in Achievements, SeesReached(s, a)
  PROVE  IsReached(a, owner[s])'
<1> DEFINE u == owner[s]
<1>1. u \in Users /\ Typed
  BY RowsTyped DEF LocksKept
<1>2. SeenFinite /\ SeenFinite'
  BY <1>1, SeenTyped, PTL
<1>3. Meets(a, SeenSolved(s), SeenAccepted(s), SeenLongest(s), SubmittedBy(u))
  BY ReachedMeets
<1>4. SeenSolved(s) \subseteq SolvedBy(u)'
  <2>1. draft[s].solved <=> report[s] = "ACCEPTED" \/ Pair(s) \in solved
    BY DEF Commit, Continues, Checking
  <2>2. draft[s].solved => Pair(s) \in solved'
    BY <2>1, CommitHolds
  <2>3. SolvedBy(u) \subseteq SolvedBy(u)'
    BY <1>1 DEF Grows
  <2>4. draft[s].solved => problemOf[s] \in SolvedBy(u)'
    BY <2>2, RowsTyped DEF SolvedBy, Pair
  <2>5. QED
    BY <2>3, <2>4 DEF SeenSolved
<1>5. SeenAccepted(s) \subseteq AcceptedOf(u)'
  <2>1. status'[s] = "COMPLETED" /\ result'[s] = report[s]
    BY <1>1 DEF Commit, Typed, TypeOK
  <2>2. AcceptedOf(u) \subseteq AcceptedOf(u)'
    BY <1>1 DEF Grows
  <2>3. report[s] = "ACCEPTED" => s \in AcceptedOf(u)'
    BY <2>1 DEF AcceptedOf
  <2>4. QED
    BY <2>2, <2>3 DEF SeenAccepted
<1>6. SeenLongest(s) <= streak'[u].longest
  <2>1. SeenLongest(s) \in Nat
    BY <1>2 DEF SeenFinite
  <2>2. CASE StreakRow(s) \in held[s]
    <3>1. streak'[u] = draft[s].streak
      BY <1>1, <2>2 DEF Commit, Typed, TypeOK
    <3>2. QED
      BY <2>1, <2>2, <3>1 DEF SeenLongest
  <2>3. CASE StreakRow(s) \notin held[s]
    BY <1>1, <2>3 DEF SeenLongest, Grows
  <2>4. QED
    BY <2>2, <2>3
<1>7. SubmittedBy(u) \subseteq SubmittedBy(u)'
  BY <1>1 DEF Grows
<1>8. /\ IsFiniteSet(SolvedBy(u)') /\ AcceptedOf(u)' \subseteq Submissions
      /\ SubmittedBy(u)' \subseteq Submissions
      /\ SeenLongest(s) \in Nat /\ streak'[u].longest \in Nat
  BY <1>1, <1>2 DEF SeenFinite
<1>9. Meets(a, SolvedBy(u)', AcceptedOf(u)', streak'[u].longest, SubmittedBy(u)')
  BY <1>3, <1>4, <1>5, <1>6, <1>7, <1>8, MeetsGrows
<1>10. QED
  BY <1>9, ReachedMeetsNext

\* A statement stages only what its transaction sees reached, and forgets nothing that
\* it has seen before the transaction ends.
LEMMA StagedOwn ==
  ASSUME LocksKept, Typed', SolvedAttempted, SolvedAttempted', StagedSeen, Grows,
         NEW s \in Submissions, Transaction(s), NEW a \in staged'[s]
  PROVE  SeesReached(s, a)'
<1>1. Typed /\ Footprint(s) /\ a \in Achievements
  BY DEF LocksKept, Typed, TypeOK
<1>2. pc'[s] \in {"check", "commit"} /\ pc'[s] # "new"
  BY <1>1 DEF Typed, IndexTyped
<1>3. CASE Check(s)
  <2>1. UNCHANGED <<held, draft, report>>
    BY <1>3 DEF Check
  <2>2. SeesReached(s, a)
    <3>1. a \in staged[s] \/ SeesReached(s, a)
      BY <1>1, <1>3 DEF Check, Typed, TypeOK
    <3>2. QED
      BY <3>1 DEF StagedSeen
  <2>3. QED
    BY <1>1, <2>1, <2>2, SeesOn
<1>4. CASE FlushRow(s) \/ (InsertAchievement(s) /\ ~EndTransaction(s, "failing"))
  <2>1. pc[s] = "commit" /\ Lock(s) /\ UNCHANGED <<draft, report, staged>>
    <3>1. CASE FlushRow(s)
      BY <1>2, <3>1 DEF FlushRow, locals
    <3>2. CASE InsertAchievement(s) /\ ~EndTransaction(s, "failing")
      BY <3>2 DEF InsertAchievement, locals
    <3>3. QED
      BY <1>4, <3>1, <3>2
  <2>2. held'[s] = held[s] \union Wants(s) /\ StreakRow(s) \notin Wants(s)
    <3>1. StreakRow(s) \notin StagedRows(s) /\ StreakRow(s) # Row(s)
      BY RowsDistinct DEF StagedRows
    <3>2. QED
      BY <1>1, <2>1, <3>1, LockEffect, WantsAtCommit
  <2>3. SeesReached(s, a)
    BY <2>1 DEF StagedSeen
  <2>4. QED
    BY <1>1, <2>1, <2>2, <2>3, SeesOn
<1>5. CASE \E label : EndTransaction(s, label)
  BY <1>1, <1>5, EndEffect
<1>6. CASE /\ ~Check(s) /\ ~FlushRow(s) /\ ~InsertAchievement(s)
           /\ ~\E label : EndTransaction(s, label)
  <2>1. staged' = staged /\ pc[s] \notin {"check", "commit"}
    BY <1>6
    DEF Transaction, Begin, UpdateProblem, UpdateProgress, NoProgressRow, InsertProgress,
        ReadClock, UpdateStreak, NoStreakRow, InsertStreak, ReadEarned, Commit, Fail, Abort,
        DeadlockVictim, locals
  <2>2. staged[s] = {}
    BY <1>1, <2>1 DEF Typed, IndexTyped
  <2>3. QED
    BY <2>1, <2>2
<1>7. QED
  BY <1>3, <1>4, <1>5, <1>6 

\* Achievements stay deserved when a transaction takes a step.
LEMMA ProfileKept ==
  ASSUME LocksKept, LocksKept', SolvedAttempted, SolvedAttempted', StreaksPossible,
         StagedSeen, EarnedIsReached, NEW s \in Submissions, Continues(s), Transaction(s)
  PROVE  StagedSeen' /\ EarnedIsReached'
<1>1. Typed /\ Typed'
  BY DEF LocksKept
<1>2. Grows
  BY TransactionGrows
<1>3. ASSUME NEW t \in Submissions, NEW a \in staged'[t]
      PROVE  SeesReached(t, a)'
  <2>1. CASE t = s
    BY <1>1, <1>2, <1>3, <2>1, StagedOwn
  <2>2. CASE t # s
    <3>1. /\ held'[t] = held[t] /\ draft'[t] = draft[t] /\ report'[t] = report[t]
          /\ staged'[t] = staged[t]
      BY <1>1, <2>2, OthersAlone DEF Actors
    <3>2. SeesReached(t, a) /\ a \in Achievements
      BY <1>1, <1>3, <3>1 DEF StagedSeen, Typed, TypeOK
    <3>3. QED
      BY <1>1, <1>2, <3>1, <3>2, SeesOn
  <2>3. QED
    BY <2>1, <2>2
<1>4. ASSUME NEW x \in earned'
      PROVE  IsReached(x[2], x[1])'
  <2>1. CASE x \in earned
    <3>1. x[1] \in Users /\ x[2] \in Achievements /\ IsReached(x[2], x[1])
      BY <1>1, <2>1 DEF EarnedIsReached, Typed, TypeOK
    <3>2. QED
      BY <1>1, <1>2, <3>1, ReachedOn
  <2>2. CASE x \notin earned
    <3>1. Commit(s) /\ \E a \in staged[s] : x = <<owner[s], a>>
      BY <2>2, <1>4, CountersStay DEF Commit
    <3>2. PICK a \in staged[s] : x = <<owner[s], a>>
      BY <3>1
    <3>3. SeesReached(s, a) /\ a \in Achievements
      BY <1>1, <3>2 DEF StagedSeen, Typed, TypeOK
    <3>4. IsReached(a, owner[s])'
      BY <1>1, <1>2, <3>1, <3>3, CommitReached
    <3>5. x[1] = owner[s] /\ x[2] = a
      BY <3>2
    <3>6. QED
      BY <3>4, <3>5
  <2>3. QED
    BY <2>1, <2>2
<1>5. QED
  BY <1>3, <1>4 DEF StagedSeen, EarnedIsReached

-----------------------------------------------------------------------------
(* The invariant                                                           *)

\* Every statement of every transaction preserves the invariant.
LEMMA TransactionKeeps ==
  ASSUME IInv, NEW s \in Submissions, Transaction(s)
  PROVE  IInv'
<1>1. /\ LocksKept /\ SolvedAttempted /\ StreaksPossible /\ StagedSeen /\ EarnedIsReached
      /\ \A t \in Submissions : Continues(t)
  BY DEF IInv
<1>2. LocksKept'
  BY <1>1, TransactionLocks
<1>3. SolvedAttempted'
  BY <1>1, SolvedAttemptedKept
<1>4. \A t \in Submissions : Continues(t)'
  BY <1>1, ContinuesOwn, ContinuesOther DEF LocksKept
<1>5. StreaksPossible'
  BY <1>1, StreaksKept
<1>6. StagedSeen' /\ EarnedIsReached'
  BY <1>1, <1>2, <1>3, ProfileKept
<1>7. QED
  BY <1>2, <1>3, <1>4, <1>5, <1>6 DEF IInv

\* The reaper and midnight preserve it too: they touch no transaction and no counter,
\* and no row that a report was stored for.
LEMMA ElsewhereKeeps ==
  ASSUME IInv, ReaperTx \/ Midnight
  PROVE  IInv'
<1>1. /\ LocksKept /\ SolvedAttempted /\ StreaksPossible /\ StagedSeen /\ EarnedIsReached
      /\ Typed /\ \A t \in Submissions : Continues(t)
  BY DEF IInv, LocksKept
<1>2. LocksKept' /\ Typed'
  BY <1>1, ElsewhereLocks DEF LocksKept
<1>3. /\ UNCHANGED <<pc, report, draft, today, staged>>
      /\ UNCHANGED <<result, total, accepted, attempts, solved, streak, earned>>
  BY DEF ReaperTx, Midnight, ReapBegin, ReapRow, ReapCommit, ReapVictim, committed, locals
<1>4. \A s \in Submissions : held'[s] = held[s]
  BY <1>1, PersistTxAssumption
  DEF ReaperTx, Midnight, ReapBegin, ReapRow, Lock, ReapCommit, ReapVictim, Typed, TypeOK, Actors
<1>5. SolvedAttempted' /\ \A t \in Submissions : Continues(t)'
  BY <1>1, <1>3 DEF SolvedAttempted, Continues, Pair
<1>6. StreaksPossible'
  <2>1. day \in Nat /\ day' \in Nat /\ day <= day'
    BY <1>1, PersistTxAssumption
    DEF ReaperTx, Midnight, ReapBegin, ReapRow, ReapCommit, ReapVictim, Typed, TypeOK
  <2>2. \A st \in Streaks : Possible(st) => Possible(st)'
    BY <2>1 DEF Possible, Streaks
  <2>3. \A u \in Users : Possible(streak[u])'
    BY <1>1, <1>3, <2>1 DEF StreaksPossible, Possible, Typed, TypeOK, Streaks
  <2>4. \A s \in Submissions : /\ today'[s] <= day'
                               /\ pc'[s] \in {"update_streak", "insert_streak"} => today'[s] > 0
    BY <1>1, <1>3, <2>1 DEF StreaksPossible, Typed, TypeOK
  <2>5. ASSUME NEW s \in Submissions, StreakRow(s) \in held'[s]
        PROVE  /\ Possible(draft[s].streak)'
               /\ streak'[owner[s]].longest <= draft'[s].streak.longest
    <3>1. /\ Possible(draft[s].streak) /\ draft[s].streak \in Streaks
          /\ streak[owner[s]].longest <= draft[s].streak.longest
      BY <1>1, <1>4, <2>5 DEF StreaksPossible, Typed, TypeOK
    <3>2. QED
      BY <1>3, <2>1, <3>1 DEF Possible, Streaks
  <2>6. QED
    BY <2>3, <2>4, <2>5 DEF StreaksPossible, StreakRow
<1>7. Grows
  <2>1. \A s \in Submissions : /\ status[s] # "ABSENT" => status'[s] # "ABSENT"
                               /\ status[s] = "COMPLETED" => status'[s] = "COMPLETED"
    <3>1. CASE ReapCommit
      <4>1. \A s \in Submissions : Row(s) \in held[Reaper] => status[s] = "RUNNING"
        BY <1>1, RowsDistinct DEF LocksKept, Swept
      <4>2. QED
        BY <3>1, <4>1 DEF ReapCommit
    <3>2. CASE ~ReapCommit
      BY <3>2 DEF ReaperTx, Midnight, ReapBegin, ReapRow, ReapVictim, committed
    <3>3. QED
      BY <3>1, <3>2
  <2>2. \A u \in Users : streak[u].longest <= streak'[u].longest
    BY <1>1, <1>3 DEF Typed, TypeOK, Streaks
  <2>3. QED
    BY <1>3, <2>1, <2>2 DEF Grows, SolvedBy, AcceptedOf, SubmittedBy
<1>8. StagedSeen'
  <2>1. ASSUME NEW t \in Submissions, NEW a \in staged'[t]
        PROVE  SeesReached(t, a)'
    <3>1. SeesReached(t, a) /\ a \in Achievements
      BY <1>1, <1>3 DEF StagedSeen, Typed, TypeOK
    <3>2. held'[t] = held[t] /\ draft'[t] = draft[t] /\ report'[t] = report[t]
      BY <1>3, <1>4
    <3>3. QED
      BY <1>1, <1>2, <1>5, <1>7, <3>1, <3>2, SeesOn
  <2>2. QED
    BY <2>1 DEF StagedSeen
<1>9. EarnedIsReached'
  <2>1. ASSUME NEW x \in earned'
        PROVE  IsReached(x[2], x[1])'
    <3>1. x[1] \in Users /\ x[2] \in Achievements /\ IsReached(x[2], x[1])
      BY <1>1, <1>3 DEF EarnedIsReached, Typed, TypeOK
    <3>2. QED
      BY <1>1, <1>2, <1>5, <1>7, <3>1, ReachedOn
  <2>2. QED
    BY <2>1 DEF EarnedIsReached
<1>10. QED
  BY <1>2, <1>5, <1>6, <1>8, <1>9 DEF IInv

\* Before the first submission everything is in order.
LEMMA InitInv == Init => IInv
<1> SUFFICES ASSUME Init
             PROVE  IInv
  OBVIOUS
<1>1. Typed
  BY PersistTxAssumption, ChecksListed
  DEF Init, Typed, TypeOK, IndexTyped, NoStreak, NoDraft, Streaks
<1>2. \A s \in Submissions : Footprint(s) /\ InOrder(s) /\ Continues(s)
  BY ChecksListed DEF Init, Footprint, InOrder, Continues, BeforeProgress, BeforeStreak,
                      Checking, NoDraft, Actors
<1>3. \A s \in Submissions : RowState(s)
  BY DEF Init, RowState, Statements, Verdicts, NoVerdict
<1>4. Exclusive /\ Swept
  BY DEF Init, Exclusive, Swept, Actors
<1>5. SolvedAttempted /\ StagedSeen /\ EarnedIsReached
  BY DEF Init, SolvedAttempted, StagedSeen, EarnedIsReached
<1>6. StreaksPossible
  BY DEF Init, StreaksPossible, Possible, NoStreak, Actors
<1>7. QED
  BY <1>1, <1>2, <1>3, <1>4, <1>5, <1>6 DEF IInv, LocksKept

\* Through every overlap of transactions, rollback, deadlock and sweep of the reaper the
\* invariant holds.
THEOREM PersistInv == Spec => []IInv
<1>1. ASSUME IInv, [Next]_vars
      PROVE  IInv'
  <2>1. CASE UNCHANGED vars
    <3>1. UNCHANGED <<committed, pc, locals, held, reaperVars, day>>
      BY <2>1 DEF vars
    <3>2. IInv' <=> IInv
      BY <3>1
      DEF IInv, LocksKept, Typed, TypeOK, IndexTyped, Footprint, InOrder, RowState, Exclusive,
          Swept, Continues, SolvedAttempted, StreaksPossible, Possible, StagedSeen,
          EarnedIsReached, SeesReached, IsReached, Reached, SolvedBy, AcceptedOf, SubmittedBy,
          StagedRows, Statistics, committed, locals, reaperVars
    <3>3. QED
      BY <1>1, <3>2
  <2>2. QED
    BY <1>1, <2>1, TransactionKeeps, ElsewhereKeeps DEF Next
<1>2. QED
  BY <1>1, InitInv, PTL DEF Spec

\* Types: every variable of every transaction keeps its type (_persist).
THEOREM PersistTypeOK == Spec => []TypeOK
<1>1. IInv => TypeOK
  BY DEF IInv, LocksKept, Typed
<1>2. QED
  BY <1>1, PersistInv, PTL

\* Deadlocks: however many transactions of _persist overlap, they never wait for each
\* other in a circle; every deadlock has the reaper in it.
THEOREM NoDeadlockAmongTransactions == Spec => []OnlyReaperDeadlocks
<1>1. IInv => OnlyReaperDeadlocks
  BY NoCycle DEF IInv
<1>2. QED
  BY <1>1, PersistInv, PTL

\* Profiles: no achievement is held that its user has not reached and no streak claims
\* days that have not passed (evaluate_achievements, record_streak).
THEOREM ProfilesAreTrue == Spec => []ProfileIsTrue
<1>1. IInv => ProfileIsTrue
  BY DEF IInv, StreaksPossible, Possible, ProfileIsTrue, StreakWithinDays
<1>2. QED
  BY <1>1, PersistInv, PTL

-----------------------------------------------------------------------------
(* The transactions are atomic towards the ledger                          *)

\* A step that leaves every row's phase, its report and the counters alone.
LedgerStutters == UNCHANGED <<Phase, result, total, accepted, attempts, solved>>

\* A step that leaves rows, reports and counters alone is a stutter of the ledger.
LEMMA StutterMapped ==
  ASSUME LedgerStutters
  PROVE  UNCHANGED Ledger!vars
BY DEF LedgerStutters, Ledger!vars

\* Closing some rows that are being judged, without a report, is one Close.
LEMMA CloseMapped ==
  ASSUME Typed, NEW S \in SUBSET Submissions,
         \A s \in S : status[s] = "RUNNING",
         status' = [s \in Submissions |-> IF s \in S THEN "FAILED" ELSE status[s]],
         UNCHANGED <<result, total, accepted, attempts, solved>>
  PROVE  Ledger!Close(S)
<1>1. \A s \in S : Phase[s] = "open"
  BY DEF Phase
<1>2. Phase' = [s \in Submissions |-> IF s \in S THEN "closed" ELSE Phase[s]]
  BY DEF Phase
<1>3. QED
  BY <1>1, <1>2 DEF Ledger!Close

\* The end of a transaction books its report, in one step with all its counters.
LEMMA CommitMapped ==
  ASSUME IInv, NEW s \in Submissions, Commit(s)
  PROVE  Ledger!Book(s, report[s]) /\ report[s] \in Verdicts
<1>1. LocksKept /\ Continues(s) /\ RowState(s) /\ Typed
  BY DEF IInv, LocksKept
<1>2. pc[s] = "commit"
  BY DEF Commit
<1>3. status[s] # "ABSENT" /\ result[s] = NoVerdict /\ report[s] \in Verdicts
  BY <1>1, <1>2 DEF RowState, Statements, Typed, TypeOK
<1>4. Phase[s] # "absent"
  BY <1>3 DEF Phase
<1>5. Phase' = [Phase EXCEPT ![s] = "closed"]
  <2>1. status' = [status EXCEPT ![s] = "COMPLETED"]
    BY DEF Commit
  <2>2. QED
    BY <1>1, <2>1 DEF Phase, Typed, TypeOK
<1>6. /\ total' = [total EXCEPT ![problemOf[s]] = @ + 1]
      /\ attempts' = [attempts EXCEPT ![Pair(s)] = @ + 1]
      /\ solved' = IF report[s] = "ACCEPTED" THEN solved \union {Pair(s)} ELSE solved
  BY <1>1, CommitHolds
<1>7. accepted' = IF report[s] = "ACCEPTED"
                  THEN [accepted EXCEPT ![problemOf[s]] = @ + 1] ELSE accepted
  <2>1. accepted' = [accepted EXCEPT ![problemOf[s]] =
                       @ + (IF report[s] = "ACCEPTED" THEN 1 ELSE 0)]
    BY <1>1, CommitHolds
  <2>2. CASE report[s] = "ACCEPTED"
    BY <2>1, <2>2
  <2>3. CASE report[s] # "ACCEPTED"
    <3>1. accepted \in [Problems -> Nat] /\ problemOf[s] \in Problems
      BY <1>1, RowsTyped DEF Typed, TypeOK
    <3>2. accepted[problemOf[s]] + 0 = accepted[problemOf[s]]
      BY <3>1
    <3>3. accepted' = [accepted EXCEPT ![problemOf[s]] = accepted[problemOf[s]]]
      BY <2>1, <2>3, <3>2
    <3>4. QED
      BY <2>3, <3>1, <3>3
  <2>4. QED
    BY <2>2, <2>3
<1>8. result' = [result EXCEPT ![s] = report[s]]
  BY DEF Commit
<1>9. QED
  BY <1>3, <1>4, <1>5, <1>6, <1>7, <1>8 DEF Ledger!Book, Ledger!Pair, Pair

\* Every step of every actor is one step of the ledger or none.
LEMMA StepMapped ==
  ASSUME IInv, [Next]_vars
  PROVE  [Ledger!Next]_(Ledger!vars)
<1> Typed /\ Swept /\ \A s \in Submissions : RowState(s)
  BY DEF IInv, LocksKept
<1>1. ASSUME NEW s \in Submissions, Transaction(s)
      PROVE  Ledger!Next \/ LedgerStutters
  <2>1. CASE \E v \in Verdicts : Begin(s, v)
    <3>1. /\ status[s] = "ABSENT" /\ status' = [status EXCEPT ![s] = "RUNNING"]
          /\ UNCHANGED <<result, total, accepted, attempts, solved>>
      BY <2>1 DEF Begin, RowState
    <3>2. Phase[s] = "absent" /\ Phase' = [Phase EXCEPT ![s] = "open"]
      BY <3>1 DEF Phase, Typed, TypeOK
    <3>3. QED
      BY <3>1, <3>2 DEF Ledger!Open, Ledger!Next
  <2>2. CASE Commit(s)
    BY <2>2, CommitMapped DEF Ledger!Next
  <2>3. CASE Fail(s)
    <3>1. /\ status[s] \in {"RUNNING", "FAILED"}
          /\ status' = [status EXCEPT ![s] = "FAILED"]
          /\ UNCHANGED <<result, total, accepted, attempts, solved>>
      BY <2>3 DEF Fail, RowState, Typed, TypeOK
    <3>2. CASE status[s] = "RUNNING"
      <4>1. status' = [t \in Submissions |-> IF t \in {s} THEN "FAILED" ELSE status[t]]
        BY <3>1 DEF Typed, TypeOK
      <4>2. Ledger!Close({s})
        BY <3>1, <3>2, <4>1, CloseMapped
      <4>3. QED
        BY <4>2 DEF Ledger!Next
    <3>3. CASE status[s] = "FAILED"
      <4>1. status' = status
        BY <3>1, <3>3 DEF Typed, TypeOK
      <4>2. QED
        BY <3>1, <4>1 DEF LedgerStutters, Phase
    <3>4. QED
      BY <3>1, <3>2, <3>3
  <2>4. CASE ~Commit(s) /\ ~Fail(s) /\ ~\E v \in Verdicts : Begin(s, v)
    <3>1. UNCHANGED <<status, result, total, accepted, attempts, solved>>
      BY <1>1, <2>4
      DEF Transaction, UpdateProblem, UpdateProgress, NoProgressRow, InsertProgress, FlushRow,
          ReadClock, UpdateStreak, NoStreakRow, InsertStreak, ReadEarned, Check,
          InsertAchievement, Abort, DeadlockVictim, committed
    <3>2. QED
      BY <3>1 DEF LedgerStutters, Phase
  <2>5. QED
    BY <2>1, <2>2, <2>3, <2>4
<1>2. CASE ReapCommit
  <2> DEFINE S == {s \in Submissions : Row(s) \in held[Reaper]}
  <2>1. \A s \in S : status[s] = "RUNNING"
    BY RowsDistinct DEF Swept
  <2>2. status' = [s \in Submissions |-> IF s \in S THEN "FAILED" ELSE status[s]]
    BY <1>2 DEF ReapCommit
  <2>3. S \in SUBSET Submissions /\ UNCHANGED <<result, total, accepted, attempts, solved>>
    BY <1>2 DEF ReapCommit
  <2> HIDE DEF S
  <2>4. Ledger!Close(S)
    BY <2>1, <2>2, <2>3, CloseMapped
  <2>5. QED
    BY <2>3, <2>4 DEF Ledger!Next
<1>3. CASE (ReaperTx /\ ~ReapCommit) \/ Midnight \/ UNCHANGED vars
  <2>1. UNCHANGED <<status, result, total, accepted, attempts, solved>>
    BY <1>3 DEF ReaperTx, ReapBegin, ReapRow, ReapVictim, Midnight, vars, committed
  <2>2. QED
    BY <2>1, StutterMapped DEF LedgerStutters, Phase
<1>4. QED
  BY <1>1, <1>2, <1>3, StutterMapped DEF Next

\* However its statements overlap with those of others, a transaction of _persist is one
\* step of the ledger: no attempt is lost, repeated or half counted.
THEOREM PersistRefinesLedger == Spec => ImplementsLedger
<1>1. Init => Ledger!Init
  <2> SUFFICES ASSUME Init PROVE Ledger!Init
    OBVIOUS
  <2>1. Phase = [s \in Submissions |-> "absent"]
    BY DEF Init, Phase
  <2>2. QED
    BY <2>1 DEF Init, Ledger!Init
<1>2. IInv /\ [Next]_vars => [Ledger!Next]_(Ledger!vars)
  BY StepMapped
<1>3. QED
  BY <1>1, <1>2, PersistInv, PTL DEF Spec, ImplementsLedger, Ledger!Spec
=============================================================================
