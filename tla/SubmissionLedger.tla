-------------------------- MODULE SubmissionLedger --------------------------
(***************************************************************************)
(* What judging promises to the rest of the platform, without queues,      *)
(* workers or crashes.  A submission is opened once, closed once and never *)
(* reopened; its verdict enters the books at most once; and every counter  *)
(* the site shows (problem statistics, attempts, solved problems) moves in *)
(* the very step that books the verdict.                                   *)
(*                                                                         *)
(* A verdict may still be booked for a submission that was closed without  *)
(* one: the reaper can give up on a submission that a worker is judging.   *)
(***************************************************************************)
EXTENDS Integers, FiniteSets

CONSTANTS
  Submissions,   \* ids of submissions
  Users,
  Problems,
  owner,         \* owner[s]: the user who submitted s
  problemOf,     \* problemOf[s]: the problem s answers
  Verdicts,      \* what a judge can report about the user's code
  NoVerdict      \* nothing reported

\* The constants make sense.  Judging's do, so this is a definition that its
\* instance can be shown to satisfy, and no ASSUME.
WellFormed ==
  /\ IsFiniteSet(Submissions)
  /\ owner \in [Submissions -> Users]
  /\ problemOf \in [Submissions -> Problems]
  /\ "ACCEPTED" \in Verdicts
  /\ NoVerdict \notin Verdicts

VARIABLES
  phase,      \* phase[s] \in {"absent", "open", "closed"}
  booked,     \* booked[s]: the verdict in the books, or NoVerdict
  total,      \* total[p]: problems.total_submissions
  accepted,   \* accepted[p]: problems.accepted_submissions
  attempts,   \* attempts[<<u, p>>]: user_problem_progress.attempts
  solved      \* pairs <<u, p>> whose progress row says SOLVED

vars == <<phase, booked, total, accepted, attempts, solved>>

Pair(s) == <<owner[s], problemOf[s]>>

Init ==
  /\ phase = [s \in Submissions |-> "absent"]
  /\ booked = [s \in Submissions |-> NoVerdict]
  /\ total = [p \in Problems |-> 0]
  /\ accepted = [p \in Problems |-> 0]
  /\ attempts = [x \in Users \X Problems |-> 0]
  /\ solved = {}

Open(s) ==
  /\ phase[s] = "absent"
  /\ phase' = [phase EXCEPT ![s] = "open"]
  /\ UNCHANGED <<booked, total, accepted, attempts, solved>>

\* Some open submissions are given up together.
Close(S) ==
  /\ \A s \in S : phase[s] = "open"
  /\ phase' = [s \in Submissions |-> IF s \in S THEN "closed" ELSE phase[s]]
  /\ UNCHANGED <<booked, total, accepted, attempts, solved>>

\* A wrong Book: a submission that is judged twice is counted twice.
BookAgain(s, v) ==
  /\ phase[s] # "absent"
  /\ phase' = [phase EXCEPT ![s] = "closed"]
  /\ booked' = [booked EXCEPT ![s] = v]
  /\ total' = [total EXCEPT ![problemOf[s]] = @ + 1]
  /\ accepted' = IF v = "ACCEPTED"
                 THEN [accepted EXCEPT ![problemOf[s]] = @ + 1] ELSE accepted
  /\ attempts' = [attempts EXCEPT ![Pair(s)] = @ + 1]
  /\ solved' = IF v = "ACCEPTED" THEN solved \union {Pair(s)} ELSE solved

Book(s, v) ==
  /\ phase[s] # "absent"
  /\ booked[s] = NoVerdict
  /\ phase' = [phase EXCEPT ![s] = "closed"]
  /\ booked' = [booked EXCEPT ![s] = v]
  /\ total' = [total EXCEPT ![problemOf[s]] = @ + 1]
  /\ accepted' = IF v = "ACCEPTED"
                 THEN [accepted EXCEPT ![problemOf[s]] = @ + 1] ELSE accepted
  /\ attempts' = [attempts EXCEPT ![Pair(s)] = @ + 1]
  /\ solved' = IF v = "ACCEPTED" THEN solved \union {Pair(s)} ELSE solved

Next ==
  \/ \E s \in Submissions : Open(s)
  \/ \E S \in SUBSET Submissions : Close(S)
  \/ \E s \in Submissions, v \in Verdicts : Book(s, v)

Spec == Init /\ [][Next]_vars

-----------------------------------------------------------------------------
TypeOK ==
  /\ phase \in [Submissions -> {"absent", "open", "closed"}]
  /\ booked \in [Submissions -> Verdicts \union {NoVerdict}]
  /\ total \in [Problems -> Nat]
  /\ accepted \in [Problems -> Nat]
  /\ attempts \in [Users \X Problems -> Nat]
  /\ solved \in SUBSET (Users \X Problems)

BookedFor(p) == {s \in Submissions : problemOf[s] = p /\ booked[s] # NoVerdict}
AcceptedFor(p) == {s \in Submissions : problemOf[s] = p /\ booked[s] = "ACCEPTED"}
BookedBy(x) == {s \in Submissions : Pair(s) = x /\ booked[s] # NoVerdict}

\* Every counter equals what a query over the booked verdicts would return:
\* problem statistics, a user's attempts at a problem and the SOLVED flag
\* never lose, repeat or invent a judged submission (_persist).
CountersMatchBooks ==
  /\ \A p \in Problems : /\ total[p] = Cardinality(BookedFor(p))
                         /\ accepted[p] = Cardinality(AcceptedFor(p))
  /\ \A x \in Users \X Problems : attempts[x] = Cardinality(BookedBy(x))
  /\ solved = {Pair(s) : s \in {t \in Submissions : booked[t] = "ACCEPTED"}}
=============================================================================
