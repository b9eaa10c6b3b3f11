------------------------ MODULE SubmissionLedgerProofs ------------------------
(***************************************************************************)
(* Every counter agrees with the booked verdicts, for any number of        *)
(* submissions, users and problems.                                        *)
(***************************************************************************)
EXTENDS SubmissionLedger, FiniteSetTheorems, TLAPS

\* Counting over submissions stays within a finite set.
LEMMA BookedSetsFinite ==
  ASSUME WellFormed
  PROVE  /\ \A p \in Problems : IsFiniteSet(BookedFor(p)) /\ IsFiniteSet(AcceptedFor(p))
         /\ \A x \in Users \X Problems : IsFiniteSet(BookedBy(x))
<1>1. \A T \in SUBSET Submissions : IsFiniteSet(T)
  BY FS_Subset DEF WellFormed
<1>2. QED
  BY <1>1 DEF BookedFor, AcceptedFor, BookedBy

\* A counter that goes up by one when its set gains one new member still counts it.
LEMMA CountNewMember ==
  ASSUME NEW S, NEW x, IsFiniteSet(S), x \notin S
  PROVE  Cardinality(S \union {x}) = Cardinality(S) + 1
BY FS_AddElement

\* Every variable keeps its type: in particular the counters stay natural numbers.
THEOREM LedgerTyped ==
  ASSUME WellFormed
  PROVE  Spec => []TypeOK
<1>1. Init => TypeOK
  BY DEF Init, TypeOK
<1>2. ASSUME TypeOK, [Next]_vars
      PROVE  TypeOK'
  <2>1. ASSUME NEW s \in Submissions, Open(s)
        PROVE  TypeOK'
    BY <1>2, <2>1 DEF TypeOK, Open
  <2>2. ASSUME NEW S \in SUBSET Submissions, Close(S)
        PROVE  TypeOK'
    BY <1>2, <2>2 DEF TypeOK, Close
  <2>3. ASSUME NEW s \in Submissions, NEW v \in Verdicts, Book(s, v)
        PROVE  TypeOK'
    <3>1. problemOf[s] \in Problems /\ Pair(s) \in Users \X Problems
      BY DEF WellFormed, Pair
    <3>2. /\ phase' \in [Submissions -> {"absent", "open", "closed"}]
          /\ booked' \in [Submissions -> Verdicts \union {NoVerdict}]
      BY <1>2, <2>3 DEF TypeOK, Book
    <3>3. /\ total' \in [Problems -> Nat]
          /\ accepted' \in [Problems -> Nat]
      BY <1>2, <2>3, <3>1 DEF TypeOK, Book
    <3>4. attempts' \in [Users \X Problems -> Nat]
      BY <1>2, <2>3, <3>1 DEF TypeOK, Book
    <3>5. solved' \in SUBSET (Users \X Problems)
      BY <1>2, <2>3, <3>1 DEF TypeOK, Book
    <3>6. QED
      BY <3>2, <3>3, <3>4, <3>5 DEF TypeOK
  <2>4. CASE UNCHANGED vars
    BY <1>2, <2>4 DEF TypeOK, vars
  <2>5. QED
    BY <1>2, <2>1, <2>2, <2>3, <2>4 DEF Next
<1>3. QED
  BY <1>1, <1>2, PTL DEF Spec

\* Nothing but the booked verdicts enters the counters' definition.
LEMMA SameBooksSameCounts ==
  ASSUME CountersMatchBooks,
         UNCHANGED <<booked, total, accepted, attempts, solved>>
  PROVE  CountersMatchBooks'
BY DEF CountersMatchBooks, BookedFor, AcceptedFor, BookedBy

\* The step that books a verdict moves every counter with it.
LEMMA BookKeepsCounts ==
  ASSUME WellFormed, TypeOK, CountersMatchBooks,
         NEW s \in Submissions, NEW v \in Verdicts, Book(s, v)
  PROVE  CountersMatchBooks'
<1> USE DEF CountersMatchBooks
<1>1. problemOf[s] \in Problems /\ Pair(s) \in Users \X Problems
  BY DEF WellFormed, Pair
<1>2. v # NoVerdict /\ booked[s] = NoVerdict /\ "ACCEPTED" # NoVerdict
  BY DEF WellFormed, Book
<1>3. \A t \in Submissions : booked'[t] = IF t = s THEN v ELSE booked[t]
  BY DEF TypeOK, Book
<1>4. ASSUME NEW p \in Problems
      PROVE  total'[p] = Cardinality(BookedFor(p)')
  <2>1. total'[p] = IF p = problemOf[s] THEN total[p] + 1 ELSE total[p]
    BY <1>1 DEF TypeOK, Book
  <2>2. CASE p = problemOf[s]
    <3>1. BookedFor(p)' = BookedFor(p) \union {s} /\ s \notin BookedFor(p)
      BY <1>2, <1>3, <2>2 DEF BookedFor
    <3>2. QED
      BY <2>1, <2>2, <3>1, BookedSetsFinite, CountNewMember
  <2>3. CASE p # problemOf[s]
    <3>1. BookedFor(p)' = BookedFor(p)
      BY <1>3, <2>3 DEF BookedFor
    <3>2. QED
      BY <2>1, <2>3, <3>1
  <2>4. QED
    BY <2>2, <2>3
<1>5. ASSUME NEW p \in Problems
      PROVE  accepted'[p] = Cardinality(AcceptedFor(p)')
  <2>1. accepted'[p] = IF v = "ACCEPTED" /\ p = problemOf[s]
                       THEN accepted[p] + 1 ELSE accepted[p]
    BY <1>1 DEF TypeOK, Book
  <2>2. CASE v = "ACCEPTED" /\ p = problemOf[s]
    <3>1. AcceptedFor(p)' = AcceptedFor(p) \union {s} /\ s \notin AcceptedFor(p)
      BY <1>2, <1>3, <2>2 DEF AcceptedFor
    <3>2. QED
      BY <2>1, <2>2, <3>1, BookedSetsFinite, CountNewMember
  <2>3. CASE ~(v = "ACCEPTED" /\ p = problemOf[s])
    <3>1. AcceptedFor(p)' = AcceptedFor(p)
      BY <1>2, <1>3, <2>3 DEF AcceptedFor
    <3>2. QED
      BY <2>1, <2>3, <3>1
  <2>4. QED
    BY <2>2, <2>3
<1>6. ASSUME NEW x \in Users \X Problems
      PROVE  attempts'[x] = Cardinality(BookedBy(x)')
  <2>1. attempts'[x] = IF x = Pair(s) THEN attempts[x] + 1 ELSE attempts[x]
    BY <1>1 DEF TypeOK, Book
  <2>2. CASE x = Pair(s)
    <3>1. BookedBy(x)' = BookedBy(x) \union {s} /\ s \notin BookedBy(x)
      BY <1>2, <1>3, <2>2 DEF BookedBy, Pair
    <3>2. QED
      BY <2>1, <2>2, <3>1, BookedSetsFinite, CountNewMember
  <2>3. CASE x # Pair(s)
    <3>1. BookedBy(x)' = BookedBy(x)
      BY <1>3, <2>3 DEF BookedBy, Pair
    <3>2. QED
      BY <2>1, <2>3, <3>1
  <2>4. QED
    BY <2>2, <2>3
<1>7. solved' = {Pair(t) : t \in {r \in Submissions : booked'[r] = "ACCEPTED"}}
  <2>1. CASE v = "ACCEPTED"
    <3>1. {r \in Submissions : booked'[r] = "ACCEPTED"}
            = {r \in Submissions : booked[r] = "ACCEPTED"} \union {s}
      BY <1>3, <2>1
    <3>2. solved' = solved \union {Pair(s)}
      BY <2>1 DEF Book
    <3>3. QED
      BY <3>1, <3>2
  <2>2. CASE v # "ACCEPTED"
    <3>1. {r \in Submissions : booked'[r] = "ACCEPTED"}
            = {r \in Submissions : booked[r] = "ACCEPTED"}
      BY <1>2, <1>3, <2>2
    <3>2. solved' = solved
      BY <2>2 DEF Book
    <3>3. QED
      BY <3>1, <3>2
  <2>3. QED
    BY <2>1, <2>2
<1>8. QED
  BY <1>4, <1>5, <1>6, <1>7 DEF Pair

\* Problem statistics, attempts and SOLVED flags never lose, repeat or invent a
\* judged submission (the transaction of _persist).
THEOREM LedgerCountersCorrect ==
  ASSUME WellFormed
  PROVE  Spec => []CountersMatchBooks
<1>1. Init => CountersMatchBooks
  <2>1. SUFFICES ASSUME Init PROVE CountersMatchBooks
    OBVIOUS
  <2>2. /\ \A p \in Problems : BookedFor(p) = {} /\ AcceptedFor(p) = {}
        /\ \A x \in Users \X Problems : BookedBy(x) = {}
        /\ {t \in Submissions : booked[t] = "ACCEPTED"} = {}
    BY <2>1 DEF WellFormed, Init, BookedFor, AcceptedFor, BookedBy
  <2>3. /\ \A p \in Problems : total[p] = 0 /\ accepted[p] = 0
        /\ \A x \in Users \X Problems : attempts[x] = 0
        /\ solved = {}
    BY <2>1 DEF Init
  <2>4. QED
    BY <2>2, <2>3, FS_EmptySet DEF CountersMatchBooks
<1>2. ASSUME TypeOK, CountersMatchBooks, [Next]_vars
      PROVE  CountersMatchBooks'
  <2>1. ASSUME NEW s \in Submissions, Open(s)
        PROVE  CountersMatchBooks'
    BY <1>2, <2>1, SameBooksSameCounts DEF Open
  <2>2. ASSUME NEW S \in SUBSET Submissions, Close(S)
        PROVE  CountersMatchBooks'
    BY <1>2, <2>2, SameBooksSameCounts DEF Close
  <2>3. ASSUME NEW s \in Submissions, NEW v \in Verdicts, Book(s, v)
        PROVE  CountersMatchBooks'
    BY <1>2, <2>3, BookKeepsCounts
  <2>4. CASE UNCHANGED vars
    BY <1>2, <2>4, SameBooksSameCounts DEF vars
  <2>5. QED
    BY <1>2, <2>1, <2>2, <2>3, <2>4 DEF Next
<1>3. QED
  BY <1>1, <1>2, LedgerTyped, PTL DEF Spec
=============================================================================
