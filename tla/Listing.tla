------------------------------- MODULE Listing -------------------------------
(***************************************************************************)
(* The problem list.  It is filtered, ordered and cut into pages by the       *)
(* database, each page and each total in a query of its own, while judging   *)
(* changes the statistics and the progress that filters and orders use.      *)
(* Rows that an order leaves equal come in any order, and in each query in   *)
(* another one.                                                              *)
(***************************************************************************)
EXTENDS Integers, FiniteSets, Sequences, SequencesExt, FiniteSetsExt

CONSTANTS
  Listed,        \* published and visible problems; numbers, in the order of their ids
  title,         \* title[p], difficulty[p] (1 easy .. 3 hard), since[p] (published_at)
  difficulty,
  since,
  PageLimit,     \* the page size
  MaxTries       \* bound: submissions judged

ASSUME ListingAssumption ==
  /\ IsFiniteSet(Listed) /\ Listed \subseteq Nat
  /\ PageLimit \in Nat \ {0} /\ MaxTries \in Nat
  /\ \A p \in Listed : difficulty[p] \in 1 .. 3 /\ title[p] \in Nat /\ since[p] \in Nat

VARIABLES
  stats,      \* stats[p]: [total, accepted], as judging keeps them
  progress,   \* progress[p]: the caller's own
  walk,       \* a client that reads the list page by page, what it was shown, and (history)
              \* what matched when it began and whether anything was judged since
  tries

listingVars == <<stats, progress, walk, tries>>

Sorts == {"newest", "title", "difficulty", "acceptance"}
Filters == {"all", "solved", "unsolved", "attempted", "accepted"}
NoWalk == [at |-> "idle", sort |-> "newest", filter |-> "all", page |-> 1, total |-> 0, shown |-> << >>,
           matching |-> {}, undisturbed |-> TRUE]

ListingTypeOK ==
  /\ \A p \in Listed : /\ stats[p].accepted \in 0 .. stats[p].total /\ stats[p].total <= tries
                       /\ progress[p] \in {"none", "ATTEMPTED", "SOLVED"}
  /\ tries \in 0 .. MaxTries
  /\ walk.at \in {"idle", "count", "rows", "done"} /\ walk.sort \in Sorts /\ walk.filter \in Filters
  /\ walk.shown \in Seq(Listed) /\ walk.page \in Nat \ {0}

ListingInit ==
  /\ stats = [p \in Listed |-> [total |-> 0, accepted |-> 0]]
  /\ progress = [p \in Listed |-> "none"]
  /\ walk = NoWalk /\ tries = 0

-----------------------------------------------------------------------------
(* Filters and orders                                                       *)

\* Problem.acceptance_rate, in percent; a problem without submissions has none.
Rated(p) == stats[p].total > 0
Rate(p) == (stats[p].accepted * 100) \div stats[p].total

\* _filtered; "accepted" stands for min_acceptance and max_acceptance, which no NULL passes.
Matches(p, filter) ==
  CASE filter = "all" -> TRUE
    [] filter = "solved" -> progress[p] = "SOLVED"
    [] filter = "attempted" -> progress[p] = "ATTEMPTED"
    [] filter = "unsolved" -> progress[p] # "SOLVED"
    [] filter = "accepted" -> Rated(p) /\ Rate(p) >= 50

Found(filter) == {p \in Listed : Matches(p, filter)}

\* The keys of the order, most significant first; nulls last.
ByRate(p) == IF Rated(p) THEN -Rate(p) ELSE 1
KeysOf(p, sort) ==
  CASE sort = "newest" -> <<-since[p], title[p], p>>
    [] sort = "title" -> <<title[p], p>>
    [] sort = "difficulty" -> <<difficulty[p], title[p], p>>
    [] sort = "acceptance" -> <<ByRate(p), title[p], p>>

\* A wrong Precedes: the id is left out of the keys.
PrecedesWithTies(p, q, sort) ==
  LET n == Len(KeysOf(p, sort)) - 1
      k == SubSeq(KeysOf(p, sort), 1, n)
      l == SubSeq(KeysOf(q, sort), 1, n)
  IN \E i \in 1 .. n : k[i] < l[i] /\ \A j \in 1 .. i - 1 : k[j] = l[j]

\* _ordered
Precedes(p, q, sort) ==
  LET k == KeysOf(p, sort)
      l == KeysOf(q, sort)
  IN \E i \in 1 .. Len(k) : k[i] < l[i] /\ \A j \in 1 .. i - 1 : k[j] = l[j]

\* What a query may return: any sequence that the order allows.
Answers(set, sort) ==
  {s \in SetToSeqs(set) : \A i, j \in DOMAIN s : i < j => ~Precedes(s[j], s[i], sort)}

\* OFFSET and LIMIT.
PageOf(s, page) == SubSeq(s, (page - 1) * PageLimit + 1, Min({page * PageLimit, Len(s)}))

-----------------------------------------------------------------------------
(* list_problems: a total, then the rows of the page                        *)

OpenList ==
  /\ walk.at = "idle"
  /\ \E sort \in Sorts, filter \in Filters :
       walk' = [NoWalk EXCEPT !.at = "count", !.sort = sort, !.filter = filter,
                              !.matching = Found(filter)]
  /\ UNCHANGED <<stats, progress, tries>>

CountRows ==
  /\ walk.at = "count"
  /\ walk' = [walk EXCEPT !.at = "rows", !.total = Cardinality(Found(walk.filter))]
  /\ UNCHANGED <<stats, progress, tries>>

\* The client goes on while pages are left, as Page.build counts them.
ReadPage ==
  /\ walk.at = "rows"
  /\ \E s \in Answers(Found(walk.filter), walk.sort) :
       walk' = [walk EXCEPT !.shown = walk.shown \o PageOf(s, walk.page), !.page = walk.page + 1,
                            !.at = IF walk.page * PageLimit < walk.total THEN "count" ELSE "done"]
  /\ UNCHANGED <<stats, progress, tries>>

-----------------------------------------------------------------------------
\* A judged submission, as the judge books it: of the caller or of somebody else.
JudgeOne ==
  /\ tries < MaxTries
  /\ tries' = tries + 1
  /\ \E p \in Listed, accepted \in BOOLEAN, mine \in BOOLEAN :
       /\ stats' = [stats EXCEPT ![p].total = @ + 1,
                               ![p].accepted = IF accepted THEN @ + 1 ELSE @]
       /\ progress' = IF ~mine \/ progress[p] = "SOLVED" THEN progress
                      ELSE [progress EXCEPT ![p] = IF accepted THEN "SOLVED" ELSE "ATTEMPTED"]
  /\ walk' = [walk EXCEPT !.undisturbed = walk.at \in {"idle", "done"} /\ walk.undisturbed]

ListingNext == OpenList \/ CountRows \/ ReadPage \/ JudgeOne

ListingSpec == ListingInit /\ [][ListingNext]_listingVars

-----------------------------------------------------------------------------
\* A client that reads a list to its end sees every match exactly once, under
\* every filter and order and however many rows are equal, when nothing is judged meanwhile.
PagesCoverList ==
  walk.at = "done" /\ walk.undisturbed =>
    /\ Len(walk.shown) = walk.total
    /\ {walk.shown[i] : i \in DOMAIN walk.shown} = walk.matching
=============================================================================
