----------------------------- MODULE RateLimiter -----------------------------
(***************************************************************************)
(* The sliding window of one scope and one client, as a sorted set in       *)
(* Redis.  A request reads the clock, adds itself and counts in one         *)
(* transaction, and takes itself out again in a later call if it was one    *)
(* too many; requests of the same client do all this at the same time.      *)
(***************************************************************************)
EXTENDS Integers, FiniteSets

CONSTANTS
  MaxHits,    \* requests that a window admits
  Window,     \* length of the window
  Hits,       \* bound: requests that are ever made, in order of their numbers
  MaxTime     \* bound: how long the behaviour lasts

ASSUME RateLimiterAssumption ==
  /\ MaxHits \in Nat \ {0} /\ Window \in Nat \ {0} /\ MaxTime \in Nat
  /\ Hits \subseteq Nat /\ IsFiniteSet(Hits)

VARIABLES
  time,       \* time.time(), the same for all API processes
  window,     \* the sorted set: the requests in it, scored with their stamp
  hit         \* hit[h]: where request h is, its stamp (now) and what it was told; with the
              \* history of whether one that was over the limit was in the set when it counted
              \* (crowded), one with a later stamp had counted before it (overtaken), or the set
              \* was deleted after it was admitted (forgotten)

limiterVars == <<time, window, hit>>

States == {"new", "stamped", "over", "removed", "allowed", "rejected", "unlimited"}

LimiterTypeOK ==
  /\ time \in 0 .. MaxTime
  /\ window \in SUBSET Hits
  /\ hit \in [Hits -> [at : States, stamp : 0 .. MaxTime, crowded : BOOLEAN,
                       overtaken : BOOLEAN, forgotten : BOOLEAN,
                       retryAfter : 0 .. 2 * Window]]

LimiterInit ==
  /\ time = 0
  /\ window = {}
  /\ hit = [h \in Hits |-> [at |-> "new", stamp |-> 0, crowded |-> FALSE,
                           overtaken |-> FALSE, forgotten |-> FALSE, retryAfter |-> 0]]

Since(h, set) == {e \in set : hit[e].stamp > hit[h].stamp - Window}

-----------------------------------------------------------------------------
Stamp(h) ==
  /\ hit[h].at = "new" /\ \A o \in Hits : o < h => hit[o].at # "new"
  /\ hit' = [hit EXCEPT ![h].at = "stamped", ![h].stamp = time]
  /\ UNCHANGED <<time, window>>

\* The transaction: forget what has left the window, add, count, and let the whole
\* key expire (by then everything in it has left the window).
Count(h) ==
  LET others == Since(h, window) IN
  /\ hit[h].at = "stamped"
  /\ window' = others \union {h}
  /\ hit' = [hit EXCEPT
       ![h].at = IF Cardinality(others \union {h}) <= MaxHits THEN "allowed" ELSE "over",
       ![h].crowded = \E o \in others : hit[o].at = "over",
       ![h].overtaken = \E o \in Hits : /\ hit[o].at \notin {"new", "stamped"}
                                         /\ hit[o].stamp > hit[h].stamp]
  /\ UNCHANGED time

\* A wrong RemoveHit: a rejected request stays in the window.
RemoveNothing(h) ==
  /\ hit[h].at = "over"
  /\ window' = window
  /\ hit' = [hit EXCEPT ![h].at = "removed"]
  /\ UNCHANGED time

RemoveHit(h) ==
  /\ hit[h].at = "over"
  /\ window' = window \ {h}
  /\ hit' = [hit EXCEPT ![h].at = "removed"]
  /\ UNCHANGED time

\* Retry-After: until the oldest of those in the window leaves it, at least 1.
Reject(h) ==
  LET stamps == {hit[e].stamp : e \in window}
      oldest == CHOOSE s \in stamps : \A o \in stamps : s <= o
      wait == IF stamps = {} THEN Window ELSE oldest + Window - hit[h].stamp IN
  /\ hit[h].at = "removed"
  /\ hit' = [hit EXCEPT ![h].at = "rejected", ![h].retryAfter = IF wait < 1 THEN 1 ELSE wait]
  /\ UNCHANGED <<time, window>>

\* Redis is away at either call: the request is let through.  What was executed
\* before the connection broke has happened all the same.
Outage(h) ==
  /\ \/ hit[h].at = "stamped" /\ window' \in {window, Since(h, window) \union {h}}
     \/ hit[h].at = "over" /\ window' \in {window, window \ {h}}
     \/ hit[h].at = "removed" /\ UNCHANGED window
  /\ hit' = [hit EXCEPT ![h].at = "unlimited"]
  /\ UNCHANGED time

\* _reset_account_limit: a login that was let through and succeeds deletes the whole set of its
\* account, which other logins may be using.  (Only this scope does; without Redis it stays.)
ResetKey(h) ==
  /\ hit[h].at \in {"allowed", "unlimited"}
  /\ window' = {}
  /\ hit' = [e \in Hits |-> [hit[e] EXCEPT !.forgotten = @ \/ hit[e].at = "allowed"]]
  /\ UNCHANGED time

\* The clock moves on; a request is handled within the window that it started in.
Tick ==
  /\ time < MaxTime
  /\ \A h \in Hits :
       hit[h].at \in {"stamped", "over", "removed"} => time + 1 < hit[h].stamp + Window
  /\ time' = time + 1
  /\ UNCHANGED <<window, hit>>

LimiterNext ==
  \/ \E h \in Hits :
       Stamp(h) \/ Count(h) \/ RemoveHit(h) \/ Reject(h) \/ Outage(h) \/ ResetKey(h)
  \/ Tick

LimiterSpec == LimiterInit /\ [][LimiterNext]_limiterVars

-----------------------------------------------------------------------------
Told(what) == {h \in Hits : hit[h].at = what}
InWindow(h, set) == {e \in set : hit[e].stamp \in hit[h].stamp - Window + 1 .. hit[h].stamp}

\* The limiter admits what it promises, no more and no less.  No window holds more
\* than MaxHits admitted requests, except for those that were overtaken by a request with
\* a later stamp, which had made room in the set already, and, for the logins to an account,
\* those before a successful one, which starts again from none.  And a request is rejected only
\* if that many were admitted (or let through) since its window began: rejected ones do
\* not count, except while they are still in the set, where another request counts them.
LimitIsExact ==
  /\ \A h \in Told("allowed") :
       Cardinality({e \in InWindow(h, Told("allowed")) :
                      ~hit[e].overtaken /\ ~hit[e].forgotten}) <= MaxHits
  /\ \A h \in Told("rejected") : ~hit[h].crowded =>
       Cardinality(Since(h, (Told("allowed") \union Told("unlimited")) \ {h})) >= MaxHits
=============================================================================
