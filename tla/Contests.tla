------------------------------ MODULE Contests ------------------------------
(***************************************************************************)
(* One contest: its editing and publishing, registration, submissions that  *)
(* are judged while it runs and after it has ended, and the standings that   *)
(* every viewer gets, computed from the submissions or from a short cache.  *)
(* A handler that checks first and writes later is two steps, with the       *)
(* clock (in minutes) and the other handlers in between.                    *)
(***************************************************************************)
EXTENDS Integers, FiniteSets, FiniteSetsExt

CONSTANTS
  Participants,
  ContestVerdicts, \* what the judge may say of a submission
  ContestProblems, \* problems that may be part of it, all worth the same
  Points,        \* contest_problems.points
  Penalty,       \* contests.penalty_minutes
  Starts, Ends,  \* the times an admin may choose
  Subs,          \* bound: submissions that are ever made, in order of created_at
  Viewers,       \* bound: viewers that compute at the same time
  Delay,         \* bound: minutes that a handler may take
  CacheTtl,      \* _STANDINGS_CACHE_TTL_SECONDS, rounded up to minutes
  MaxClock       \* bound: how long the behaviour lasts

ASSUME ContestsAssumption ==
  /\ Starts \union Ends \subseteq Nat /\ Subs \subseteq Nat /\ IsFiniteSet(Subs)
  /\ IsFiniteSet(Participants) /\ IsFiniteSet(ContestProblems)
  /\ {Points, Penalty, Delay, CacheTtl, MaxClock} \subseteq Nat

VARIABLES
  clock,
  contest,     \* the row and its contest_problems
  edit,        \* an update_contest that has passed its checks
  registered,  \* contest_participants
  sub,         \* sub[s]: a submission with this contest_id, and whether it was ever completed
  cache,       \* the entry standings:<id> and, with it, since when it is out of date
  view,        \* view[v]: what a viewer has computed and not stored yet
  overran      \* history: an edit was checked before the start and written after it

contestVars == <<clock, contest, edit, registered, sub, cache, view, overran>>

NotAnAttempt == {"SYSTEM_ERROR", "COMPILATION_ERROR"}

-----------------------------------------------------------------------------
(* Standings                                                               *)

\* A wrong Scored: what is made after the end counts as well.
ScoredLate(u, p) ==
  {s \in Subs : /\ sub[s].status = "COMPLETED" /\ sub[s].by = u /\ sub[s].problem = p
                /\ sub[s].at >= contest.start}

\* Rows with this contest_id, completed, and made in the time of the contest.
Scored(u, p) ==
  {s \in Subs : /\ sub[s].status = "COMPLETED" /\ sub[s].by = u /\ sub[s].problem = p
                /\ sub[s].at \in contest.start .. contest.end}

Counting(subs) == {s \in subs : sub[s].verdict \notin NotAnAttempt}
Accepted(subs) == {s \in subs : sub[s].verdict = "ACCEPTED"}

\* Only attempts before the first accepted one cost a penalty.
Cell(u, p) ==
  LET tries == Scored(u, p)
      accepted == Accepted(tries)
      cell == [problem |-> p, solved |-> accepted # {},
               attempts |-> Cardinality(Counting(tries)), penalty |-> 0, at |-> 0]
  IN IF accepted = {} THEN cell
     ELSE LET first == Min(accepted)
              wrong == Cardinality(Counting({s \in tries : s < first}))
          IN [cell EXCEPT !.attempts = wrong, !.at = sub[first].at,
                          !.penalty = sub[first].at - contest.start + wrong * Penalty]

PointsOf(u) == Points * Cardinality({p \in contest.problems : Accepted(Scored(u, p)) # {}})

StandingsRow(u) ==
  LET cells == {Cell(u, p) : p \in contest.problems}
      solved == {c \in cells : c.solved}
  IN [user |-> u, cells |-> cells,
      points |-> PointsOf(u),
      penalty |-> MapThenSumSet(LAMBDA c : c.penalty, solved),
      last |-> Max({0} \union {c.at : c \in solved})]

Better(r, q) ==
  \/ r.points > q.points
  \/ r.points = q.points /\ r.penalty < q.penalty
  \/ r.points = q.points /\ r.penalty = q.penalty /\ r.last < q.last

\* Rows that tie are ranked in no particular order, here all with the best of their ranks.
Rows == {StandingsRow(u) : u \in registered}
Standings == {[row |-> r, rank |-> 1 + Cardinality({q \in Rows : Better(q, r)})] : r \in Rows}

-----------------------------------------------------------------------------
NoSub == [status |-> "absent", by |-> "", problem |-> "", at |-> 0, verdict |-> "NONE",
          judged |-> FALSE]
NoEdit == [at |-> "none", since |-> 0, start |-> 0, end |-> 0, problems |-> {}]
Never == MaxClock + 1
NoStandings == [present |-> FALSE, time |-> 0, old |-> Never]

ContestsTypeOK ==
  /\ clock \in 0 .. MaxClock
  /\ contest.start \in Starts /\ contest.end \in Ends
  /\ contest.problems \subseteq ContestProblems /\ contest.published \in BOOLEAN
  /\ edit.at \in {"none", "checked"} /\ edit.problems \subseteq ContestProblems
  /\ registered \subseteq Participants
  /\ \A s \in Subs :
       /\ sub[s].status \in {"absent", "checked", "QUEUED", "COMPLETED", "FAILED"}
       /\ sub[s].verdict \in ContestVerdicts \union {"SYSTEM_ERROR", "NONE"}
       /\ sub[s].judged \in BOOLEAN /\ (sub[s].status = "COMPLETED" => sub[s].judged)
       /\ sub[s].status \notin {"absent", "checked"} => sub[s].by \in registered
  /\ \A e \in {cache} \union {view[v] : v \in Viewers} :
       e.present \in BOOLEAN /\ {e.time, e.old} \subseteq Nat
  /\ overran \in BOOLEAN

\* create_contest: a draft with its problems.
ContestsInit ==
  /\ clock = 0
  /\ \E a \in Starts, b \in Ends, ps \in SUBSET ContestProblems :
       contest = [published |-> FALSE, start |-> a, end |-> b, problems |-> ps]
  /\ edit = NoEdit
  /\ registered = {}
  /\ sub = [s \in Subs |-> NoSub]
  /\ cache = NoStandings /\ view = [v \in Viewers |-> NoStandings]
  /\ overran = FALSE

Started == clock >= contest.start
ContestOver == clock > contest.end
Running == Started /\ ~ContestOver

\* For the properties: what was computed before the standings change is out of date.
Aged(e) == IF e.present THEN [e EXCEPT !.old = Min({@, clock})] ELSE e
StandingsMayChange ==
  IF (cache.present \/ \E v \in Viewers : view[v].present) /\ Rows' # Rows
  THEN cache' = Aged(cache) /\ view' = [v \in Viewers |-> Aged(view[v])]
  ELSE UNCHANGED <<cache, view>>

-----------------------------------------------------------------------------
(* Admins                                                                  *)

\* A wrong UpdateCheck: the contest may be edited until its end.
UpdateCheckUntilEnd ==
  /\ edit = NoEdit
  /\ ~ContestOver
  /\ \E a \in Starts, b \in Ends, ps \in SUBSET ContestProblems :
       edit' = [at |-> "checked", since |-> clock, start |-> a, end |-> b, problems |-> ps]
  /\ UNCHANGED <<clock, contest, registered, sub, cache, view, overran>>

UpdateCheck ==
  /\ edit = NoEdit
  /\ ~Started
  /\ \E a \in Starts, b \in Ends, ps \in SUBSET ContestProblems :
       edit' = [at |-> "checked", since |-> clock, start |-> a, end |-> b, problems |-> ps]
  /\ UNCHANGED <<clock, contest, registered, sub, cache, view, overran>>

\* Old rows are deleted before new ones are inserted, in one transaction.
UpdateCommit ==
  /\ edit # NoEdit
  /\ contest' = [contest EXCEPT !.start = edit.start, !.end = edit.end,
                                !.problems = edit.problems]
  /\ edit' = NoEdit
  /\ overran' = (overran \/ (Started /\ edit.since < contest.start))
  /\ UNCHANGED <<clock, registered, sub>>
  /\ StandingsMayChange

\* publish needs a problem; unpublish is allowed at any time.
SetPublished ==
  /\ contest.published \/ contest.problems # {}
  /\ contest' = [contest EXCEPT !.published = ~@]
  /\ UNCHANGED <<clock, edit, registered, sub, cache, view, overran>>

-----------------------------------------------------------------------------
(* Participants and the judge                                              *)

Register(u) ==
  /\ contest.published /\ ~ContestOver
  /\ registered' = registered \union {u}
  /\ UNCHANGED <<clock, contest, edit, sub, overran>>
  /\ StandingsMayChange

\* resolve_contest_submission
SubmitCheck(s) ==
  /\ sub[s].status = "absent" /\ \A o \in Subs : o < s => sub[o].status # "absent"
  /\ \A o \in Subs : sub[o].status # "checked"
  /\ contest.published /\ Running
  /\ \E u \in registered, p \in contest.problems :
       sub' = [sub EXCEPT ![s] = [NoSub EXCEPT !.status = "checked", !.by = u, !.problem = p,
                                               !.at = clock]]
  /\ UNCHANGED <<clock, contest, edit, registered, cache, view, overran>>

\* create_and_enqueue: created_at is the time of the INSERT.
SubmitInsert(s) ==
  /\ sub[s].status = "checked"
  /\ sub' = [sub EXCEPT ![s].status = "QUEUED", ![s].at = clock]
  /\ UNCHANGED <<clock, contest, edit, registered, cache, view, overran>>

\* The judge ends, in any order of submissions, and also after the reaper had given
\* the submission up; each is claimed, and so completed, once.
JudgeEnds(s) ==
  /\ sub[s].status \in {"QUEUED", "FAILED"} /\ ~sub[s].judged
  /\ \E v \in ContestVerdicts :
       sub' = [sub EXCEPT ![s].status = "COMPLETED", ![s].verdict = v, ![s].judged = TRUE]
  /\ UNCHANGED <<clock, contest, edit, registered, overran>>
  /\ StandingsMayChange

\* The row is closed as failed: by the reaper, which closes no completed one, ...
JudgeGivesUp(s) ==
  /\ sub[s].status = "QUEUED"
  /\ sub' = [sub EXCEPT ![s].status = "FAILED", ![s].verdict = "SYSTEM_ERROR"]
  /\ UNCHANGED <<clock, contest, edit, registered, cache, view, overran>>

\* ... or by a worker whose commit got no reply, or a handler whose enqueue got none: those
\* write over whatever the row is by then, a completed one as well.
OverwriteCompleted(s) ==
  /\ sub[s].status = "COMPLETED"
  /\ sub' = [sub EXCEPT ![s].status = "FAILED", ![s].verdict = "SYSTEM_ERROR"]
  /\ UNCHANGED <<clock, contest, edit, registered, overran>>
  /\ StandingsMayChange

-----------------------------------------------------------------------------
(* Viewers                                                                 *)

\* A miss: the standings are computed ...
ComputeStandings(v) ==
  /\ contest.published
  /\ ~cache.present /\ ~view[v].present
  /\ view' = [view EXCEPT ![v] = [present |-> TRUE, time |-> clock, old |-> Never]]
  /\ UNCHANGED <<clock, contest, edit, registered, sub, cache, overran>>

\* A wrong StoreStandings: what is stored lives until the contest is over.
StoreUntilEnd(v) ==
  /\ view[v].present
  /\ cache' \in {cache, [view[v] EXCEPT !.time = Max({clock + CacheTtl, contest.end + 1})]}
  /\ view' = [view EXCEPT ![v] = NoStandings]
  /\ UNCHANGED <<clock, contest, edit, registered, sub, overran>>

\* ... and stored, if Redis is there, whatever is in the cache by then.
StoreStandings(v) ==
  /\ view[v].present
  /\ cache' \in {cache, [view[v] EXCEPT !.time = clock + CacheTtl]}
  /\ view' = [view EXCEPT ![v] = NoStandings]
  /\ UNCHANGED <<clock, contest, edit, registered, sub, overran>>

DropStandings ==
  /\ cache.present /\ clock >= cache.time
  /\ cache' = NoStandings
  /\ UNCHANGED <<clock, contest, edit, registered, sub, view, overran>>

\* An entry that is due is gone before the next tick; handlers take at most Delay.
ContestTick ==
  /\ clock < MaxClock
  /\ cache.present => clock < cache.time
  /\ \A v \in Viewers : view[v].present => clock < view[v].time + Delay
  /\ edit # NoEdit => clock < edit.since + Delay
  /\ \A s \in Subs : sub[s].status = "checked" => clock < sub[s].at + Delay
  /\ clock' = clock + 1
  /\ UNCHANGED <<contest, edit, registered, sub, cache, view, overran>>

ContestsNext ==
  \/ UpdateCheck \/ UpdateCommit \/ SetPublished
  \/ \E u \in Participants : Register(u)
  \/ \E s \in Subs : \/ SubmitCheck(s) \/ SubmitInsert(s)
                     \/ JudgeEnds(s) \/ JudgeGivesUp(s) \/ OverwriteCompleted(s)
  \/ \E v \in Viewers : ComputeStandings(v) \/ StoreStandings(v)
  \/ DropStandings \/ ContestTick

ContestsSpec == ContestsInit /\ [][ContestsNext]_contestVars

-----------------------------------------------------------------------------
(* Properties                                                              *)

\* No completed submission is closed as failed: what a reply that is lost on its way from the
\* database or the broker may do to it (OverwriteCompleted) is the exception of the properties.
NothingOverwritten == \A s \in Subs : sub[s].status = "COMPLETED" => sub'[s].status = "COMPLETED"

\* Points are never lost: submissions judged late or out of order, and edits, leave
\* every participant of a contest that has started at least as many points; only an
\* edit that was checked before the start, and a completed submission that is closed as
\* failed after a lost reply, can still take some away.
PointsNeverDrop ==
  [][ /\ Started /\ ~overran' /\ NothingOverwritten
      /\ <<sub, contest, registered>>' # <<sub, contest, registered>>
      => \A u \in registered : u \in registered' /\ PointsOf(u) <= PointsOf(u)']_contestVars

\* The standings are final when the contest is over and everything that was submitted
\* in time has been judged.  What was checked in time and inserted too late does not
\* count.  The exceptions are what had been given up on, which may still be completed,
\* and what a lost reply closes as failed after it was completed: once that has happened,
\* the standings without it are final again.
StandingsSettle ==
  [][ /\ <<sub, contest>>' # <<sub, contest>> /\ NothingOverwritten
      /\ ContestOver /\ edit = NoEdit /\ registered' = registered
      /\ \A s \in Subs : sub[s].at <= contest.end /\ sub[s].status \in {"QUEUED", "FAILED"} =>
           sub[s].judged
      => Standings' = Standings]_contestVars

\* What viewers get is the standings, or those of a moment ago: a cached result that a
\* newer one contradicts is gone as soon as its time to live and the time that it took
\* to compute have passed since the change.
CacheCatchesUp ==
  cache.present => clock <= cache.old + Delay + CacheTtl
=============================================================================
