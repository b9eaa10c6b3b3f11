------------------------------ MODULE Community ------------------------------
(***************************************************************************)
(* Discussion threads: posts, votes, reports, moderation and the notices    *)
(* they cause.  Every write is one transaction of two steps, because the    *)
(* handlers read rows first and decide on what they read: Begin is the      *)
(* SELECTs, the action named after the handler is the flush and COMMIT.     *)
(* The ORM writes the columns that the handler changed, as absolute values. *)
(***************************************************************************)
EXTENDS Integers, FiniteSets, FiniteSetsExt

CONSTANTS
  Members,      \* signed-in users
  Moderators,   \* those of them that rank as MODERATOR or above
  NoMember,
  Threads,      \* bound: discussions that are ever started
  Comments,     \* bound: comments that are ever written
  Reports,      \* bound: reports that are ever filed
  Calls         \* bound: write requests that are ever made

Posts == Threads \union Comments
NoPost == 0
NoCall == 0

\* The ids are numbers and are given out in ascending order.
ASSUME CommunityAssumption ==
  /\ Moderators \subseteq Members /\ NoMember \notin Members
  /\ \A ids \in {Members, Threads, Comments, Reports, Calls} : IsFiniteSet(ids)
  /\ Posts \union Reports \union Calls \subseteq Nat \ {0}
  /\ Threads \cap Comments = {} /\ Posts \cap Reports = {}

VARIABLES
  author,     \* author[x]: author_id of a thread or comment, NoMember before the INSERT
  thread,     \* thread[c]: discussion_id of a comment
  vote,       \* vote[u, x]: the row of discussion_votes: who inserted it, and its value
  score,      \* score[x]: vote_score
  count,      \* count[d]: comment_count
  locked,     \* discussions.locked
  removed,    \* posts whose removed flag is set
  report,     \* report[p]: status and target
  replied,    \* replied[d]: DISCUSSION_REPLY notices to the author of d
  told,       \* told[x]: CONTENT_REMOVED notices about x
  unread,     \* unread[u]: notifications that u has not read
  call,       \* call[k]: where a request is, and what its SELECTs returned
  torn        \* history: columns that were written on the strength of an outdated read

postVars == <<author, thread, score, count, locked, removed>>
noticeVars == <<replied, told, unread>>
communityVars == <<postVars, noticeVars, vote, report, call, torn>>

-----------------------------------------------------------------------------
NoVote == [by |-> NoCall, value |-> 0]
Kinds == {"comment", "vote", "unvote", "report", "resolve", "lock"}
Columns == ({"score", "removed"} \X Posts) \union ({"count", "locked"} \X Threads)
             \union ({"status"} \X Reports)

\* A call's locals: the row it is about (on), a value from the request body, what it
\* read, the columns it decides upon, and whether all of them are still as it read them.
NewCall == [at |-> "new", kind |-> "lock", by |-> NoMember, on |-> NoPost, value |-> 0,
            vote |-> NoVote, number |-> 0, columns |-> {}, fresh |-> TRUE]

CommunityTypeOK ==
  /\ author \in [Posts -> Members \union {NoMember}]
  /\ thread \in [Comments -> Threads \union {NoPost}]
  /\ vote \in [Members \X Posts -> [by : Calls \union {NoCall}, value : {-1, 0, 1}]]
  /\ score \in [Posts -> Int] /\ count \in [Threads -> Nat]
  /\ locked \in SUBSET Threads /\ removed \in SUBSET Posts
  /\ report \in [Reports -> [status : {"ABSENT", "OPEN", "RESOLVED", "DISMISSED"},
                             target : Posts \union {NoPost}]]
  /\ replied \in [Threads -> Nat] /\ told \in [Posts -> Nat] /\ unread \in [Members -> Nat]
  /\ call \in [Calls ->
       [at : {"new", "read", "done"}, kind : Kinds, by : Members \union {NoMember},
        on : Posts \union Reports \union {NoPost}, value : {-1, 0, 1},
        vote : [by : Calls \union {NoCall}, value : {-1, 0, 1}], number : Int,
        columns : SUBSET Columns, fresh : BOOLEAN]]
  /\ torn \in SUBSET Columns

Exists(x) == author[x] # NoMember
Open(p) == report[p].status = "OPEN"
Least(ids) == {i \in ids : \A j \in ids : i <= j}    \* the least one, if there is one
NextThread == Least({d \in Threads : ~Exists(d)})
NextComment == Least({c \in Comments : ~Exists(c)})
NextReport == Least({p \in Reports : report[p].status = "ABSENT"})
NextCall == Least({k \in Calls : call[k].at = "new"})

\* Some of the threads have been started and reported already, and nothing else happened.
CommunityInit ==
  /\ \E by \in [Threads -> Members \union {NoMember}] :
       author = [x \in Posts |-> IF x \in Threads THEN by[x] ELSE NoMember]
  /\ thread = [c \in Comments |-> NoPost]
  /\ vote = [v \in Members \X Posts |-> NoVote]
  /\ score = [x \in Posts |-> 0] /\ count = [d \in Threads |-> 0]
  /\ locked = {} /\ removed = {}
  /\ \E on \in [Reports -> {NoPost} \union {d \in Threads : Exists(d)}] :
       report = [p \in Reports |->
         [status |-> IF on[p] = NoPost THEN "ABSENT" ELSE "OPEN", target |-> on[p]]]
  /\ replied = [d \in Threads |-> 0] /\ told = [x \in Posts |-> 0]
  /\ unread = [u \in Members |-> 0]
  /\ call = [k \in Calls |-> NewCall]
  /\ torn = {}

ToldOf(u) == [unread EXCEPT ![u] = @ + 1]

-----------------------------------------------------------------------------
(* The SELECTs of each handler                                             *)

Read(k, what) ==
  /\ k \in NextCall
  /\ call' = [call EXCEPT ![k] = what]
  /\ UNCHANGED <<postVars, noticeVars, vote, report, torn>>

\* add_comment: a locked thread is refused on what was read here.
BeginComment(k) ==
  \E u \in Members, d \in Threads :
    /\ Exists(d) /\ d \notin locked
    /\ Read(k, [NewCall EXCEPT !.at = "read", !.kind = "comment", !.by = u, !.on = d,
                               !.number = count[d], !.columns = {<<"count", d>>}])

\* A wrong BeginResolve: a report that was decided can be decided again.
BeginResolveAgain(k) ==
  \E u \in Moderators, p \in Reports, v \in {0, 1} :
    /\ report[p].status # "ABSENT"
    /\ Read(k, [NewCall EXCEPT !.at = "read", !.kind = "resolve", !.by = u, !.on = p, !.value = v,
                  !.number = IF report[p].target \in removed THEN 1 ELSE 0,
                  !.columns = {<<"status", p>>, <<"removed", report[p].target>>}])

\* cast_vote and remove_vote: the score, and the caller's own vote if there is one.
BeginVote(k) ==
  \E u \in Members, x \in Posts, v \in {-1, 0, 1} :
    /\ Exists(x)
    /\ Read(k, [NewCall EXCEPT !.at = "read", !.kind = IF v = 0 THEN "unvote" ELSE "vote",
                               !.by = u, !.on = x, !.value = v, !.vote = vote[u, x],
                               !.number = score[x], !.columns = {<<"score", x>>}])

\* resolve_report: v = 1 is remove_content, v = 0 dismisses the report.
BeginResolve(k) ==
  \E u \in Moderators, p \in Reports, v \in {0, 1} :
    /\ Open(p)
    /\ Read(k, [NewCall EXCEPT !.at = "read", !.kind = "resolve", !.by = u, !.on = p, !.value = v,
                  !.number = IF report[p].target \in removed THEN 1 ELSE 0,
                  !.columns = {<<"status", p>>, <<"removed", report[p].target>>}])

\* set_discussion_locked: an assignment of the value that was read is not written.
BeginLock(k) ==
  \E u \in Moderators, d \in Threads, v \in {0, 1} :
    /\ Exists(d)
    /\ Read(k, [NewCall EXCEPT !.at = "read", !.kind = "lock", !.by = u, !.on = d, !.value = v,
                  !.number = IF d \in locked THEN 1 ELSE 0, !.columns = {<<"locked", d>>}])

-----------------------------------------------------------------------------
(* The commits                                                             *)

\* Call k ends having written the columns w: other calls that read one of them are
\* now outdated, and what k itself wrote after an outdated read is torn.
Finish(k, w) ==
  /\ call' = [j \in Calls |->
       IF j = k THEN [NewCall EXCEPT !.at = "done"]
       ELSE IF call[j].at = "read" /\ call[j].columns \cap w # {}
            THEN [call[j] EXCEPT !.fresh = FALSE] ELSE call[j]]
  /\ torn' = IF call[k].fresh THEN torn ELSE torn \union w

MayRun(k, kind) == call[k].at = "read" /\ call[k].kind = kind

CreateDiscussion(k) ==
  /\ k \in NextCall
  /\ \E u \in Members, d \in NextThread : author' = [author EXCEPT ![d] = u]
  /\ Finish(k, {})
  /\ UNCHANGED <<thread, score, count, locked, removed, noticeVars, vote, report>>

\* The comment, the counter and the notice are one transaction.
AddComment(k) ==
  LET d == call[k].on
      u == call[k].by IN
  /\ MayRun(k, "comment")
  /\ \E c \in NextComment :
       /\ author' = [author EXCEPT ![c] = u]
       /\ thread' = [thread EXCEPT ![c] = d]
  /\ count' = [count EXCEPT ![d] = call[k].number + 1]
  /\ IF author[d] # u
     THEN replied' = [replied EXCEPT ![d] = @ + 1] /\ unread' = ToldOf(author[d])
     ELSE UNCHANGED <<replied, unread>>
  /\ Finish(k, {<<"count", d>>})
  /\ UNCHANGED <<score, locked, removed, told, vote, report>>

\* The unique constraint refuses a second row, and an UPDATE of a row that is gone
\* is an error: both roll the transaction back.
VoteFails(k) ==
  LET v == <<call[k].by, call[k].on>> IN
  /\ MayRun(k, "vote")
  /\ IF call[k].vote = NoVote
     THEN vote[v] # NoVote
     ELSE call[k].vote.value # call[k].value /\ vote[v].by # call[k].vote.by
  /\ Finish(k, {})
  /\ UNCHANGED <<postVars, noticeVars, vote, report>>

\* A wrong CastVote: a changed vote moves the score by one instead of by two.
CastVoteByOne(k) ==
  LET v == <<call[k].by, call[k].on>> IN
  /\ MayRun(k, "vote")
  /\ call[k].vote.by = vote[v].by /\ call[k].vote.value # call[k].value
  /\ vote' = [vote EXCEPT ![v] = [by |-> IF @ = NoVote THEN k ELSE @.by, value |-> call[k].value]]
  /\ score' = [score EXCEPT ![call[k].on] = call[k].number + call[k].value]
  /\ Finish(k, {<<"score", call[k].on>>})
  /\ UNCHANGED <<author, thread, count, locked, removed, noticeVars, report>>

CastVote(k) ==
  LET v == <<call[k].by, call[k].on>> IN
  /\ MayRun(k, "vote")
  /\ call[k].vote.by = vote[v].by /\ call[k].vote.value # call[k].value
  /\ vote' = [vote EXCEPT ![v] = [by |-> IF @ = NoVote THEN k ELSE @.by, value |-> call[k].value]]
  /\ score' = [score EXCEPT ![call[k].on] = call[k].number + call[k].value - call[k].vote.value]
  /\ Finish(k, {<<"score", call[k].on>>})
  /\ UNCHANGED <<author, thread, count, locked, removed, noticeVars, report>>

\* The vote is as asked already, or there is none to remove.
VoteUnchanged(k) ==
  /\ call[k].at = "read" /\ call[k].kind \in {"vote", "unvote"}
  /\ call[k].vote.value = call[k].value
  /\ Finish(k, {})
  /\ UNCHANGED <<postVars, noticeVars, vote, report>>

\* A DELETE that finds no row is only a warning, so the score is written all the same.
RemoveVote(k) ==
  LET v == <<call[k].by, call[k].on>> IN
  /\ MayRun(k, "unvote")
  /\ call[k].vote # NoVote
  /\ vote' = IF vote[v].by = call[k].vote.by THEN [vote EXCEPT ![v] = NoVote] ELSE vote
  /\ score' = [score EXCEPT ![call[k].on] = call[k].number - call[k].vote.value]
  /\ Finish(k, {<<"score", call[k].on>>})
  /\ UNCHANGED <<author, thread, count, locked, removed, noticeVars, report>>

CreateReport(k) ==
  /\ k \in NextCall
  /\ \E p \in NextReport, x \in Posts :
       /\ Exists(x)
       /\ report' = [report EXCEPT ![p] = [status |-> "OPEN", target |-> x]]
  /\ Finish(k, {})
  /\ UNCHANGED <<postVars, noticeVars, vote>>

\* A wrong ResolveReport: the author is told again of a post that was removed before.
ResolveTellsAgain(k) ==
  LET p == call[k].on
      x == report[p].target IN
  /\ MayRun(k, "resolve")
  /\ report' = [report EXCEPT ![p].status = IF call[k].value = 1 THEN "RESOLVED" ELSE "DISMISSED"]
  /\ IF call[k].value = 1
     THEN /\ removed' = removed \union {x}
          /\ told' = [told EXCEPT ![x] = @ + 1]
          /\ unread' = ToldOf(author[x])
          /\ Finish(k, {<<"status", p>>, <<"removed", x>>})
     ELSE /\ Finish(k, {<<"status", p>>})
          /\ UNCHANGED <<removed, told, unread>>
  /\ UNCHANGED <<author, thread, score, count, locked, replied, vote>>

ResolveReport(k) ==
  LET p == call[k].on
      x == report[p].target IN
  /\ MayRun(k, "resolve")
  /\ report' = [report EXCEPT ![p].status = IF call[k].value = 1 THEN "RESOLVED" ELSE "DISMISSED"]
  /\ IF call[k].value = 1 /\ call[k].number = 0
     THEN /\ removed' = removed \union {x}
          /\ told' = [told EXCEPT ![x] = @ + 1]
          /\ unread' = ToldOf(author[x])
          /\ Finish(k, {<<"status", p>>, <<"removed", x>>})
     ELSE /\ Finish(k, {<<"status", p>>})
          /\ UNCHANGED <<removed, told, unread>>
  /\ UNCHANGED <<author, thread, score, count, locked, replied, vote>>

SetLocked(k) ==
  LET d == call[k].on IN
  /\ MayRun(k, "lock")
  /\ locked' = IF call[k].value = call[k].number THEN locked
               ELSE IF call[k].value = 1 THEN locked \union {d} ELSE locked \ {d}
  /\ Finish(k, IF call[k].value = call[k].number THEN {} ELSE {<<"locked", d>>})
  /\ UNCHANGED <<author, thread, score, count, removed, noticeVars, vote, report>>

\* mark_read and mark_all_read.
MarkRead(u) ==
  /\ unread[u] > 0
  /\ \E n \in {0, unread[u] - 1} : unread' = [unread EXCEPT ![u] = n]
  /\ UNCHANGED <<postVars, replied, told, vote, report, call, torn>>

CommunityNext ==
  \/ \E k \in Calls :
       \/ CreateDiscussion(k) \/ CreateReport(k)
       \/ BeginComment(k) \/ BeginVote(k) \/ BeginResolve(k) \/ BeginLock(k)
       \/ AddComment(k) \/ VoteFails(k) \/ CastVote(k) \/ VoteUnchanged(k) \/ RemoveVote(k)
       \/ ResolveReport(k) \/ SetLocked(k)
  \/ \E u \in Members : MarkRead(u)

CommunitySpec == CommunityInit /\ [][CommunityNext]_communityVars

-----------------------------------------------------------------------------
(* Properties                                                              *)

\* The stored score is the sum of the votes and the stored number of comments the
\* number of rows, through any sequence of votes, changes of mind and withdrawals,
\* failed ones included, as long as none was decided on a value that another call had
\* changed meanwhile; and in any case the author of a thread was told of each comment
\* of somebody else.
TalliesMatchRows ==
  /\ \A x \in Posts : <<"score", x>> \notin torn =>
       score[x] = MapThenSumSet(LAMBDA u : vote[u, x].value, Members)
  /\ \A d \in Threads :
       LET rows == {c \in Comments : thread[c] = d} IN
       /\ <<"count", d>> \notin torn => count[d] = Cardinality(rows)
       /\ replied[d] = Cardinality({c \in rows : author[c] # author[d]})

\* A post that was removed says so to its author, once, whatever the number of reports
\* against it; only moderators who decide at the same time make it twice.
RemovalIsToldOnce ==
  \A x \in Posts :
    /\ x \in removed <=> told[x] > 0
    /\ <<"removed", x>> \notin torn => told[x] <= 1

\* A report is decided once: no later call changes the decision, unless it had read
\* the report while it was open.
DecisionStands ==
  [][\A p \in Reports :
       /\ report[p].status \in {"RESOLVED", "DISMISSED"}
       /\ <<"status", p>> \notin torn'
       => report'[p] = report[p]]_communityVars
=============================================================================
