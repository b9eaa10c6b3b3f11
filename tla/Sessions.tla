------------------------------ MODULE Sessions ------------------------------
(***************************************************************************)
(* The sessions of one account: sign-in, rotation of refresh tokens, the   *)
(* four ways a session ends, and the links that are mailed for a password  *)
(* reset.  Several requests run at the same time, from tabs that share one *)
(* cookie jar.  PostgreSQL runs READ COMMITTED: SELECT ... FOR UPDATE and   *)
(* UPDATE wait for row locks, and an UPDATE changes those rows that its    *)
(* snapshot showed and that still satisfy its condition once it has them.  *)
(***************************************************************************)
EXTENDS Integers, FiniteSets

CONSTANTS
  Requests,       \* requests that the API handles at the same time
  Tokens,         \* bound: refresh tokens that are ever issued
  LinkTokens,     \* bound: those of them that are issued in behaviours with reset links
  Families,       \* bound: sessions that are ever opened (family_id)
  Links,          \* bound: password reset links that are ever mailed
  Environments    \* bound: which rare events one behaviour may combine

RareEvents == {"reply_lost", "redis_down", "disabled", "expiry", "access_expiry", "reset",
               "second_session"}

Reasons == {"ROTATED", "LOGOUT", "REUSE_DETECTED", "PASSWORD_RESET", "SESSION_REVOKED"}

NoRequest == 0
NoToken == 0
NoFamily == 0
NoLink == 0

\* The ids are numbers and are given out in ascending order.
ASSUME SessionsAssumption ==
  /\ \A ids \in {Requests, Tokens, Families, Links} : IsFiniteSet(ids) /\ ids \subseteq Nat \ {0}
  /\ Tokens \cap Links = {} /\ LinkTokens \subseteq Tokens
  /\ Environments \subseteq SUBSET RareEvents

VARIABLES
  family,     \* family[t]: refresh_tokens.family_id, NoFamily before the INSERT
  revoked,    \* revoked[t]: revoked_reason, or "NO" while revoked_at is null
  lock,       \* lock[t]: the request whose transaction holds the row
  settled,    \* tokens rotated longer ago than refresh_reuse_grace_seconds
  expired,    \* tokens whose expires_at has passed
  link,       \* link[l]: one-time token; replaced and consumed both have a used_at
  resets,     \* how often the password was changed
  available,  \* the account is active and not deleted
  access,     \* access[f]: unexpired access tokens, issued before ("old") or since
              \* ("new") the session was last put on the denylist
  denied,     \* families on the Redis denylist
  undenied,   \* history: families whose denylist entry could not be written
  cookie,     \* the refresh cookie in the browser's jar
  late,       \* history: some reply was lost, or took longer than the grace window
  rare,       \* the rare events of this behaviour
  req         \* req[r]: where the handler of request r is, and its locals

tokenVars == <<family, revoked, lock>>
timeVars == <<settled, expired>>
linkVars == <<link, resets>>
accessVars == <<access, denied, undenied>>
worldVars == <<available, cookie, late, rare>>
sessionVars == <<tokenVars, timeVars, linkVars, accessVars, worldVars, req>>

-----------------------------------------------------------------------------
\* A handler's locals.  tok: the token presented; was: what `now`, read before any
\* row is locked, says of it; seen: its revoked_reason as read; link: the reset
\* link; fams: the families to deny; cand: the rows an UPDATE's snapshot showed;
\* why: the reason it writes; out: the cookie that the reply sets (NoToken clears
\* it), unless keep.
Idle == [pc |-> "idle", tok |-> NoToken, was |-> {}, seen |-> "NO",
         link |-> NoLink, fams |-> {}, cand |-> {}, why |-> "NO", out |-> NoToken, keep |-> FALSE]

Pcs == {"idle", "lock", "locked", "verified", "mailing", "reset", "closing", "deny", "reply"}

SessionsTypeOK ==
  /\ family \in [Tokens -> Families \union {NoFamily}]
  /\ revoked \in [Tokens -> Reasons \union {"NO"}]
  /\ lock \in [Tokens -> Requests \union {NoRequest}]
  /\ settled \in SUBSET Tokens /\ expired \in SUBSET Tokens
  /\ link \in [Links -> {"absent", "live", "replaced", "consumed"}]
  /\ resets \in Nat
  /\ available \in BOOLEAN /\ late \in BOOLEAN
  /\ access \in [Families -> SUBSET {"old", "new"}]
  /\ denied \in SUBSET Families /\ undenied \in SUBSET Families
  /\ cookie \in Tokens \union {NoToken}
  /\ rare \in SUBSET RareEvents
  /\ req \in [Requests ->
       [pc : Pcs, tok : Tokens \union {NoToken}, was : SUBSET {"settled", "expired"},
        seen : Reasons \union {"NO"}, link : Links \union {NoLink}, fams : SUBSET Families,
        cand : SUBSET (Tokens \union Links), why : Reasons \union {"NO"},
        out : Tokens \union {NoToken}, keep : BOOLEAN]]

SessionsInit ==
  /\ family = [t \in Tokens |-> NoFamily]
  /\ revoked = [t \in Tokens |-> "NO"]
  /\ lock = [t \in Tokens |-> NoRequest]
  /\ settled = {} /\ expired = {}
  /\ link = [l \in Links |-> "absent"]
  /\ resets = 0
  /\ available = TRUE /\ late = FALSE
  /\ access = [f \in Families |-> {}]
  /\ denied = {} /\ undenied = {}
  /\ cookie = NoToken
  /\ rare \in Environments
  /\ req = [r \in Requests |-> Idle]

Live(t) == family[t] # NoFamily /\ revoked[t] = "NO"
LiveIn(fams) == {t \in Tokens : Live(t) /\ family[t] \in fams}
Free(t) == family[t] = NoFamily
First(ids) == {i \in ids : \A j \in ids : i <= j}    \* the least one, if there is one
NewToken == First({t \in IF "reset" \in rare THEN LinkTokens ELSE Tokens : Free(t)})
NewFamily == First(Families \ {family[t] : t \in Tokens})
Stands(r, where) == req[r].pc = where
Starts(r) == r \in First({o \in Requests : Stands(o, "idle")})
Goto(r, where) == req' = [req EXCEPT ![r].pc = where]
Unlocked(r) == [t \in Tokens |-> IF lock[t] = r THEN NoRequest ELSE lock[t]]

\* The reply is on its way: it sets the cookie to t, clears it, or leaves it.
Answer(r, t, keep) ==
  req' = [req EXCEPT ![r] = [Idle EXCEPT !.pc = "reply", !.tok = req[r].tok,
                                         !.out = t, !.keep = keep]]

-----------------------------------------------------------------------------
(* Sign-in: login and _issue_session                                       *)

\* The password is checked against the row that was read; a wrong one, or an
\* account that is not available, changes nothing here.
LoginVerify(r) ==
  /\ Starts(r)
  /\ available
  /\ \/ "second_session" \in rare
     \/ (\A t \in Tokens : Free(t)) /\ (\A o \in Requests : ~Stands(o, "verified"))
  /\ Goto(r, "verified")
  /\ UNCHANGED <<tokenVars, timeVars, linkVars, accessVars, worldVars>>

LoginIssue(r) ==
  /\ Stands(r, "verified")
  /\ \E t \in NewToken, f \in NewFamily :
       /\ family' = [family EXCEPT ![t] = f]
       /\ access' = [access EXCEPT ![f] = @ \union {"new"}]
       /\ Answer(r, t, FALSE)
  /\ UNCHANGED <<timeVars, linkVars, worldVars, revoked, lock, denied, undenied>>

-----------------------------------------------------------------------------
(* Rotation: refresh and _handle_revoked_token                             *)

RefreshBegin(r) ==
  /\ Starts(r)
  /\ cookie # NoToken
  /\ req' = [req EXCEPT ![r] = [Idle EXCEPT !.pc = "lock", !.tok = cookie,
       !.was = {x \in {"settled", "expired"} :
                  IF x = "settled" THEN cookie \in settled ELSE cookie \in expired}]]
  /\ UNCHANGED <<tokenVars, timeVars, linkVars, accessVars, worldVars>>

\* A wrong RefreshLock: the row is read without FOR UPDATE.
RefreshReadUnlocked(r) ==
  /\ Stands(r, "lock")
  /\ req' = [req EXCEPT ![r].pc = "locked", ![r].seen = revoked[req[r].tok]]
  /\ UNCHANGED <<tokenVars, timeVars, linkVars, accessVars, worldVars>>

RefreshLock(r) ==
  /\ Stands(r, "lock")
  /\ lock[req[r].tok] = NoRequest
  /\ lock' = [lock EXCEPT ![req[r].tok] = r]
  /\ req' = [req EXCEPT ![r].pc = "locked", ![r].seen = revoked[req[r].tok]]
  /\ UNCHANGED <<timeVars, linkVars, accessVars, worldVars, family, revoked>>

\* The successor is inserted and the presented token is marked in one transaction.
Rotate(r) ==
  LET t == req[r].tok IN
  /\ Stands(r, "locked")
  /\ req[r].seen = "NO" /\ "expired" \notin req[r].was
  /\ available
  /\ \E n \in NewToken :
       /\ family' = [family EXCEPT ![n] = family[t]]
       /\ revoked' = [revoked EXCEPT ![t] = "ROTATED"]
       /\ access' = [access EXCEPT ![family[t]] = @ \union {"new"}]
       /\ Answer(r, n, FALSE)
  /\ lock' = Unlocked(r)
  /\ UNCHANGED <<timeVars, linkVars, worldVars, denied, undenied>>

\* REFRESH_TOKEN_RACE keeps the cookie; every other 401 clears it.
RefreshRefused(r) ==
  /\ Stands(r, "locked")
  /\ \/ /\ req[r].seen = "ROTATED" /\ "settled" \notin req[r].was
        /\ Answer(r, NoToken, TRUE)
     \/ /\ req[r].seen \notin {"NO", "ROTATED"}
        /\ Answer(r, NoToken, FALSE)
     \/ /\ req[r].seen = "NO" /\ "expired" \in req[r].was
        /\ Answer(r, NoToken, FALSE)
  /\ lock' = Unlocked(r)
  /\ UNCHANGED <<timeVars, linkVars, accessVars, worldVars, family, revoked>>

\* A wrong RefreshEndsSession: no grace window for tabs that refresh together.
RefreshEndsSessionAtOnce(r) ==
  /\ Stands(r, "locked")
  /\ req[r].seen = "ROTATED"
  /\ req' = [req EXCEPT ![r].pc = "closing", ![r].why = "REUSE_DETECTED",
                        ![r].fams = {family[req[r].tok]},
                        ![r].cand = LiveIn({family[req[r].tok]})]
  /\ UNCHANGED <<tokenVars, timeVars, linkVars, accessVars, worldVars>>

\* A token that was rotated before the grace window, or an account that is not
\* available any more, ends the session: _revoke_family starts.
RefreshEndsSession(r) ==
  /\ Stands(r, "locked")
  /\ \E why \in {"REUSE_DETECTED", "SESSION_REVOKED"} :
       /\ \/ why = "REUSE_DETECTED" /\ req[r].seen = "ROTATED" /\ "settled" \in req[r].was
          \/ /\ why = "SESSION_REVOKED" /\ ~available
             /\ req[r].seen = "NO" /\ "expired" \notin req[r].was
       /\ req' = [req EXCEPT ![r].pc = "closing", ![r].why = why,
                             ![r].fams = {family[req[r].tok]},
                             ![r].cand = LiveIn({family[req[r].tok]})]
  /\ UNCHANGED <<tokenVars, timeVars, linkVars, accessVars, worldVars>>

-----------------------------------------------------------------------------
(* Sign-out: logout, revoke_session, and the tail that all endings share   *)

Logout(r) ==
  /\ Starts(r)
  /\ cookie # NoToken
  /\ req' = [req EXCEPT ![r] = [Idle EXCEPT !.pc = "closing", !.why = "LOGOUT",
       !.tok = cookie, !.fams = {family[cookie]}, !.cand = LiveIn({family[cookie]})]]
  /\ UNCHANGED <<tokenVars, timeVars, linkVars, accessVars, worldVars>>

RevokeSession(r) ==
  /\ Starts(r)
  /\ available
  /\ \E f \in {family[t] : t \in Tokens} \ {NoFamily} :
       req' = [req EXCEPT ![r] = [Idle EXCEPT !.pc = "closing", !.why = "SESSION_REVOKED",
                 !.fams = {f}, !.cand = LiveIn({f}), !.keep = TRUE]]
  /\ UNCHANGED <<tokenVars, timeVars, linkVars, accessVars, worldVars>>

\* The UPDATE has waited for the rows of its snapshot; it revokes those that are
\* still live.  A reset commits the new password and the used link with it.
Close(r) ==
  LET hit == {t \in req[r].cand \cap Tokens : Live(t)} IN
  /\ Stands(r, "closing")
  /\ \A t \in req[r].cand \cap Tokens : lock[t] \in {NoRequest, r}
  /\ revoked' = [t \in Tokens |-> IF t \in hit THEN req[r].why ELSE revoked[t]]
  /\ lock' = Unlocked(r)
  /\ IF req[r].link = NoLink
     THEN UNCHANGED linkVars
     ELSE /\ link' = [link EXCEPT ![req[r].link] = "consumed"]
          /\ resets' = resets + 1
  /\ Goto(r, "deny")
  /\ UNCHANGED <<timeVars, accessVars, worldVars, family>>

\* _deny_access_tokens: an outage of Redis is logged and ignored.
Deny(r) ==
  /\ Stands(r, "deny")
  /\ \/ /\ denied' = denied \union req[r].fams
        /\ access' = [f \in Families |->
                        IF f \in req[r].fams /\ access[f] # {} THEN {"old"} ELSE access[f]]
        /\ UNCHANGED undenied
     \/ /\ "redis_down" \in rare
        /\ undenied' = undenied \union req[r].fams
        /\ UNCHANGED <<denied, access>>
  /\ Answer(r, NoToken, req[r].keep)
  /\ UNCHANGED <<tokenVars, timeVars, linkVars, worldVars>>

Reply(r) ==
  /\ Stands(r, "reply")
  /\ \/ /\ cookie' = IF req[r].keep THEN cookie ELSE req[r].out
        /\ UNCHANGED late
     \/ /\ "reply_lost" \in rare
        /\ late' = TRUE
        /\ UNCHANGED cookie
  /\ req' = [req EXCEPT ![r] = Idle]
  /\ UNCHANGED <<tokenVars, timeVars, linkVars, accessVars, available, rare>>

-----------------------------------------------------------------------------
(* Password reset: forgot_password and reset_password                      *)

\* The UPDATE of _create_one_time_token takes its snapshot ...
Forgot(r) ==
  /\ "reset" \in rare
  /\ Starts(r)
  /\ available
  /\ req' = [req EXCEPT ![r] = [Idle EXCEPT !.pc = "mailing", !.keep = TRUE,
                                  !.cand = {l \in Links : link[l] = "live"}]]
  /\ UNCHANGED <<tokenVars, timeVars, linkVars, accessVars, worldVars>>

LinkInUse(l) == \E r \in Requests : req[r].link = l

\* ... and changes the links that are still unused; the new link is committed with it.
MailLink(r) ==
  /\ Stands(r, "mailing")
  /\ \A l \in req[r].cand : ~LinkInUse(l)
  /\ \E n \in First({l \in Links : link[l] = "absent"}) :
       /\ link' = [l \in Links |->
                     IF l = n THEN "live"
                     ELSE IF l \in req[r].cand /\ link[l] = "live" THEN "replaced" ELSE link[l]]
  /\ Answer(r, NoToken, TRUE)
  /\ UNCHANGED <<tokenVars, timeVars, accessVars, worldVars, resets>>

\* A wrong ResetBegin: the link is read without FOR UPDATE.
ResetReadUnlocked(r) ==
  /\ Starts(r)
  /\ \E l \in Links :
       /\ link[l] = "live"
       /\ req' = [req EXCEPT ![r] = [Idle EXCEPT !.pc = "reset", !.link = l, !.keep = TRUE,
                    !.why = "PASSWORD_RESET", !.fams = {family[t] : t \in {x \in Tokens : Live(x)}}]]
  /\ UNCHANGED <<tokenVars, timeVars, linkVars, accessVars, worldVars>>

\* _consume_one_time_token locks the link's row, and _revoke_all_sessions first
\* reads the families ...
ResetBegin(r) ==
  /\ Starts(r)
  /\ \E l \in Links :
       /\ link[l] = "live" /\ ~LinkInUse(l)
       /\ req' = [req EXCEPT ![r] = [Idle EXCEPT !.pc = "reset", !.link = l, !.keep = TRUE,
                    !.why = "PASSWORD_RESET", !.fams = {family[t] : t \in {x \in Tokens : Live(x)}}]]
  /\ UNCHANGED <<tokenVars, timeVars, linkVars, accessVars, worldVars>>

\* ... and then, in another statement, revokes the tokens.
ResetSnapshot(r) ==
  /\ Stands(r, "reset")
  /\ req' = [req EXCEPT ![r].pc = "closing", ![r].cand = LiveIn(Families)]
  /\ UNCHANGED <<tokenVars, timeVars, linkVars, accessVars, worldVars>>

-----------------------------------------------------------------------------
(* Time and administration                                                 *)

\* More than the grace window has passed since t was rotated.
GracePasses(t) ==
  /\ revoked[t] = "ROTATED" /\ t \notin settled
  /\ settled' = settled \union {t}
  /\ late' = (late \/ \E r \in Requests : req[r].tok = t)
  /\ UNCHANGED <<tokenVars, linkVars, accessVars, expired, available, cookie, rare, req>>

\* Bound: one token expires in a behaviour.
Expires(t) ==
  /\ "expiry" \in rare /\ expired = {}
  /\ Live(t)
  /\ expired' = {t}
  /\ UNCHANGED <<tokenVars, linkVars, accessVars, worldVars, settled, req>>

\* Older access tokens expire first, and a denylist entry outlives by 5 s every
\* access token that was issued before it.
AccessExpires(f) ==
  /\ "access_expiry" \in rare
  /\ access[f] # {}
  /\ access' = [access EXCEPT ![f] = IF "old" \in @ THEN @ \ {"old"} ELSE {}]
  /\ UNCHANGED <<tokenVars, timeVars, linkVars, worldVars, denied, undenied, req>>

\* A wrong DenyExpires: the entry lives as long as the tokens of another family.
DenyExpiresEarly(f) ==
  /\ f \in denied
  /\ denied' = denied \ {f}
  /\ UNCHANGED <<tokenVars, timeVars, linkVars, worldVars, access, undenied, req>>

DenyExpires(f) ==
  /\ f \in denied
  /\ "old" \notin access[f]
  /\ denied' = denied \ {f}
  /\ UNCHANGED <<tokenVars, timeVars, linkVars, worldVars, access, undenied, req>>

\* An operator disables the account in the database; the API has no such call.
Disable ==
  /\ "disabled" \in rare
  /\ available
  /\ available' = FALSE
  /\ UNCHANGED <<tokenVars, timeVars, linkVars, accessVars, cookie, late, rare, req>>

SessionsNext ==
  \/ \E r \in Requests :
       \/ LoginVerify(r) \/ LoginIssue(r)
       \/ RefreshBegin(r) \/ RefreshLock(r) \/ Rotate(r)
       \/ RefreshRefused(r) \/ RefreshEndsSession(r)
       \/ Logout(r) \/ RevokeSession(r) \/ Close(r) \/ Deny(r) \/ Reply(r)
       \/ Forgot(r) \/ MailLink(r) \/ ResetBegin(r) \/ ResetSnapshot(r)
  \/ \E t \in Tokens : GracePasses(t) \/ Expires(t)
  \/ \E f \in Families : AccessExpires(f) \/ DenyExpires(f)
  \/ Disable

SessionsSpec == SessionsInit /\ [][SessionsNext]_sessionVars

-----------------------------------------------------------------------------
(* Properties                                                              *)

\* Rotation hands a session on: however many tabs refresh at the same time, a
\* session has at most one refresh token that is not revoked.
OneLiveToken ==
  \A t, o \in Tokens : Live(t) /\ Live(o) /\ family[t] = family[o] => t = o

OpenFamily(f) == \E t \in Tokens : family[t] = f /\ revoked[t] = "NO"

\* A session that has ended stays ended: no rotation that began before gives it a
\* live token again.
ClosedStaysClosed ==
  [][\A f \in Families :
       (\E t \in Tokens : family[t] = f) /\ ~OpenFamily(f) => ~OpenFamily(f)']_sessionVars

\* _verify and _load_user: an access token is accepted.
Accepts(f) == access[f] # {} /\ f \notin denied /\ available

\* Sign-out reaches the stateless tokens too: once a sign-out has answered, no access
\* token of the session it ended is accepted, unless Redis was away when it was denied.
SignedOutDenied ==
  \A t \in Tokens :
    /\ revoked[t] \in {"LOGOUT", "SESSION_REVOKED", "REUSE_DETECTED"}
    /\ family[t] \notin undenied
    /\ \A r \in Requests : ~(Stands(r, "deny") /\ family[t] \in req[r].fams)
    => ~Accepts(family[t])

\* A browser that gets its replies within the grace window is never taken for one
\* that replays an old token, whatever its tabs do at the same time.
NoFalseReuse == (\E t \in Tokens : revoked[t] = "REUSE_DETECTED") => late

\* A reset link changes the password once, also when it is opened twice at once.
EachResetSpendsALink ==
  resets = Cardinality({l \in Links : link[l] = "consumed"})
=============================================================================
