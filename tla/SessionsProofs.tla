---------------------------- MODULE SessionsProofs ----------------------------
(***************************************************************************)
(* What the sessions of an account promise, however many requests run at    *)
(* the same time and whichever replies are lost: one live refresh token per  *)
(* session, ends that are final and reach the access tokens, no false alarm  *)
(* of reuse, and one password change per reset link.                        *)
(***************************************************************************)
EXTENDS Sessions, FiniteSetTheorems, TLAPS

-----------------------------------------------------------------------------
(* The inductive invariant                                                 *)

Issued(t) == family[t] # NoFamily

\* Whatever a browser or a handler holds has been issued; nothing else is revoked.
Handed ==
  /\ \A t \in Tokens : ~Issued(t) => revoked[t] = "NO"
  /\ cookie # NoToken => Issued(cookie)
  /\ \A r \in Requests : /\ req[r].tok # NoToken => Issued(req[r].tok)
                         /\ req[r].out # NoToken => Issued(req[r].out)
                         /\ req[r].pc \in {"lock", "locked"} => req[r].tok # NoToken

\* A handler that has read a token's row holds its lock, and the row still says so.
RowRead ==
  \A r \in Requests : Stands(r, "locked") =>
    lock[req[r].tok] = r /\ revoked[req[r].tok] = req[r].seen

\* The reasons that end one session.
Endings == {"LOGOUT", "SESSION_REVOKED", "REUSE_DETECTED"}

\* An UPDATE that ends sessions is about tokens of the sessions to deny.
Scope ==
  \A r \in Requests :
    /\ Stands(r, "reset") => req[r].why = "PASSWORD_RESET"
    /\ Stands(r, "closing") =>
         /\ req[r].why \in Endings \union {"PASSWORD_RESET"}
         /\ req[r].cand \subseteq Tokens
         /\ \A t \in req[r].cand : Issued(t)
         /\ req[r].why \in Endings => \A t \in req[r].cand : family[t] \in req[r].fams

\* A session that was ended for one of these reasons has no live token.
EndedClosed == \A t \in Tokens : revoked[t] \in Endings => ~OpenFamily(family[t])

Denying(f) == \E r \in Requests : Stands(r, "deny") /\ f \in req[r].fams
Quiet(f) == "new" \notin access[f] /\ ("old" \in access[f] => f \in denied)

\* Its access tokens are denied, or will be by a handler under way, or Redis was away.
SignedOff ==
  \A t \in Tokens : revoked[t] \in Endings =>
    family[t] \in undenied \/ Denying(family[t]) \/ Quiet(family[t])

\* A token on its way to the browser is unknown to everybody else, so not yet rotated.
OnItsWay ==
  \A r \in Requests : req[r].out # NoToken =>
    /\ Stands(r, "reply") /\ ~req[r].keep
    /\ revoked[req[r].out] # "ROTATED" /\ cookie # req[r].out
    /\ \A o \in Requests : req[o].tok # req[r].out /\ (o # r => req[o].out # req[r].out)

\* While the browser holds a rotated token, its successor is on its way, unless a reply
\* was late.
Succession ==
  cookie # NoToken /\ revoked[cookie] = "ROTATED" =>
    late \/ \E r \in Requests : req[r].out # NoToken /\ req[r].tok = cookie

\* Whoever takes a token for a replayed one has met a late reply.
Alarm ==
  /\ \A t \in settled : revoked[t] = "ROTATED"
  /\ cookie \in settled => late
  /\ \A r \in Requests : /\ "settled" \in req[r].was => late
                         /\ req[r].why = "REUSE_DETECTED" => late
  /\ \A t \in Tokens : revoked[t] = "REUSE_DETECTED" => late

\* A link is used by one reset at a time, and not before that commits.
LinkHeld ==
  \A r \in Requests : req[r].link # NoLink =>
    /\ \A o \in Requests : req[o].link = req[r].link => o = r
    /\ req[r].pc \in {"reset", "closing", "deny"}
    /\ req[r].pc \in {"reset", "closing"} => link[req[r].link] = "live"

IInv ==
  /\ SessionsTypeOK
  /\ Handed /\ RowRead /\ Scope /\ OneLiveToken
  /\ EndedClosed /\ SignedOff
  /\ OnItsWay /\ Succession /\ Alarm
  /\ LinkHeld /\ EachResetSpendsALink

-----------------------------------------------------------------------------
(* Types                                                                   *)

\* What a handler's locals can be.
Locals ==
  [pc : Pcs, tok : Tokens \union {NoToken}, was : SUBSET {"settled", "expired"},
   seen : Reasons \union {"NO"}, link : Links \union {NoLink}, fams : SUBSET Families,
   cand : SUBSET (Tokens \union Links), why : Reasons \union {"NO"},
   out : Tokens \union {NoToken}, keep : BOOLEAN]

\* The ids that stand for "none" are no ids.
LEMMA NoIds ==
  /\ NoRequest \notin Requests /\ NoToken \notin Tokens
  /\ NoFamily \notin Families /\ NoLink \notin Links
  /\ IsFiniteSet(Links) /\ Tokens \cap Links = {}
BY SessionsAssumption DEF NoRequest, NoToken, NoFamily, NoLink

\* New ids are ids that have not been given out.
LEMMA NewIds ==
  /\ \A t \in NewToken : t \in Tokens /\ ~Issued(t)
  /\ \A f \in NewFamily : f \in Families /\ \A t \in Tokens : family[t] # f
  /\ \A S : First(S) \subseteq S
BY SessionsAssumption DEF NewToken, NewFamily, First, Free, Issued

\* Releasing locks leaves locks.
LEMMA UnlockedTyped ==
  ASSUME SessionsTypeOK, NEW r
  PROVE  Unlocked(r) \in [Tokens -> Requests \union {NoRequest}]
BY DEF SessionsTypeOK, Unlocked

\* A handler that has answered.
LEMMA AnswerEffect ==
  ASSUME req \in [Requests -> Locals], NEW r \in Requests,
         NEW t \in Tokens \union {NoToken}, NEW keep \in BOOLEAN, Answer(r, t, keep)
  PROVE  /\ req' \in [Requests -> Locals]
         /\ \A o \in Requests \ {r} : req'[o] = req[o]
         /\ req'[r] = [Idle EXCEPT !.pc = "reply", !.tok = req[r].tok, !.out = t, !.keep = keep]
         /\ req'[r].pc = "reply" /\ req'[r].tok = req[r].tok /\ req'[r].was = {}
         /\ req'[r].seen = "NO" /\ req'[r].link = NoLink /\ req'[r].fams = {}
         /\ req'[r].cand = {} /\ req'[r].why = "NO" /\ req'[r].out = t /\ req'[r].keep = keep
<1>1. [Idle EXCEPT !.pc = "reply", !.tok = req[r].tok, !.out = t, !.keep = keep] \in Locals
  BY DEF Idle, Locals, Pcs, Reasons
<1>2. QED
  BY <1>1 DEF Answer, Idle

\* A handler that goes on keeps its locals.
LEMMA GotoEffect ==
  ASSUME req \in [Requests -> Locals], NEW r \in Requests, NEW where \in Pcs, Goto(r, where)
  PROVE  /\ req' \in [Requests -> Locals]
         /\ \A o \in Requests \ {r} : req'[o] = req[o]
         /\ req'[r] = [req[r] EXCEPT !.pc = where]
BY DEF Goto, Locals

\* The locals that a handler updates together.
LEMMA FieldsTyped ==
  ASSUME NEW q \in Locals
  PROVE  /\ \A seen \in Reasons \union {"NO"} :
              [q EXCEPT !.pc = "locked", !.seen = seen] \in Locals
         /\ \A cand \in SUBSET Tokens : [q EXCEPT !.pc = "closing", !.cand = cand] \in Locals
         /\ \A why \in Reasons, fams \in SUBSET Families, cand \in SUBSET Tokens :
              [q EXCEPT !.pc = "closing", !.why = why, !.fams = fams, !.cand = cand] \in Locals
BY ZenonT(60) DEF Locals, Pcs

\* The step of a handler r.
Handler(r) ==
  \/ LoginVerify(r) \/ LoginIssue(r)
  \/ RefreshBegin(r) \/ RefreshLock(r) \/ Rotate(r)
  \/ RefreshRefused(r) \/ RefreshEndsSession(r)
  \/ Logout(r) \/ RevokeSession(r) \/ Close(r) \/ Deny(r) \/ Reply(r)
  \/ Forgot(r) \/ MailLink(r) \/ ResetBegin(r) \/ ResetSnapshot(r)

\* A step of a handler changes its own locals only.
LEMMA LocalsTyped ==
  ASSUME SessionsTypeOK, Handed, NEW r \in Requests, Handler(r)
  PROVE  /\ req' \in [Requests -> Locals]
         /\ \A o \in Requests \ {r} : req'[o] = req[o]
<1>1. /\ req \in [Requests -> Locals] /\ family \in [Tokens -> Families \union {NoFamily}]
      /\ revoked \in [Tokens -> Reasons \union {"NO"}] /\ cookie \in Tokens \union {NoToken}
      /\ NoToken \notin Tokens
  BY NoIds DEF SessionsTypeOK, Locals
<1>2. CASE LoginVerify(r) \/ Close(r)
  BY <1>1, <1>2, GotoEffect DEF LoginVerify, Close, Pcs
<1>3. CASE LoginIssue(r) \/ Rotate(r)
  BY <1>1, <1>3, AnswerEffect, NewIds DEF LoginIssue, Rotate
<1>4. CASE RefreshRefused(r) \/ Deny(r) \/ MailLink(r)
  <2>1. Answer(r, NoToken, TRUE) \/ Answer(r, NoToken, FALSE)
    BY <1>1, <1>4 DEF RefreshRefused, Deny, MailLink, Locals
  <2>2. QED
    BY <1>1, <2>1, AnswerEffect
<1>5. CASE RefreshBegin(r)
  <2> DEFINE was == {x \in {"settled", "expired"} :
                       IF x = "settled" THEN cookie \in settled ELSE cookie \in expired}
  <2>1. [Idle EXCEPT !.pc = "lock", !.tok = cookie, !.was = was] \in Locals
    BY <1>1 DEF Idle, Locals, Pcs, Reasons
  <2>2. req' = [req EXCEPT ![r] = [Idle EXCEPT !.pc = "lock", !.tok = cookie, !.was = was]]
    BY <1>5 DEF RefreshBegin
  <2>3. QED
    BY <1>1, <2>1, <2>2
<1>6. CASE RefreshLock(r)
  <2>1. req[r].tok \in Tokens
    BY <1>1, <1>6 DEF RefreshLock, Stands, Handed, Locals
  <2>2. revoked[req[r].tok] \in Reasons \union {"NO"}
    BY <1>1, <2>1
  <2>3. PICK seen \in Reasons \union {"NO"} :
          req' = [req EXCEPT ![r].pc = "locked", ![r].seen = seen]
    BY <1>1, <1>6, <2>1 DEF RefreshLock
  <2>4. [req[r] EXCEPT !.pc = "locked", !.seen = seen] \in Locals
    BY <1>1, FieldsTyped
  <2>5. req' = [req EXCEPT ![r] = [req[r] EXCEPT !.pc = "locked", !.seen = seen]]
    BY <2>3
  <2>6. QED
    BY <1>1, <2>4, <2>5
<1>7. CASE RefreshEndsSession(r)
  <2>1. req[r].tok \in Tokens /\ family[req[r].tok] \in Families
    BY <1>1, <1>7 DEF RefreshEndsSession, Stands, Handed, Locals, Issued
  <2>2. LiveIn({family[req[r].tok]}) \subseteq Tokens
    BY DEF LiveIn
  <2>3. PICK why \in Reasons, fams \in SUBSET Families, cand \in SUBSET Tokens :
          req' = [req EXCEPT ![r].pc = "closing", ![r].why = why, ![r].fams = fams,
                             ![r].cand = cand]
    BY <1>7, <2>1, <2>2, ZenonT(60) DEF RefreshEndsSession, Reasons
  <2>4. [req[r] EXCEPT !.pc = "closing", !.why = why, !.fams = fams, !.cand = cand] \in Locals
    BY <1>1, FieldsTyped
  <2>5. req' = [req EXCEPT ![r] =
                  [req[r] EXCEPT !.pc = "closing", !.why = why, !.fams = fams, !.cand = cand]]
    BY <2>3
  <2>6. QED
    BY <1>1, <2>4, <2>5
<1>8. CASE Logout(r)
  <2>1. cookie \in Tokens /\ family[cookie] \in Families
    BY <1>1, <1>8 DEF Logout, Handed, Issued
  <2>2. LiveIn({family[cookie]}) \subseteq Tokens
    BY DEF LiveIn
  <2>3. QED
    BY <1>1, <1>8, <2>1, <2>2, ZenonT(60) DEF Logout, Idle, Locals, Pcs, Reasons
<1>9. CASE RevokeSession(r)
  <2>1. \A f : LiveIn({f}) \subseteq Tokens
    BY DEF LiveIn
  <2>2. PICK f \in Families : req' = [req EXCEPT ![r] =
          [Idle EXCEPT !.pc = "closing", !.why = "SESSION_REVOKED", !.fams = {f},
                       !.cand = LiveIn({f}), !.keep = TRUE]]
    BY <1>1, <1>9, ZenonT(60) DEF RevokeSession
  <2>3. QED
    BY <1>1, <2>1, <2>2 DEF Idle, Locals, Pcs, Reasons
<1>10. CASE Reply(r)
  BY <1>1, <1>10 DEF Reply, Idle, Locals, Pcs, Reasons
<1>11. CASE Forgot(r)
  BY <1>1, <1>11 DEF Forgot, Idle, Locals, Pcs, Reasons
<1>12. CASE ResetBegin(r)
  <2>1. {family[t] : t \in {x \in Tokens : Live(x)}} \subseteq Families
    BY <1>1 DEF Live
  <2>2. PICK l \in Links, fams \in SUBSET Families : req' = [req EXCEPT ![r] =
          [Idle EXCEPT !.pc = "reset", !.link = l, !.keep = TRUE,
                       !.why = "PASSWORD_RESET", !.fams = fams]]
    BY <1>12, <2>1 DEF ResetBegin
  <2>3. QED
    BY <1>1, <2>2 DEF Idle, Locals, Pcs, Reasons
<1>13. CASE ResetSnapshot(r)
  <2>1. LiveIn(Families) \subseteq Tokens
    BY DEF LiveIn
  <2>2. PICK cand \in SUBSET Tokens :
          req' = [req EXCEPT ![r].pc = "closing", ![r].cand = cand]
    BY <1>13, <2>1 DEF ResetSnapshot
  <2>3. [req[r] EXCEPT !.pc = "closing", !.cand = cand] \in Locals
    BY <1>1, FieldsTyped
  <2>4. req' = [req EXCEPT ![r] = [req[r] EXCEPT !.pc = "closing", !.cand = cand]]
    BY <2>2
  <2>5. QED
    BY <1>1, <2>3, <2>4
<1>14. QED
  BY <1>2, <1>3, <1>4, <1>5, <1>6, <1>7, <1>8, <1>9, <1>10, <1>11, <1>12, <1>13 DEF Handler

\* The step of no handler: time passes, or an operator disables the account.
Elsewhere ==
  \/ \E t \in Tokens : GracePasses(t) \/ Expires(t)
  \/ \E f \in Families : AccessExpires(f) \/ DenyExpires(f)
  \/ Disable

\* A step of a handler preserves types.
LEMMA HandlerTyped ==
  ASSUME SessionsTypeOK, Handed, NEW r \in Requests, Handler(r)
  PROVE  SessionsTypeOK'
<1> USE DEF SessionsTypeOK, tokenVars, timeVars, linkVars, accessVars, worldVars
<1>1. req' \in [Requests -> Locals]
  BY LocalsTyped
<1>2. req[r] \in Locals
  BY DEF Locals
<1>3. CASE \/ LoginVerify(r) \/ RefreshBegin(r) \/ RefreshEndsSession(r) \/ Logout(r)
           \/ RevokeSession(r) \/ Forgot(r) \/ ResetBegin(r) \/ ResetSnapshot(r)
  BY <1>1, <1>3
  DEF LoginVerify, RefreshBegin, RefreshEndsSession, Logout, RevokeSession, Forgot, ResetBegin,
      ResetSnapshot, Locals
<1>4. CASE LoginIssue(r)
  <2>1. PICK t \in Tokens, f \in Families :
          /\ family' = [family EXCEPT ![t] = f]
          /\ access' = [access EXCEPT ![f] = @ \union {"new"}]
    BY <1>4, NewIds DEF LoginIssue
  <2>2. QED
    BY <1>1, <1>4, <2>1 DEF LoginIssue, Locals
<1>5. CASE RefreshLock(r)
  BY <1>1, <1>5 DEF RefreshLock, Locals
<1>6. CASE Rotate(r)
  <2>1. PICK n \in Tokens :
          /\ family' = [family EXCEPT ![n] = family[req[r].tok]]
          /\ revoked' = [revoked EXCEPT ![req[r].tok] = "ROTATED"]
          /\ access' = [access EXCEPT ![family[req[r].tok]] = @ \union {"new"}]
    BY <1>6, NewIds DEF Rotate
  <2>2. req[r].tok \in Tokens
    BY <1>2, <1>6, NoIds DEF Rotate, Stands, Handed, Locals
  <2>3. Unlocked(r) \in [Tokens -> Requests \union {NoRequest}]
    BY UnlockedTyped
  <2>4. QED
    BY <1>1, <1>6, <2>1, <2>2, <2>3 DEF Rotate, Reasons, Locals
<1>7. CASE RefreshRefused(r)
  BY <1>1, <1>7, UnlockedTyped DEF RefreshRefused, Locals
<1>8. CASE Close(r)
  <2>1. revoked' \in [Tokens -> Reasons \union {"NO"}]
    BY <1>2, <1>8 DEF Close, Locals
  <2>2. /\ link' \in [Links -> {"absent", "live", "replaced", "consumed"}]
        /\ resets' \in Nat
    BY <1>8 DEF Close
  <2>3. QED
    BY <1>1, <1>8, <2>1, <2>2, UnlockedTyped DEF Close, Locals
<1>9. CASE Deny(r)
  BY <1>1, <1>2, <1>9 DEF Deny, Locals
<1>10. CASE Reply(r)
  BY <1>1, <1>2, <1>10, ZenonT(60) DEF Reply, Locals
<1>11. CASE MailLink(r)
  BY <1>1, <1>11 DEF MailLink, Locals
<1>12. QED
  BY <1>3, <1>4, <1>5, <1>6, <1>7, <1>8, <1>9, <1>10, <1>11 DEF Handler

\* So do time and administration.
LEMMA ElsewhereTyped ==
  ASSUME SessionsTypeOK, Elsewhere
  PROVE  SessionsTypeOK'
<1> USE DEF SessionsTypeOK, tokenVars, timeVars, linkVars, accessVars, worldVars
<1>1. ASSUME NEW t \in Tokens, GracePasses(t) \/ Expires(t)
      PROVE  SessionsTypeOK'
  BY <1>1, ZenonT(60) DEF GracePasses, Expires
<1>2. ASSUME NEW f \in Families, AccessExpires(f) \/ DenyExpires(f)
      PROVE  SessionsTypeOK'
  BY <1>2 DEF AccessExpires, DenyExpires
<1>3. CASE Disable
  BY <1>3 DEF Disable
<1>4. QED
  BY <1>1, <1>2, <1>3 DEF Elsewhere

-----------------------------------------------------------------------------
(* Tokens and their locks                                                  *)

\* What the rows of the tokens can go through in a step of r: a fresh one is issued to a
\* new session, one is rotated, or some live ones are revoked.
TokensStep(r) ==
  \/ UNCHANGED <<family, revoked>>
  \/ /\ Stands(r, "verified") /\ UNCHANGED revoked
     /\ \E t \in NewToken, f \in NewFamily : family' = [family EXCEPT ![t] = f]
  \/ /\ Stands(r, "locked") /\ req[r].seen = "NO"
     /\ \E n \in NewToken : /\ family' = [family EXCEPT ![n] = family[req[r].tok]]
                            /\ revoked' = [revoked EXCEPT ![req[r].tok] = "ROTATED"]
  \/ /\ Stands(r, "closing") /\ UNCHANGED family
     /\ \A t \in req[r].cand \cap Tokens : lock[t] \in {NoRequest, r}
     /\ revoked' = [t \in Tokens |-> IF t \in req[r].cand /\ Live(t) THEN req[r].why
                                                                     ELSE revoked[t]]

LEMMA TokensMove ==
  ASSUME NEW r \in Requests, Handler(r)
  PROVE  TokensStep(r)
<1> USE DEF TokensStep, tokenVars
<1>1. CASE LoginIssue(r)
  BY <1>1 DEF LoginIssue
<1>2. CASE Rotate(r)
  BY <1>2 DEF Rotate
<1>3. CASE Close(r)
  BY <1>3 DEF Close
<1>4. CASE ~LoginIssue(r) /\ ~Rotate(r) /\ ~Close(r)
  BY <1>4 DEF Handler, LoginVerify, RefreshBegin, RefreshLock, RefreshRefused,
              RefreshEndsSession, Logout, RevokeSession, Deny, Reply, Forgot, MailLink,
              ResetBegin, ResetSnapshot
<1>5. QED
  BY <1>1, <1>2, <1>3, <1>4

\* An issued token stays in its session, and one that is revoked stays revoked.
LEMMA TokensLast ==
  ASSUME SessionsTypeOK, Handed, NEW r \in Requests, Handler(r)
  PROVE  /\ \A t \in Tokens : Issued(t) => family'[t] = family[t]
         /\ \A t \in Tokens : revoked[t] # "NO" /\ revoked'[t] # revoked[t] =>
              Stands(r, "locked") /\ t = req[r].tok /\ req[r].seen = "NO"
<1>1. TokensStep(r)
  BY TokensMove
<1>2. QED
  BY <1>1, NewIds DEF TokensStep, SessionsTypeOK, Live

\* Locks are taken free and released by their owner only.
LEMMA LocksMove ==
  ASSUME SessionsTypeOK, NEW r \in Requests, Handler(r)
  PROVE  \A t \in Tokens : lock'[t] # lock[t] =>
           lock[t] = r \/ (lock[t] = NoRequest /\ lock'[t] = r)
<1> USE DEF SessionsTypeOK, tokenVars, Unlocked
<1>1. CASE RefreshLock(r)
  BY <1>1 DEF RefreshLock
<1>2. CASE Rotate(r) \/ RefreshRefused(r) \/ Close(r)
  <2>1. lock' = Unlocked(r)
    BY <1>2 DEF Rotate, RefreshRefused, Close
  <2>2. QED
    BY <2>1
<1>3. CASE ~RefreshLock(r) /\ ~Rotate(r) /\ ~RefreshRefused(r) /\ ~Close(r)
  BY <1>3 DEF Handler, LoginVerify, LoginIssue, RefreshBegin, RefreshEndsSession, Logout,
              RevokeSession, Deny, Reply, Forgot, MailLink, ResetBegin, ResetSnapshot
<1>4. QED
  BY <1>1, <1>2, <1>3

\* Where the locals of a handler come from: it starts with the cookie or a live link,
\* goes on with what it has, or answers, possibly with a token just issued.
LocalsStep(r) ==
  LET old == req[r]  new == req'[r] IN
  /\ new.tok \in {old.tok, cookie, NoToken}
  /\ new.pc \in {"lock", "locked"} => \/ new.tok = old.tok /\ old.pc = "lock"
                                      \/ new.tok = cookie /\ cookie # NoToken
  /\ new.pc = "locked" => /\ old.pc = "lock" /\ new.tok = old.tok
                          /\ lock'[old.tok] = r /\ new.seen = revoked[old.tok]
  /\ new.out # NoToken =>
       \/ new.out = old.out /\ old.pc # "reply"
       \/ /\ new.out \in NewToken /\ family'[new.out] # NoFamily
          /\ new.pc = "reply" /\ ~new.keep /\ new.tok = old.tok
  /\ "settled" \in new.was => "settled" \in old.was \/ cookie \in settled
  /\ new.why # "NO" => \/ new.why = old.why
                       \/ new.why \in {"LOGOUT", "SESSION_REVOKED", "PASSWORD_RESET"}
                       \/ new.why = "REUSE_DETECTED" /\ "settled" \in old.was
  /\ new.link # NoLink => \/ /\ new.link = old.link /\ new.pc \in {"closing", "deny"}
                             /\ new.pc = "closing" => old.pc = "reset"
                          \/ link[new.link] = "live" /\ ~LinkInUse(new.link) /\ new.pc = "reset"

LEMMA LocalsMove ==
  ASSUME SessionsTypeOK, Handed, LinkHeld, NEW r \in Requests, Handler(r)
  PROVE  LocalsStep(r)
<1>1. req \in [Requests -> Locals] /\ req[r] \in Locals
  BY DEF SessionsTypeOK, Locals
<1>2. CASE LoginVerify(r)
  <2>1. req'[r] = [req[r] EXCEPT !.pc = "verified"] /\ req[r].pc = "idle"
    BY <1>1, <1>2, GotoEffect DEF LoginVerify, Pcs, Starts, First, Stands
  <2>2. req[r].link = NoLink
    BY <2>1 DEF LinkHeld
  <2>3. QED
    BY <1>1, <2>1, <2>2 DEF LocalsStep, Locals
<1>3. CASE LoginIssue(r)
  <2>1. PICK n \in NewToken, f \in NewFamily :
          family' = [family EXCEPT ![n] = f] /\ Answer(r, n, FALSE)
    BY <1>3 DEF LoginIssue
  <2>2. family'[n] # NoFamily /\ n \in Tokens
    BY <2>1, NewIds, NoIds DEF SessionsTypeOK
  <2>3. /\ req'[r].pc = "reply" /\ req'[r].tok = req[r].tok /\ req'[r].was = {}
        /\ req'[r].link = NoLink /\ req'[r].why = "NO" /\ req'[r].out = n /\ req'[r].keep = FALSE
    BY <1>1, <2>1, <2>2, AnswerEffect 
  <2>4. QED
    BY <2>1, <2>2, <2>3 DEF LocalsStep
<1>4. CASE RefreshBegin(r)
  BY <1>1, <1>4 DEF RefreshBegin, LocalsStep, Idle
<1>5. CASE RefreshLock(r)
  <2>1. req[r].pc = "lock" /\ req[r].tok \in Tokens /\ lock[req[r].tok] = NoRequest
    BY <1>1, <1>5 DEF RefreshLock, Stands, Handed, Locals
  <2>2. lock'[req[r].tok] = r
    BY <1>5, <2>1 DEF RefreshLock, SessionsTypeOK
  <2>3. /\ req'[r].pc = "locked" /\ req'[r].tok = req[r].tok /\ req'[r].was = req[r].was
        /\ req'[r].seen = revoked[req[r].tok] /\ req'[r].link = req[r].link
        /\ req'[r].why = req[r].why /\ req'[r].out = req[r].out
    BY <1>1, <1>5 DEF RefreshLock, Locals
  <2>4. req[r].link = NoLink
    BY <2>1 DEF LinkHeld
  <2>5. QED
    BY <2>4, <2>1, <2>2, <2>3 DEF LocalsStep
<1>6. CASE Rotate(r)
  <2>1. PICK n \in NewToken :
          family' = [family EXCEPT ![n] = family[req[r].tok]] /\ Answer(r, n, FALSE)
    BY <1>6 DEF Rotate
  <2>2. family'[n] # NoFamily /\ n \in Tokens
    BY <1>6, <2>1, NewIds, NoIds DEF Rotate, Stands, Handed, Issued, SessionsTypeOK
  <2>3. /\ req'[r].pc = "reply" /\ req'[r].tok = req[r].tok /\ req'[r].was = {}
        /\ req'[r].link = NoLink /\ req'[r].why = "NO" /\ req'[r].out = n /\ req'[r].keep = FALSE
    BY <1>1, <2>1, <2>2, AnswerEffect 
  <2>4. QED
    BY <2>1, <2>2, <2>3 DEF LocalsStep
<1>7. CASE RefreshRefused(r) \/ Deny(r) \/ MailLink(r)
  <2>1. Answer(r, NoToken, TRUE) \/ Answer(r, NoToken, FALSE)
    BY <1>1, <1>7 DEF RefreshRefused, Deny, MailLink, Locals
  <2>2. QED
    BY <1>1, <2>1, AnswerEffect DEF LocalsStep
<1>8. CASE RefreshEndsSession(r)
  <2>1. PICK why \in {"REUSE_DETECTED", "SESSION_REVOKED"} :
          /\ why = "REUSE_DETECTED" => "settled" \in req[r].was
          /\ req' = [req EXCEPT ![r].pc = "closing", ![r].why = why,
                                ![r].fams = {family[req[r].tok]},
                                ![r].cand = LiveIn({family[req[r].tok]})]
    BY <1>8 DEF RefreshEndsSession
  <2>2. /\ req'[r].pc = "closing" /\ req'[r].tok = req[r].tok /\ req'[r].was = req[r].was
        /\ req'[r].link = req[r].link /\ req'[r].why = why /\ req'[r].out = req[r].out
    BY <1>1, <2>1 DEF Locals
  <2>3. req[r].pc = "locked" /\ req[r].link = NoLink
    BY <1>8 DEF RefreshEndsSession, Stands, LinkHeld
  <2>4. QED
    BY <2>1, <2>2, <2>3 DEF LocalsStep
<1>9. CASE Logout(r)
  BY <1>1, <1>9 DEF Logout, LocalsStep, Idle
<1>10. CASE RevokeSession(r)
  BY <1>1, <1>10 DEF RevokeSession, LocalsStep, Idle
<1>11. CASE Close(r)
  <2>1. req'[r] = [req[r] EXCEPT !.pc = "deny"] /\ req[r].pc = "closing"
    BY <1>1, <1>11, GotoEffect DEF Close, Pcs, Stands
  <2>2. QED
    BY <1>1, <2>1 DEF LocalsStep, Locals
<1>12. CASE Reply(r)
  BY <1>1, <1>12 DEF Reply, LocalsStep, Idle
<1>13. CASE Forgot(r)
  BY <1>1, <1>13 DEF Forgot, LocalsStep, Idle
<1>14. CASE ResetBegin(r)
  BY <1>1, <1>14 DEF ResetBegin, LocalsStep, Idle
<1>15. CASE ResetSnapshot(r)
  BY <1>1, <1>15 DEF ResetSnapshot, LocalsStep, Stands, Locals
<1>16. QED
  BY <1>2, <1>3, <1>4, <1>5, <1>6, <1>7, <1>8, <1>9, <1>10, <1>11, <1>12, <1>13, <1>14, <1>15
  DEF Handler

\* What a step of r does to the cookie, and to the lateness of replies.
CookieStep(r) ==
  /\ settled' = settled /\ late' \in BOOLEAN /\ (late => late')
  /\ cookie' = cookie \/ (req[r].pc = "reply" /\ ~req[r].keep /\ cookie' = req[r].out)
  /\ req[r].pc = "reply" => late' \/ cookie' = (IF req[r].keep THEN cookie ELSE req[r].out)

LEMMA CookieMove ==
  ASSUME SessionsTypeOK, NEW r \in Requests, Handler(r)
  PROVE  CookieStep(r)
<1>1. CASE Reply(r)
  BY <1>1 DEF Reply, Stands, CookieStep, timeVars, SessionsTypeOK
<1>2. CASE ~Reply(r)
  <2>1. req[r].pc # "reply"
    BY <1>2 DEF Handler, LoginVerify, LoginIssue, RefreshBegin, RefreshLock, Rotate,
                RefreshRefused, RefreshEndsSession, Logout, RevokeSession, Close, Deny,
                Forgot, MailLink, ResetBegin, ResetSnapshot, Stands, Starts, First
  <2>2. UNCHANGED <<settled, late, cookie>>
    BY <1>2 DEF Handler, LoginVerify, LoginIssue, RefreshBegin, RefreshLock, Rotate,
                RefreshRefused, RefreshEndsSession, Logout, RevokeSession, Close, Deny,
                Forgot, MailLink, ResetBegin, ResetSnapshot, timeVars, worldVars
  <2>3. QED
    BY <2>1, <2>2 DEF CookieStep, SessionsTypeOK
<1>3. QED
  BY <1>1, <1>2

\* What a step of r does to the access tokens and the denylist: it issues new access
\* tokens to a new session or to the one it rotates, or it denies those of its sessions.
AccessStep(r) ==
  /\ undenied \subseteq undenied' /\ denied \subseteq denied'
  /\ \A f \in Families :
       /\ "new" \in access'[f] =>
            \/ "new" \in access[f]
            \/ f \in NewFamily /\ Stands(r, "verified")
            \/ Stands(r, "locked") /\ req[r].seen = "NO" /\ f = family[req[r].tok]
       /\ "old" \in access'[f] => "old" \in access[f] \/ f \in denied'
  /\ Stands(r, "deny") =>
       \A f \in req[r].fams : f \in undenied' \/ (f \in denied' /\ "new" \notin access'[f])

LEMMA AccessMove ==
  ASSUME SessionsTypeOK, Handed, NEW r \in Requests, Handler(r)
  PROVE  AccessStep(r)
<1>1. /\ access \in [Families -> SUBSET {"old", "new"}] /\ req[r].fams \subseteq Families
      /\ denied \subseteq Families /\ undenied \subseteq Families
  BY DEF SessionsTypeOK
<1>2. CASE LoginIssue(r)
  <2>1. PICK f \in NewFamily : access' = [access EXCEPT ![f] = @ \union {"new"}]
    BY <1>2 DEF LoginIssue
  <2>2. UNCHANGED <<denied, undenied>> /\ req[r].pc = "verified"
    BY <1>2 DEF LoginIssue, Stands
  <2>3. QED
    BY <1>1, <2>1, <2>2 DEF AccessStep, Stands
<1>3. CASE Rotate(r)
  <2>1. access' = [access EXCEPT ![family[req[r].tok]] = @ \union {"new"}]
    BY <1>3 DEF Rotate
  <2>2. UNCHANGED <<denied, undenied>> /\ req[r].pc = "locked" /\ req[r].seen = "NO"
    BY <1>3 DEF Rotate, Stands
  <2>3. QED
    BY <1>1, <2>1, <2>2 DEF AccessStep, Stands
<1>4. CASE Deny(r)
  BY <1>1, <1>4 DEF Deny, AccessStep, Stands
<1>5. CASE ~LoginIssue(r) /\ ~Rotate(r) /\ ~Deny(r)
  <2>1. UNCHANGED accessVars /\ req[r].pc # "deny"
    BY <1>5 DEF Handler, LoginVerify, RefreshBegin, RefreshLock, RefreshRefused,
                RefreshEndsSession, Logout, RevokeSession, Close, Reply, Forgot, MailLink,
                ResetBegin, ResetSnapshot, Stands, Starts, First
  <2>2. QED
    BY <2>1 DEF AccessStep, accessVars, Stands
<1>6. QED
  BY <1>2, <1>3, <1>4, <1>5

\* What a step of r does to the reset links: it mails a new one and replaces those that
\* are live and in nobody's hands, or it consumes the one it holds.
LinksStep(r) ==
  \/ UNCHANGED <<link, resets>>
  \/ /\ UNCHANGED resets /\ req'[r].link = NoLink
     /\ \A l \in Links : link'[l] # link[l] =>
          \/ link[l] = "absent" /\ link'[l] = "live"
          \/ link[l] = "live" /\ link'[l] = "replaced" /\ ~LinkInUse(l)
  \/ /\ Stands(r, "closing") /\ req[r].link # NoLink /\ req'[r].pc = "deny"
     /\ resets' = resets + 1
     /\ link' = [link EXCEPT ![req[r].link] = "consumed"]

LEMMA LinksMove ==
  ASSUME SessionsTypeOK, NEW r \in Requests, Handler(r)
  PROVE  LinksStep(r)
<1>1. CASE MailLink(r)
  <2>1. UNCHANGED resets /\ \A l \in req[r].cand : ~LinkInUse(l)
    BY <1>1 DEF MailLink
  <2>2. PICK n \in Links : link[n] = "absent" /\ link' = [l \in Links |->
          IF l = n THEN "live"
          ELSE IF l \in req[r].cand /\ link[l] = "live" THEN "replaced" ELSE link[l]]
    BY <1>1, NewIds DEF MailLink, First
  <2>3. req'[r].link = NoLink
    <3>1. Answer(r, NoToken, TRUE) /\ req \in [Requests -> Locals]
      BY <1>1 DEF MailLink, SessionsTypeOK, Locals
    <3>2. QED
      BY <3>1, AnswerEffect
  <2>4. QED
    BY <2>1, <2>2, <2>3 DEF LinksStep
<1>2. CASE Close(r)
  <2>1. req'[r].pc = "deny"
    BY <1>2 DEF Close, Goto, SessionsTypeOK
  <2>2. QED
    BY <1>2, <2>1 DEF Close, LinksStep, linkVars
<1>3. CASE ~MailLink(r) /\ ~Close(r)
  BY <1>3 DEF LinksStep, linkVars, Handler, LoginVerify, LoginIssue, RefreshBegin, RefreshLock,
              Rotate, RefreshRefused, RefreshEndsSession, Logout, RevokeSession, Deny, Reply,
              Forgot, ResetBegin, ResetSnapshot
<1>4. QED
  BY <1>1, <1>2, <1>3

-----------------------------------------------------------------------------
(* Each part of the invariant outlives the step of a handler               *)

\* A rotation is of a live token, whose row nobody else may touch.
LEMMA RotatesLive ==
  ASSUME SessionsTypeOK, Handed, RowRead, NEW r \in Requests, Stands(r, "locked")
  PROVE  /\ req[r].tok \in Tokens /\ Issued(req[r].tok)
         /\ lock[req[r].tok] = r /\ revoked[req[r].tok] = req[r].seen
BY DEF SessionsTypeOK, Handed, RowRead, Stands

\* What a step of r does to one row: only live rows change their state, a rotated one if
\* r has read it and others if r's UPDATE is about them, and a row that is inserted begins
\* a new session or takes over the session of the token that is rotated with it.
RowsStep(r) ==
  /\ \A t \in Tokens : Issued(t) => family'[t] = family[t]
  /\ \A t \in Tokens : ~Issued(t) => revoked'[t] = "NO"
  /\ \A t \in Tokens : revoked'[t] # revoked[t] =>
       /\ Live(t)
       /\ \/ Stands(r, "locked") /\ t = req[r].tok /\ revoked'[t] = "ROTATED"
          \/ /\ Stands(r, "closing") /\ t \in req[r].cand /\ revoked'[t] = req[r].why
             /\ \A o \in req[r].cand \cap Tokens : Live(o) => revoked'[o] = req[r].why
  /\ \A t \in Tokens : ~Issued(t) /\ family'[t] # NoFamily =>
       \/ family'[t] \in NewFamily
       \/ /\ Stands(r, "locked") /\ family'[t] = family[req[r].tok]
          /\ Live(req[r].tok) /\ revoked'[req[r].tok] = "ROTATED"
  /\ \A t, o \in Tokens : ~Issued(t) /\ ~Issued(o) =>
       family'[t] = NoFamily \/ family'[o] = NoFamily \/ t = o

LEMMA RowsMove ==
  ASSUME SessionsTypeOK, Handed, RowRead, NEW r \in Requests, Handler(r)
  PROVE  RowsStep(r)
<1>1. TokensStep(r)
  BY TokensMove
<1>2. Stands(r, "locked") => /\ req[r].tok \in Tokens /\ Issued(req[r].tok)
                             /\ revoked[req[r].tok] = req[r].seen
  BY RotatesLive
<1>3. /\ family \in [Tokens -> Families \union {NoFamily}]
      /\ revoked \in [Tokens -> Reasons \union {"NO"}]
  BY DEF SessionsTypeOK
<1>4. \A t \in Tokens : ~Issued(t) => revoked[t] = "NO" /\ family[t] = NoFamily
  BY DEF Handed, Issued
<1>5. CASE UNCHANGED <<family, revoked>>
  BY <1>3, <1>4, <1>5 DEF RowsStep
<1>6. ASSUME UNCHANGED revoked, NEW t \in NewToken, NEW f \in NewFamily,
             family' = [family EXCEPT ![t] = f]
      PROVE  RowsStep(r)
  BY <1>3, <1>4, <1>6, NewIds DEF RowsStep, Issued
<1>7. ASSUME Stands(r, "locked"), req[r].seen = "NO", NEW n \in NewToken,
             family' = [family EXCEPT ![n] = family[req[r].tok]],
             revoked' = [revoked EXCEPT ![req[r].tok] = "ROTATED"]
      PROVE  RowsStep(r)
  <2>1. Live(req[r].tok) /\ req[r].tok # n /\ n \in Tokens /\ ~Issued(n)
    BY <1>2, <1>7, NewIds DEF Live, Issued
  <2>2. /\ \A t \in Tokens : Issued(t) => family'[t] = family[t]
        /\ \A t \in Tokens : family'[t] # family[t] => t = n /\ family'[t] = family[req[r].tok]
    BY <1>3, <1>7, <2>1
  <2>3. /\ \A t \in Tokens : ~Issued(t) => revoked'[t] = "NO"
        /\ \A t \in Tokens : revoked'[t] # revoked[t] => t = req[r].tok
        /\ revoked'[req[r].tok] = "ROTATED"
    BY <1>2, <1>3, <1>4, <1>7, <2>1
  <2>4. QED
    BY <1>4, <1>7, <2>1, <2>2, <2>3 DEF RowsStep
<1>8. ASSUME Stands(r, "closing"), UNCHANGED family,
             revoked' = [t \in Tokens |-> IF t \in req[r].cand /\ Live(t) THEN req[r].why
                                                                          ELSE revoked[t]]
      PROVE  RowsStep(r)
  BY <1>3, <1>4, <1>8 DEF RowsStep, Live, Issued
<1>9. QED
  BY <1>1, <1>5, <1>6, <1>7, <1>8 DEF TokensStep

\* What is handed out has been issued.
LEMMA HandedKept ==
  ASSUME SessionsTypeOK, Handed, RowRead, LinkHeld, NEW r \in Requests, Handler(r)
  PROVE  Handed'
<1>1. /\ RowsStep(r) /\ LocalsStep(r) /\ CookieStep(r)
      /\ \A o \in Requests \ {r} : req'[o] = req[o]
  BY RowsMove, LocalsMove, CookieMove, LocalsTyped
<1>2. SessionsTypeOK' /\ NoToken \notin Tokens
  BY HandlerTyped, NoIds
<1>3. \A t \in Tokens : Issued(t) => Issued(t)'
  BY <1>1 DEF RowsStep, Issued
<1>4. \A t \in Tokens : ~Issued(t)' => revoked'[t] = "NO"
  BY <1>1, <1>3 DEF RowsStep
<1>5. cookie' # NoToken => Issued(cookie)'
  BY <1>1, <1>3 DEF CookieStep, Handed, SessionsTypeOK
<1>6. ASSUME NEW o \in Requests
      PROVE  /\ req'[o].tok # NoToken => Issued(req[o].tok)'
             /\ req'[o].out # NoToken => Issued(req[o].out)'
             /\ req'[o].pc \in {"lock", "locked"} => req'[o].tok # NoToken
  <2>1. /\ req[o].tok \in Tokens \union {NoToken} /\ req[o].out \in Tokens \union {NoToken}
        /\ cookie \in Tokens \union {NoToken}
    BY DEF SessionsTypeOK
  <2>2. CASE o # r
    BY <1>1, <1>3, <2>1, <2>2 DEF Handed, Issued
  <2>3. CASE o = r
    <3>1. req'[o].tok # NoToken => Issued(req[o].tok)'
      BY <1>1, <1>3, <2>1, <2>3 DEF LocalsStep, Handed, Issued
    <3>2. req'[o].out # NoToken => Issued(req[o].out)'
      BY <1>1, <1>3, <2>1, <2>3 DEF LocalsStep, Handed, Issued
    <3>3. req'[o].pc \in {"lock", "locked"} => req'[o].tok # NoToken
      BY <1>1, <2>3 DEF LocalsStep, Handed
    <3>4. QED
      BY <3>1, <3>2, <3>3
  <2>4. QED
    BY <2>2, <2>3
<1>7. QED
  BY <1>4, <1>5, <1>6 DEF Handed

\* The row that a handler has read stays as it is while the handler holds the lock.
LEMMA RowReadKept ==
  ASSUME SessionsTypeOK, Handed, RowRead, LinkHeld, NEW r \in Requests, Handler(r)
  PROVE  RowRead'
<1>1. /\ TokensStep(r) /\ LocalsStep(r)
      /\ \A o \in Requests \ {r} : req'[o] = req[o]
      /\ \A t \in Tokens : lock'[t] # lock[t] =>
           lock[t] = r \/ (lock[t] = NoRequest /\ lock'[t] = r)
  BY TokensMove, LocalsMove, LocalsTyped, LocksMove
<1>2. ASSUME NEW o \in Requests, Stands(o, "locked")'
      PROVE  lock'[req'[o].tok] = o /\ revoked'[req'[o].tok] = req'[o].seen
  <2>1. CASE o = r
    <3>1. /\ req'[o].tok = req[o].tok /\ req[o].pc = "lock" /\ lock'[req[o].tok] = o
          /\ req'[o].seen = revoked[req[o].tok]
      BY <1>1, <1>2, <2>1 DEF LocalsStep, Stands
    <3>2. UNCHANGED revoked
      BY <1>1, <2>1, <3>1 DEF TokensStep, Stands
    <3>3. QED
      BY <3>1, <3>2
  <2>2. CASE o # r
    <3>1. req'[o] = req[o] /\ Stands(o, "locked")
      BY <1>1, <1>2, <2>2 DEF Stands
    <3>2. req[o].tok \in Tokens /\ lock[req[o].tok] = o /\ revoked[req[o].tok] = req[o].seen
      BY <3>1, RotatesLive
    <3>3. lock'[req[o].tok] = o
      BY <1>1, <2>2, <3>2, NoIds
    <3>4. Stands(r, "locked") => req[r].tok # req[o].tok
      BY <2>2, <3>2, RotatesLive
    <3>5. revoked'[req[o].tok] = revoked[req[o].tok]
      BY <1>1, <2>2, <3>2, <3>4, NoIds DEF TokensStep, SessionsTypeOK
    <3>6. QED
      BY <3>1, <3>2, <3>3, <3>5
  <2>3. QED
    BY <2>1, <2>2
<1>3. QED
  BY <1>2 DEF RowRead

\* An UPDATE that ends sessions begins with the tokens of those sessions.
LEMMA ScopeKept ==
  ASSUME SessionsTypeOK, Handed, RowRead, Scope, LinkHeld, NEW r \in Requests, Handler(r)
  PROVE  Scope'
<1> DEFINE Fits(q) ==
      /\ q.pc = "reset" => q.why = "PASSWORD_RESET"
      /\ q.pc = "closing" =>
           /\ q.why \in Endings \union {"PASSWORD_RESET"}
           /\ q.cand \subseteq Tokens
           /\ \A t \in q.cand : Issued(t)
           /\ q.why \in Endings => \A t \in q.cand : family[t] \in q.fams
<1>1. /\ req \in [Requests -> Locals] /\ req[r] \in Locals
      /\ \A o \in Requests : Fits(req[o])
      /\ \A fams : LiveIn(fams) \subseteq Tokens
      /\ \A fams : \A t \in LiveIn(fams) : Issued(t) /\ family[t] \in fams
  BY DEF SessionsTypeOK, Locals, Scope, Stands, LiveIn, Live, Issued
<1>2. Fits(req'[r])
  <2>1. CASE RefreshEndsSession(r)
    <3>1. PICK why \in {"REUSE_DETECTED", "SESSION_REVOKED"} :
            req' = [req EXCEPT ![r].pc = "closing", ![r].why = why,
                               ![r].fams = {family[req[r].tok]},
                               ![r].cand = LiveIn({family[req[r].tok]})]
      BY <2>1 DEF RefreshEndsSession
    <3>2. /\ req'[r].pc = "closing" /\ req'[r].why = why /\ req'[r].fams = {family[req[r].tok]}
          /\ req'[r].cand = LiveIn({family[req[r].tok]})
      BY <1>1, <3>1 DEF Locals
    <3>3. Fits(req'[r])
      BY <1>1, <3>2 DEF Endings
    <3>4. QED
      BY <3>3
  <2>2. CASE Logout(r)
    <3>1. req'[r] = [Idle EXCEPT !.pc = "closing", !.why = "LOGOUT", !.tok = cookie,
                                 !.fams = {family[cookie]}, !.cand = LiveIn({family[cookie]})]
      BY <1>1, <2>2 DEF Logout
    <3>2. /\ req'[r].pc = "closing" /\ req'[r].why = "LOGOUT" /\ req'[r].fams = {family[cookie]}
          /\ req'[r].cand = LiveIn({family[cookie]})
      BY <3>1 DEF Idle
    <3>3. QED
      BY <1>1, <3>2 DEF Endings
  <2>3. CASE RevokeSession(r)
    <3>1. PICK f : req'[r] = [Idle EXCEPT !.pc = "closing", !.why = "SESSION_REVOKED",
                                !.fams = {f}, !.cand = LiveIn({f}), !.keep = TRUE]
      BY <1>1, <2>3 DEF RevokeSession
    <3>2. /\ req'[r].pc = "closing" /\ req'[r].why = "SESSION_REVOKED" /\ req'[r].fams = {f}
          /\ req'[r].cand = LiveIn({f})
      BY <3>1 DEF Idle
    <3>3. QED
      BY <1>1, <3>2 DEF Endings
  <2>4. CASE ResetSnapshot(r)
    <3>1. /\ req'[r].pc = "closing" /\ req'[r].why = "PASSWORD_RESET"
          /\ req'[r].cand = LiveIn(Families)
      BY <1>1, <2>4 DEF ResetSnapshot, Locals, Stands
    <3>2. QED
      BY <1>1, <3>1 DEF Endings
  <2>5. CASE ResetBegin(r)
    BY <1>1, <2>5 DEF ResetBegin, Idle
  <2>6. CASE RefreshRefused(r) \/ Deny(r) \/ MailLink(r)
    <3>1. Answer(r, NoToken, TRUE) \/ Answer(r, NoToken, FALSE)
      BY <1>1, <2>6 DEF RefreshRefused, Deny, MailLink, Locals
    <3>2. QED
      BY <1>1, <3>1, AnswerEffect
  <2>7. CASE LoginIssue(r) \/ Rotate(r)
    BY <1>1, <2>7, AnswerEffect, NewIds DEF LoginIssue, Rotate
  <2>8. CASE LoginVerify(r) \/ Close(r)
    <3>1. PICK where \in {"verified", "deny"} : Goto(r, where)
      BY <2>8 DEF LoginVerify, Close
    <3>2. req'[r].pc = where
      BY <1>1, <3>1 DEF Goto, Locals
    <3>3. QED
      BY <3>2
  <2>9. CASE RefreshBegin(r) \/ Reply(r) \/ Forgot(r)
    <3>1. RefreshBegin(r) => req'[r].pc = "lock"
      BY <1>1 DEF RefreshBegin, Idle
    <3>2. Reply(r) => req'[r].pc = "idle"
      BY <1>1 DEF Reply, Idle
    <3>3. Forgot(r) => req'[r].pc = "mailing"
      BY <1>1 DEF Forgot, Idle
    <3>4. QED
      BY <2>9, <3>1, <3>2, <3>3
  <2>10. CASE RefreshLock(r)
    BY <1>1, <2>10 DEF RefreshLock, Locals
  <2>11. QED
    BY <2>1, <2>2, <2>3, <2>4, <2>5, <2>6, <2>7, <2>8, <2>9, <2>10 DEF Handler
<1>3. /\ \A o \in Requests \ {r} : req'[o] = req[o]
      /\ \A t \in Tokens : Issued(t) => family'[t] = family[t]
  BY LocalsTyped, RowsMove DEF RowsStep
<1>4. ASSUME NEW o \in Requests
       PROVE  /\ Stands(o, "reset")' => req'[o].why = "PASSWORD_RESET"
              /\ Stands(o, "closing")' =>
                   /\ req'[o].why \in Endings \union {"PASSWORD_RESET"}
                   /\ req'[o].cand \subseteq Tokens
                   /\ \A t \in req'[o].cand : Issued(t)'
                   /\ req'[o].why \in Endings => \A t \in req'[o].cand : family'[t] \in req'[o].fams
  <2>1. Fits(req'[o])
    BY <1>1, <1>2, <1>3
  <2>2. CASE Stands(o, "closing")'
    <3>1. req'[o].pc = "closing"
      BY <2>2 DEF Stands
    <3>2. \A t \in req'[o].cand : t \in Tokens /\ Issued(t) /\ family'[t] = family[t]
      BY <1>3, <2>1, <3>1
    <3>3. \A t \in req'[o].cand : Issued(t)'
      BY <3>2 DEF Issued
    <3>4. QED
      BY <2>1, <3>1, <3>2, <3>3 DEF Stands
  <2>3. QED
    BY <2>1, <2>2 DEF Stands
<1>5. QED
  BY <1>4 DEF Scope

\* A rotation or a sign-in leaves a session with one live token, and an end with none.
LEMMA OneLiveTokenKept ==
  ASSUME SessionsTypeOK, Handed, RowRead, OneLiveToken, NEW r \in Requests, Handler(r)
  PROVE  OneLiveToken'
<1>1. RowsStep(r) /\ family \in [Tokens -> Families \union {NoFamily}]
  BY RowsMove DEF SessionsTypeOK
<1>2. ASSUME NEW t \in Tokens, Live(t)', Issued(t)
      PROVE  Live(t) /\ family'[t] = family[t]
  BY <1>1, <1>2 DEF RowsStep, Live, Issued
<1>3. ASSUME NEW t \in Tokens, NEW o \in Tokens, Live(t)', Live(o)', family'[t] = family'[o],
             Issued(t), ~Issued(o)
      PROVE  FALSE
  <2>1. Live(t) /\ family'[t] = family[t]
    BY <1>2, <1>3
  <2>2. family'[o] \notin NewFamily
    BY <1>3, <2>1, NewIds
  <2>3. /\ Stands(r, "locked") /\ family[t] = family[req[r].tok]
        /\ Live(req[r].tok) /\ revoked'[req[r].tok] = "ROTATED"
    BY <1>1, <1>3, <2>1, <2>2 DEF RowsStep, Live
  <2>4. req[r].tok = t
    BY <2>1, <2>3, RotatesLive DEF OneLiveToken
  <2>5. QED
    BY <1>3, <2>3, <2>4 DEF Live
<1>4. ASSUME NEW t \in Tokens, NEW o \in Tokens, Live(t)', Live(o)', family'[t] = family'[o]
      PROVE  t = o
  <2>1. CASE Issued(t) /\ Issued(o)
    BY <1>2, <1>4, <2>1 DEF OneLiveToken
  <2>2. CASE ~Issued(t) /\ ~Issued(o)
    BY <1>1, <1>4, <2>2 DEF RowsStep, Live
  <2>3. QED
    BY <1>3, <1>4, <2>1, <2>2
<1>5. QED
  BY <1>4 DEF OneLiveToken

\* A token that is live after a step, in a session that had tokens before it, is the
\* successor of one that was live, or that one itself.
LEMMA OpenBefore ==
  ASSUME SessionsTypeOK, Handed, RowRead, NEW r \in Requests, Handler(r),
         NEW f \in Families, OpenFamily(f)'
  PROVE  OpenFamily(f) \/ \A t \in Tokens : family[t] # f
<1>1. RowsStep(r)
  BY RowsMove
<1>2. PICK t \in Tokens : family'[t] = f /\ revoked'[t] = "NO"
  BY DEF OpenFamily
<1>3. CASE Issued(t)
  BY <1>1, <1>2, <1>3 DEF RowsStep, Live, OpenFamily
<1>4. CASE ~Issued(t)
  <2>1. \/ f \in NewFamily
        \/ Stands(r, "locked") /\ f = family[req[r].tok] /\ Live(req[r].tok)
    BY <1>1, <1>2, <1>4, NoIds DEF RowsStep
  <2>2. QED
    BY <2>1, NewIds, RotatesLive DEF OpenFamily, Live
<1>5. QED
  BY <1>3, <1>4

\* An ended session stays without a live token, whatever was under way.
LEMMA EndedClosedKept ==
  ASSUME SessionsTypeOK, Handed, RowRead, Scope, OneLiveToken, EndedClosed,
         NEW r \in Requests, Handler(r)
  PROVE  EndedClosed'
<1>1. RowsStep(r) /\ family \in [Tokens -> Families \union {NoFamily}]
  BY RowsMove DEF SessionsTypeOK
<1>2. ASSUME NEW t \in Tokens, revoked'[t] \in Endings, OpenFamily(family[t])'
      PROVE  FALSE
  <2>1. /\ family'[t] = family[t] /\ Issued(t) /\ family[t] \in Families
    BY <1>1, <1>2 DEF RowsStep, Endings, Issued
  <2>2. OpenFamily(family[t])
    <3>1. PICK f \in Families : f = family[t] /\ OpenFamily(f)'
      BY <1>2, <2>1 DEF OpenFamily
    <3>2. QED
      BY <3>1, OpenBefore
  <2>3. Live(t)
    BY <1>1, <1>2, <2>2 DEF RowsStep, EndedClosed
  <2>4. PICK o \in Tokens : family'[o] = family[t] /\ revoked'[o] = "NO"
    BY <1>2, <2>1 DEF OpenFamily
  <2>5. revoked'[t] # revoked[t] /\ revoked'[t] # "ROTATED" /\ revoked'[t] # "NO"
    BY <1>2, <2>3 DEF Live, Endings
  <2>6. Stands(r, "closing")
    BY <1>1, <2>5 DEF RowsStep
  <2>7. Issued(o)
    BY <1>1, <2>1, <2>4, <2>6, NewIds DEF RowsStep, Stands, Issued
  <2>8. Live(o) /\ family[o] = family[t]
    BY <1>1, <2>4, <2>7 DEF RowsStep, Live, Issued
  <2>9. o = t
    BY <2>3, <2>8 DEF OneLiveToken
  <2>10. QED
    BY <2>4, <2>5, <2>9
<1>3. QED
  BY <1>2 DEF EndedClosed

\* A handler that ends sessions goes on to deny their access tokens.
LEMMA DenyNext ==
  ASSUME SessionsTypeOK, NEW r \in Requests, Handler(r)
  PROVE  Stands(r, "closing") => req'[r].pc = "deny" /\ req'[r].fams = req[r].fams
<1>1. ASSUME Stands(r, "closing")
      PROVE  Close(r)
  BY <1>1 DEF Handler, LoginVerify, LoginIssue, RefreshBegin, RefreshLock, Rotate,
              RefreshRefused, RefreshEndsSession, Logout, RevokeSession, Deny, Reply, Forgot,
              MailLink, ResetBegin, ResetSnapshot, Stands, Starts, First
<1>2. ASSUME Close(r)
      PROVE  req'[r] = [req[r] EXCEPT !.pc = "deny"]
  BY <1>2 DEF Close, Goto, SessionsTypeOK
<1>3. req[r] \in Locals
  BY DEF SessionsTypeOK, Locals
<1>4. QED
  BY <1>1, <1>2, <1>3 DEF Locals

\* The access tokens of an ended session stay denied, or about to be.
LEMMA SignedOffKept ==
  ASSUME SessionsTypeOK, Handed, RowRead, Scope, EndedClosed, SignedOff,
         NEW r \in Requests, Handler(r)
  PROVE  SignedOff'
<1>1. /\ RowsStep(r) /\ AccessStep(r) /\ \A o \in Requests \ {r} : req'[o] = req[o]
      /\ Stands(r, "closing") => req'[r].pc = "deny" /\ req'[r].fams = req[r].fams
  BY RowsMove, AccessMove, LocalsTyped, DenyNext
<1>2. ASSUME NEW t \in Tokens, revoked'[t] \in Endings
      PROVE  family'[t] \in undenied' \/ Denying(family[t])' \/ Quiet(family[t])'
  <2>1. family'[t] = family[t] /\ Issued(t) /\ family[t] \in Families
    BY <1>1, <1>2 DEF RowsStep, Endings, Issued, SessionsTypeOK
  <2>2. CASE revoked'[t] # revoked[t]
    <3>1. Stands(r, "closing") /\ t \in req[r].cand /\ req[r].why \in Endings
      BY <1>1, <1>2, <2>2 DEF RowsStep, Endings
    <3>2. family[t] \in req[r].fams
      BY <3>1 DEF Scope
    <3>3. Denying(family[t])'
      BY <1>1, <2>1, <3>1, <3>2 DEF Denying, Stands
    <3>4. QED
      BY <3>3
  <2>3. CASE revoked'[t] = revoked[t]
    <3>1. \/ family[t] \in undenied \/ Denying(family[t]) \/ Quiet(family[t])
      BY <1>2, <2>3 DEF SignedOff
    <3>2. CASE family[t] \in undenied
      BY <1>1, <2>1, <3>2 DEF AccessStep
    <3>3. CASE Denying(family[t])
      <4>1. PICK o \in Requests : Stands(o, "deny") /\ family[t] \in req[o].fams
        BY <3>3 DEF Denying
      <4>2. CASE o # r
        BY <1>1, <2>1, <4>1, <4>2 DEF Denying, Stands
      <4>3. CASE o = r
        BY <1>1, <2>1, <4>1, <4>3 DEF AccessStep, Quiet
      <4>4. QED
        BY <4>2, <4>3
    <3>4. CASE Quiet(family[t])
      <4>1. ~OpenFamily(family[t]) /\ family[t] \notin NewFamily
        BY <1>2, <2>1, <2>3, NewIds DEF EndedClosed
      <4>2. Stands(r, "locked") /\ req[r].seen = "NO" => family[t] # family[req[r].tok]
        BY <4>1, RotatesLive DEF OpenFamily
      <4>3. Quiet(family[t])'
        BY <1>1, <2>1, <3>4, <4>1, <4>2 DEF AccessStep, Quiet
      <4>4. QED
        BY <4>3
    <3>5. QED
      BY <3>1, <3>2, <3>3, <3>4
  <2>4. QED
    BY <2>2, <2>3
<1>3. QED
  BY <1>2 DEF SignedOff

\* A token on its way stays unknown to the other handlers, until the reply sets the cookie.
LEMMA OnItsWayKept ==
  ASSUME SessionsTypeOK, Handed, RowRead, Scope, OnItsWay, LinkHeld,
         NEW r \in Requests, Handler(r)
  PROVE  OnItsWay'
<1>1. /\ RowsStep(r) /\ LocalsStep(r) /\ CookieStep(r)
      /\ \A o \in Requests \ {r} : req'[o] = req[o]
  BY RowsMove, LocalsMove, CookieMove, LocalsTyped
<1>2. /\ \A o \in Requests : /\ req[o].tok \in Tokens \union {NoToken}
                             /\ req[o].out \in Tokens \union {NoToken}
      /\ cookie \in Tokens \union {NoToken} /\ NoToken \notin Tokens
  BY NoIds DEF SessionsTypeOK
\* What r carries from now on has just been issued.
<1>3. req'[r].out # NoToken => /\ req'[r].out \in Tokens /\ ~Issued(req'[r].out)
                               /\ req'[r].pc = "reply" /\ ~req'[r].keep
  BY <1>1, <1>2, NewIds DEF LocalsStep, OnItsWay, Stands
<1>4. ASSUME NEW o \in Requests, req'[o].out # NoToken
      PROVE  /\ Stands(o, "reply")' /\ ~req'[o].keep
             /\ revoked'[req'[o].out] # "ROTATED" /\ cookie' # req'[o].out
             /\ \A p \in Requests : /\ req'[p].tok # req'[o].out
                                    /\ p # o => req'[p].out # req'[o].out
  <2>1. CASE o = r
    <3>1. req'[r].out \in Tokens /\ ~Issued(req'[r].out) /\ Stands(r, "reply")' /\ ~req'[r].keep
      BY <1>3, <1>4, <2>1 DEF Stands
    <3>2. revoked'[req'[r].out] = "NO"
      BY <1>1, <3>1 DEF RowsStep
    <3>3. cookie' # req'[r].out
      BY <1>1, <1>2, <3>1 DEF CookieStep, Handed
    <3>4. \A p \in Requests : req'[p].tok # req'[r].out
      BY <1>1, <1>2, <3>1 DEF LocalsStep, Handed
    <3>5. \A p \in Requests \ {r} : req'[p].out # req'[r].out
      BY <1>1, <1>2, <3>1 DEF Handed
    <3>6. QED
      BY <2>1, <3>1, <3>2, <3>3, <3>4, <3>5
  <2>2. CASE o # r
    <3>1. /\ req'[o] = req[o] /\ req[o].out \in Tokens /\ Issued(req[o].out)
          /\ Stands(o, "reply") /\ ~req[o].keep
          /\ revoked[req[o].out] # "ROTATED" /\ cookie # req[o].out
          /\ \A p \in Requests : /\ req[p].tok # req[o].out
                                 /\ p # o => req[p].out # req[o].out
      BY <1>1, <1>2, <1>4, <2>2 DEF OnItsWay, Handed
    <3>2. revoked'[req[o].out] # "ROTATED"
      BY <1>1, <3>1 DEF RowsStep, Scope, Endings
    <3>3. cookie' # req[o].out
      BY <1>1, <2>2, <3>1 DEF CookieStep
    <3>4. \A p \in Requests : req'[p].tok # req[o].out
      BY <1>1, <1>2, <3>1 DEF LocalsStep
    <3>5. req'[r].out # req[o].out
      BY <1>2, <1>3, <3>1
    <3>6. \A p \in Requests : p # o => req'[p].out # req[o].out
      BY <1>1, <3>1, <3>5
    <3>7. QED
      BY <3>1, <3>2, <3>3, <3>4, <3>6 DEF Stands
  <2>3. QED
    BY <2>1, <2>2
<1>5. QED
  BY <1>4 DEF OnItsWay

\* A rotation that makes the cookie old sends its successor.
LEMMA RotationAnswers ==
  ASSUME SessionsTypeOK, NEW r \in Requests, Handler(r), Stands(r, "locked"),
         revoked' # revoked
  PROVE  req'[r].out # NoToken /\ req'[r].tok = req[r].tok
<1>1. Rotate(r)
  BY DEF Handler, LoginVerify, LoginIssue, RefreshBegin, RefreshLock, RefreshRefused,
         RefreshEndsSession, Logout, RevokeSession, Close, Deny, Reply, Forgot, MailLink,
         ResetBegin, ResetSnapshot, Stands, tokenVars
<1>2. PICK n \in NewToken : Answer(r, n, FALSE)
  BY <1>1 DEF Rotate
<1>3. n \in Tokens /\ req \in [Requests -> Locals] /\ NoToken \notin Tokens
  BY NewIds, NoIds DEF SessionsTypeOK, Locals
<1>4. req'[r].out = n /\ req'[r].tok = req[r].tok
  BY <1>2, <1>3, AnswerEffect
<1>5. QED
  BY <1>3, <1>4

\* While the browser holds a rotated token, the reply with its successor is under way.
LEMMA SuccessionKept ==
  ASSUME SessionsTypeOK, Handed, RowRead, Scope, OnItsWay, Succession,
         NEW r \in Requests, Handler(r)
  PROVE  Succession'
<1>1. /\ RowsStep(r) /\ CookieStep(r) /\ \A o \in Requests \ {r} : req'[o] = req[o]
  BY RowsMove, CookieMove, LocalsTyped
<1>2. cookie \in Tokens \union {NoToken}
  BY DEF SessionsTypeOK
<1>3. ASSUME cookie' # NoToken, revoked'[cookie'] = "ROTATED", ~late'
      PROVE  \E o \in Requests : req'[o].out # NoToken /\ req'[o].tok = cookie'
  <2>1. cookie' = cookie /\ ~late
    <3>1. CASE req[r].pc = "reply" /\ ~req[r].keep
      <4>1. cookie' = req[r].out /\ req[r].out \in Tokens
        BY <1>1, <1>3, <3>1 DEF CookieStep, SessionsTypeOK
      <4>2. revoked'[req[r].out] # revoked[req[r].out]
        BY <1>3, <4>1 DEF OnItsWay
      <4>3. Stands(r, "locked") \/ Stands(r, "closing")
        BY <1>1, <4>1, <4>2 DEF RowsStep
      <4>4. QED
        BY <3>1, <4>3 DEF Stands
    <3>2. QED
      BY <1>1, <1>3, <3>1 DEF CookieStep
  <2>2. CASE revoked[cookie] = "ROTATED"
    <3>1. PICK o \in Requests : req[o].out # NoToken /\ req[o].tok = cookie
      BY <1>3, <2>1, <2>2 DEF Succession
    <3>2. CASE o = r
      <4>1. req[r].pc = "reply" /\ ~req[r].keep /\ req[r].out # cookie
        BY <3>1, <3>2 DEF OnItsWay, Stands
      <4>2. QED
        BY <1>1, <1>3, <2>1, <4>1 DEF CookieStep
    <3>3. QED
      BY <1>1, <2>1, <3>1, <3>2
  <2>3. CASE revoked[cookie] # "ROTATED"
    <3>1. Stands(r, "locked") /\ cookie = req[r].tok /\ revoked' # revoked
      BY <1>1, <1>2, <1>3, <2>1, <2>3 DEF RowsStep, Scope, Endings
    <3>2. QED
      BY <2>1, <3>1, RotationAnswers
  <2>4. QED
    BY <2>2, <2>3
<1>4. QED
  BY <1>3 DEF Succession

\* Only a token that was presented late is taken for a replayed one.
LEMMA AlarmKept ==
  ASSUME SessionsTypeOK, Handed, RowRead, LinkHeld, OnItsWay, Alarm,
         NEW r \in Requests, Handler(r)
  PROVE  Alarm'
<1>1. /\ RowsStep(r) /\ LocalsStep(r) /\ CookieStep(r)
      /\ \A o \in Requests \ {r} : req'[o] = req[o]
  BY RowsMove, LocalsMove, CookieMove, LocalsTyped
<1>2. \A t \in settled' : revoked'[t] = "ROTATED"
  BY <1>1 DEF Alarm, RowsStep, CookieStep, Live, SessionsTypeOK
<1>3. cookie' \in settled' => late'
  <2>1. CASE req[r].pc = "reply" /\ ~req[r].keep /\ cookie' = req[r].out
    BY <1>1, <2>1, NoIds DEF Alarm, OnItsWay, CookieStep, SessionsTypeOK
  <2>2. CASE cookie' = cookie
    BY <1>1, <2>2 DEF Alarm, CookieStep
  <2>3. QED
    BY <1>1, <2>1, <2>2 DEF CookieStep
<1>4. \A o \in Requests : /\ "settled" \in req'[o].was => late'
                          /\ req'[o].why = "REUSE_DETECTED" => late'
  <2>1. \A o \in Requests \ {r} : /\ "settled" \in req'[o].was => late'
                                  /\ req'[o].why = "REUSE_DETECTED" => late'
    BY <1>1 DEF Alarm, CookieStep
  <2>2. "settled" \in req'[r].was => late'
    BY <1>1 DEF Alarm, CookieStep, LocalsStep
  <2>3. req'[r].why = "REUSE_DETECTED" => late'
    BY <1>1 DEF Alarm, CookieStep, LocalsStep
  <2>4. QED
    BY <2>1, <2>2, <2>3
<1>5. ASSUME NEW t \in Tokens, revoked'[t] = "REUSE_DETECTED"
      PROVE  late'
  <2>1. CASE revoked'[t] = revoked[t]
    BY <1>1, <1>5, <2>1 DEF Alarm, CookieStep
  <2>2. CASE revoked'[t] # revoked[t]
    BY <1>1, <1>5, <2>2 DEF Alarm, CookieStep, RowsStep
  <2>3. QED
    BY <2>1, <2>2
<1>6. QED
  BY <1>2, <1>3, <1>4, <1>5 DEF Alarm

\* A reset keeps its link to itself, and the link is live until the reset commits.
LEMMA LinkHeldKept ==
  ASSUME SessionsTypeOK, Handed, LinkHeld, NEW r \in Requests, Handler(r)
  PROVE  LinkHeld'
<1>1. /\ LocalsStep(r) /\ LinksStep(r) /\ \A o \in Requests \ {r} : req'[o] = req[o]
      /\ \A o \in Requests : req[o].link \in Links \union {NoLink}
      /\ link \in [Links -> {"absent", "live", "replaced", "consumed"}]
  BY LocalsMove, LinksMove, LocalsTyped DEF SessionsTypeOK
<1>2. SessionsTypeOK'
  BY HandlerTyped
\* The link in r's hands is its own.
<1>3. \A o \in Requests \ {r} : req'[r].link # NoLink => req[o].link # req'[r].link
  BY <1>1 DEF LocalsStep, LinkHeld, LinkInUse
<1>4. ASSUME NEW o \in Requests, req'[o].link # NoLink
      PROVE  /\ \A p \in Requests : req'[p].link = req'[o].link => p = o
             /\ req'[o].pc \in {"reset", "closing", "deny"}
             /\ req'[o].pc \in {"reset", "closing"} => link'[req'[o].link] = "live"
  <2>1. \A p \in Requests : req'[p].link = req'[o].link => p = o
    BY <1>1, <1>3, <1>4 DEF LinkHeld
  <2>2. req'[o].pc \in {"reset", "closing", "deny"}
    BY <1>1, <1>4 DEF LinkHeld, LocalsStep
  <2>3. ASSUME req'[o].pc \in {"reset", "closing"}
        PROVE  link'[req'[o].link] = "live"
    <3>1. link[req'[o].link] = "live" /\ req'[o].link \in Links
      BY <1>1, <1>2, <1>4, <2>3 DEF LinkHeld, LocalsStep, SessionsTypeOK
    <3>2. o # r => LinkInUse(req'[o].link) /\ req[r].link # req'[o].link
      BY <1>1, <1>4 DEF LinkInUse, LinkHeld
    <3>3. QED
      BY <1>1, <1>4, <2>3, <3>1, <3>2 DEF LinksStep
  <2>4. QED
    BY <2>1, <2>2, <2>3
<1>5. QED
  BY <1>4 DEF LinkHeld

\* Each reset consumes one live link.
LEMMA ResetsKept ==
  ASSUME SessionsTypeOK, LinkHeld, EachResetSpendsALink, NEW r \in Requests, Handler(r)
  PROVE  EachResetSpendsALink'
<1> DEFINE Spent == {l \in Links : link[l] = "consumed"}
<1>1. /\ LinksStep(r) /\ link \in [Links -> {"absent", "live", "replaced", "consumed"}]
      /\ req[r].link \in Links \union {NoLink} /\ resets = Cardinality(Spent)
  BY LinksMove DEF SessionsTypeOK, EachResetSpendsALink
<1>2. CASE UNCHANGED <<link, resets>>
  BY <1>1, <1>2 DEF EachResetSpendsALink
<1>3. ASSUME UNCHANGED resets,
             \A l \in Links : link'[l] # link[l] =>
               link'[l] \in {"live", "replaced"} /\ link[l] \in {"absent", "live"}
      PROVE  EachResetSpendsALink'
  <2>1. Spent' = Spent
    BY <1>3
  <2>2. QED
    BY <1>1, <1>3, <2>1 DEF EachResetSpendsALink
<1>4. ASSUME Stands(r, "closing"), req[r].link # NoLink, resets' = resets + 1,
             link' = [link EXCEPT ![req[r].link] = "consumed"]
      PROVE  EachResetSpendsALink'
  <2>1. req[r].link \in Links /\ link[req[r].link] = "live"
    BY <1>1, <1>4 DEF LinkHeld, Stands
  <2>2. Spent' = Spent \union {req[r].link} /\ req[r].link \notin Spent
    BY <1>1, <1>4, <2>1
  <2>3. IsFiniteSet(Spent)
    BY NoIds, FS_Subset
  <2>4. Cardinality(Spent') = Cardinality(Spent) + 1
    BY <2>2, <2>3, FS_AddElement
  <2>5. QED
    BY <1>1, <1>4, <2>4 DEF EachResetSpendsALink
<1>5. QED
  BY <1>1, <1>2, <1>3, <1>4 DEF LinksStep

-----------------------------------------------------------------------------
(* Time and administration, and the theorems                               *)

\* Time passes, or an operator disables the account: no handler notices.
LEMMA TimePasses ==
  ASSUME IInv, Elsewhere
  PROVE  IInv'
<1>1. /\ SessionsTypeOK' /\ UNCHANGED <<family, revoked, lock, link, resets, cookie, req, undenied>>
      /\ late' \in BOOLEAN /\ (late => late')
  BY ElsewhereTyped DEF IInv, Elsewhere, GracePasses, Expires, AccessExpires, DenyExpires, Disable,
     tokenVars, linkVars, worldVars, accessVars, SessionsTypeOK
<1>2. /\ Handed' /\ RowRead' /\ Scope' /\ OneLiveToken' /\ EndedClosed' /\ OnItsWay'
      /\ LinkHeld' /\ EachResetSpendsALink'
  BY <1>1 DEF IInv, Handed, RowRead, Scope, OneLiveToken, EndedClosed, OnItsWay, LinkHeld,
     EachResetSpendsALink, Issued, Live, OpenFamily, Stands
<1>3. Succession'
  BY <1>1 DEF IInv, Succession
<1>4. ASSUME NEW t \in Tokens, revoked[t] \in Endings
      PROVE  family[t] \in undenied \/ Denying(family[t]) \/ Quiet(family[t])'
  <2>1. family[t] \in undenied \/ Denying(family[t]) \/ Quiet(family[t])
    BY <1>4 DEF IInv, SignedOff
  <2>2. Quiet(family[t]) => Quiet(family[t])'
    <3>1. access \in [Families -> SUBSET {"old", "new"}] /\ family[t] \in Families
      BY <1>4 DEF IInv, SessionsTypeOK, Handed, Issued, Endings
    <3>2. ASSUME NEW f \in Families, AccessExpires(f) \/ DenyExpires(f)
          PROVE  Quiet(family[t]) => Quiet(family[t])'
      BY <1>1, <3>1, <3>2 DEF AccessExpires, DenyExpires, Quiet
    <3>3. CASE ~\E f \in Families : AccessExpires(f) \/ DenyExpires(f)
      BY <1>1, <3>3 DEF Elsewhere, GracePasses, Expires, Disable, accessVars, Quiet
    <3>4. QED
      BY <3>2, <3>3
  <2>3. QED
    BY <2>1, <2>2
<1>5. SignedOff'
  BY <1>1, <1>4 DEF SignedOff, Denying, Stands
<1>6. Alarm'
  <2>1. ASSUME NEW t \in Tokens, GracePasses(t)
        PROVE  /\ settled' = settled \union {t} /\ revoked[t] = "ROTATED"
               /\ cookie = t => late'
    <3>1. /\ revoked[t] = "ROTATED" /\ settled' = settled \union {t}
          /\ late' = (late \/ \E r \in Requests : req[r].tok = t)
      BY <2>1 DEF GracePasses
    <3>2. cookie = t => late'
      BY <3>1, NoIds DEF IInv, Succession
    <3>3. QED
      BY <3>1, <3>2
  <2>2. /\ \A t \in settled' : t \in settled \/ revoked[t] = "ROTATED"
        /\ cookie \in settled' => cookie \in settled \/ late'
    <3>1. CASE \E t \in Tokens : GracePasses(t)
      BY <2>1, <3>1
    <3>2. CASE ~\E t \in Tokens : GracePasses(t)
      <4>1. settled' = settled
        BY <3>2 DEF Elsewhere, Expires, AccessExpires, DenyExpires, Disable, timeVars
      <4>2. QED
        BY <4>1
    <3>3. QED
      BY <3>1, <3>2
  <2>3. QED
    BY <1>1, <2>2 DEF IInv, Alarm
<1>7. QED
  BY <1>1, <1>2, <1>3, <1>5, <1>6 DEF IInv

\* The invariant holds before the first sign-in.
LEMMA InitInv == SessionsInit => IInv
<1> SUFFICES ASSUME SessionsInit
             PROVE  IInv
  OBVIOUS
<1> USE DEF SessionsInit
<1>1. /\ \A r \in Requests : req[r] = Idle
      /\ \A t \in Tokens : family[t] = NoFamily /\ revoked[t] = "NO"
      /\ cookie = NoToken /\ settled = {} /\ late = FALSE
      /\ \A l \in Links : link[l] = "absent"
  OBVIOUS
<1>2. SessionsTypeOK
  <2>1. Idle \in Locals
    BY DEF Idle, Locals, Pcs, Reasons
  <2>2. req \in [Requests -> Locals] /\ rare \in SUBSET RareEvents
    BY <2>1, SessionsAssumption
  <2>3. QED
    BY <2>2 DEF SessionsTypeOK, Locals
<1>3. Handed /\ RowRead /\ Scope /\ OneLiveToken /\ EndedClosed
  BY <1>1 DEF Handed, RowRead, Scope, OneLiveToken, EndedClosed, Issued, Live, Stands, Idle, Endings
<1>4. SignedOff /\ OnItsWay /\ Succession /\ Alarm /\ LinkHeld
  BY <1>1 DEF SignedOff, OnItsWay, Succession, Alarm, LinkHeld, Idle, Endings
<1>5. EachResetSpendsALink
  <2>1. {l \in Links : link[l] = "consumed"} = {}
    BY <1>1
  <2>2. QED
    BY <2>1, FS_EmptySet DEF EachResetSpendsALink
<1>6. QED
  BY <1>2, <1>3, <1>4, <1>5 DEF IInv

\* A step is a handler's, or nobody's.
LEMMA Steps == SessionsNext => (\E r \in Requests : Handler(r)) \/ Elsewhere
BY DEF SessionsNext, Handler, Elsewhere

\* Every step preserves the invariant.
LEMMA NextInv == IInv /\ [SessionsNext]_sessionVars => IInv'
<1> SUFFICES ASSUME IInv, [SessionsNext]_sessionVars
             PROVE  IInv'
  OBVIOUS
<1>1. ASSUME NEW r \in Requests, Handler(r)
      PROVE  IInv'
  <2>1. SessionsTypeOK' /\ Handed' /\ RowRead' /\ Scope' /\ OneLiveToken'
    BY <1>1, HandlerTyped, HandedKept, RowReadKept, ScopeKept, OneLiveTokenKept DEF IInv
  <2>2. EndedClosed' /\ SignedOff' /\ OnItsWay' /\ Succession' /\ Alarm'
    BY <1>1, EndedClosedKept, SignedOffKept, OnItsWayKept, SuccessionKept, AlarmKept DEF IInv
  <2>3. LinkHeld' /\ EachResetSpendsALink'
    BY <1>1, LinkHeldKept, ResetsKept DEF IInv
  <2>4. QED
    BY <2>1, <2>2, <2>3 DEF IInv
<1>2. CASE UNCHANGED sessionVars
  BY <1>2 DEF IInv, sessionVars, tokenVars, timeVars, linkVars, accessVars, worldVars,
     SessionsTypeOK, Handed, RowRead, Scope, OneLiveToken, EndedClosed, SignedOff, OnItsWay,
     Succession, Alarm, LinkHeld, EachResetSpendsALink, Issued, Live, OpenFamily, Stands,
     Denying, Quiet
<1>3. QED
  BY <1>1, <1>2, Steps, TimePasses

\* Whatever handlers of auth/service.py overlap, and wherever Redis fails them, the invariant
\* holds.
THEOREM SessionsInv == SessionsSpec => []IInv
BY InitInv, NextInv, PTL DEF SessionsSpec

\* Variables hold what the columns, the cookie jar and the handlers can hold.
THEOREM SessionsTyped == SessionsSpec => []SessionsTypeOK
<1>1. IInv => SessionsTypeOK
  BY DEF IInv
<1>2. QED
  BY <1>1, SessionsInv, PTL

\* However many tabs refresh at once, a session never has two live refresh tokens
\* (refresh).
THEOREM RotationHandsOn == SessionsSpec => []OneLiveToken
<1>1. IInv => OneLiveToken
  BY DEF IInv
<1>2. QED
  BY <1>1, SessionsInv, PTL

\* Once a sign-out has answered, no access token of its session is accepted, unless Redis
\* was away when it was to be denied.
THEOREM SignOutReachesAccessTokens == SessionsSpec => []SignedOutDenied
<1>1. IInv => SignedOutDenied
  <2>1. ASSUME IInv, NEW t \in Tokens, revoked[t] \in Endings, family[t] \notin undenied,
               ~Denying(family[t])
        PROVE  ~Accepts(family[t])
    <3>1. access[family[t]] \subseteq {"old", "new"}
      BY <2>1 DEF IInv, Handed, Issued, Endings, SessionsTypeOK
    <3>2. Quiet(family[t])
      BY <2>1 DEF IInv, SignedOff
    <3>3. QED
      BY <3>1, <3>2 DEF Quiet, Accepts
  <2>2. QED
    BY <2>1 DEF SignedOutDenied, Denying, Endings
<1>2. QED
  BY <1>1, SessionsInv, PTL

\* A browser that gets its replies in time is never signed out for reuse: the grace window of
\* refresh covers every race of its tabs.
THEOREM NoFalseAlarm == SessionsSpec => []NoFalseReuse
<1>1. IInv => NoFalseReuse
  BY DEF IInv, Alarm, NoFalseReuse
<1>2. QED
  BY <1>1, SessionsInv, PTL

\* The password changes once per reset link (reset_password).
THEOREM LinksAreSpentOnce == SessionsSpec => []EachResetSpendsALink
<1>1. IInv => EachResetSpendsALink
  BY DEF IInv
<1>2. QED
  BY <1>1, SessionsInv, PTL

\* No step reopens a session that has ended, by sign-out, revocation, reset or reuse.
THEOREM EndsAreFinal == SessionsSpec => ClosedStaysClosed
<1> DEFINE Stays == \A f \in Families :
             (\E t \in Tokens : family[t] = f) /\ ~OpenFamily(f) => ~OpenFamily(f)'
<1>1. ASSUME IInv, [SessionsNext]_sessionVars
      PROVE  Stays
  <2>1. ASSUME NEW r \in Requests, Handler(r)
        PROVE  Stays
    BY <1>1, <2>1, OpenBefore DEF IInv
  <2>2. CASE Elsewhere \/ UNCHANGED sessionVars
    <3>1. UNCHANGED <<family, revoked>>
      BY <2>2 DEF Elsewhere, GracePasses, Expires, AccessExpires, DenyExpires, Disable,
         sessionVars, tokenVars
    <3>2. QED
      BY <3>1 DEF OpenFamily
  <2>3. QED
    BY <1>1, <2>1, <2>2, Steps
<1>2. QED
  BY <1>1, SessionsInv, PTL DEF SessionsSpec, ClosedStaysClosed
=============================================================================
