------------------------- MODULE PlatformProofs -----------------------------
(***************************************************************************)
(* Proofs about the parts of the platform around the judge: the request     *)
(* middleware, the accounts, the community, the catalogue with its cache    *)
(* and index, the rate limiter, and the problem list.                       *)
(***************************************************************************)
EXTENDS MCPlatform, SessionsProofs, FiniteSetTheorems, SequenceTheorems, WellFoundedInduction, TLAPS

-----------------------------------------------------------------------------
(* Requests: the middleware and what it answers                             *)

\* The types of what an exchange consists of.
Exchanges == [length : 0 .. Longest, left : 0 .. Longest, declared : BOOLEAN, bearer : BOOLEAN,
              admin : BOOLEAN]
Gates == [at : {"new", "open", "rejecting", "left"}, received : Nat, rejected : BOOLEAN,
          started : BOOLEAN]
Handlers == [at : {"running", "returned", "raised"}, handed : Nat, answered : BOOLEAN]
Contexts == [status : Statuses, recorded : Statuses \union {0}]

\* All that the client sent has been received or is still to come.
RequestKept ==
  /\ exchange \in Exchanges /\ exchange.left <= exchange.length
  /\ gate \in Gates /\ gate.received + exchange.left = exchange.length
  /\ handler \in Handlers
  /\ context \in Contexts

\* The client was sent nothing, or one status, the one the request context has seen last; the
\* context is done with it when the gate is.
OneStatus ==
  /\ wire = << >> \/ wire = <<context.status>>
  /\ wire = << >> => context.status = 500 /\ ~gate.rejected /\ ~gate.started
  /\ wire # << >> => gate.rejected \/ gate.started \/ context.recorded # 0
  /\ context.recorded # 0 => gate.at = "left" /\ context.recorded = context.status
  /\ gate.at = "new" => wire = << >>
  /\ gate.started => handler.answered

\* The gate has answered if and only if it has seen too much before the application answered,
\* which is handed no more than that.
Gated ==
  /\ gate.rejected => ~gate.started /\ context.status = 413
  /\ gate.received > LimitFor(exchange) => gate.rejected \/ gate.started
  /\ handler.handed <= gate.received /\ handler.handed <= LimitFor(exchange)

RequestInv == RequestKept /\ OneStatus /\ Gated

\* A body arrives, piece by piece.
LEMMA ReceiveStep ==
  ASSUME RequestInv, Receive
  PROVE  RequestInv'
<1> USE RequestsAssumption
<1>1. PICK n \in 1 .. exchange.left :
        /\ exchange' = [exchange EXCEPT !.left = exchange.left - n]
        /\ handler' = IF gate.received + n > LimitFor(exchange) THEN handler
                      ELSE [handler EXCEPT !.handed = handler.handed + n]
        /\ IF gate.received + n > LimitFor(exchange) /\ ~gate.started /\ ~gate.rejected
           THEN /\ gate' = [gate EXCEPT !.received = gate.received + n, !.rejected = TRUE,
                                        !.at = "rejecting"]
                /\ SendStart(413)
           ELSE gate' = [gate EXCEPT !.received = gate.received + n] /\ UNCHANGED <<context, wire>>
  BY DEF Receive
<1>2. /\ RequestKept /\ n \in Nat /\ gate.received + n \in Nat /\ exchange.left - n \in Nat
      /\ LimitFor(exchange) \in Nat /\ context.recorded = 0 /\ gate.at = "open"
      /\ exchange.left - n \in 0 .. Longest
  <2>1. RequestKept /\ gate.at = "open" /\ context.recorded = 0
    BY DEF RequestInv, OneStatus, Receive
  <2>2. n \in Nat /\ exchange.left - n \in 0 .. Longest
    BY <2>1 DEF RequestKept, Exchanges
  <2>3. gate.received + n \in Nat
    BY <2>1, <2>2 DEF RequestKept, Gates
  <2>4. LimitFor(exchange) \in Nat
    BY DEF LimitFor
  <2>5. QED
    BY <2>1, <2>2, <2>3, <2>4
<1>3. /\ exchange' \in Exchanges
      /\ exchange'.left = exchange.left - n /\ exchange'.length = exchange.length
      /\ LimitFor(exchange)' = LimitFor(exchange)
  BY <1>1, <1>2 DEF RequestKept, LimitFor, Exchanges
<1>4. /\ handler' \in Handlers
      /\ handler'.handed <= gate.received + n /\ handler'.handed <= LimitFor(exchange)
      /\ handler'.answered = handler.answered
  BY <1>1, <1>2 DEF RequestInv, RequestKept, Gated, Handlers, Gates
<1>5. CASE gate.received + n > LimitFor(exchange) /\ ~gate.started /\ ~gate.rejected
  <2>1. /\ gate' = [[[gate EXCEPT !.received = gate.received + n] EXCEPT !.rejected = TRUE]
                     EXCEPT !.at = "rejecting"]
        /\ context' = [context EXCEPT !.status = 413] /\ wire' = Append(wire, 413)
    BY <1>1, <1>2, <1>5 DEF SendStart, RequestKept
  <2>2. /\ gate' \in Gates
        /\ gate'.received = gate.received + n /\ gate'.rejected /\ ~gate'.started
        /\ gate'.at = "rejecting"
    BY <1>2, <1>5, <2>1 DEF RequestKept, Gates
  <2>3. /\ context' \in Contexts
        /\ context'.status = 413 /\ context'.recorded = 0
    BY <1>2, <2>1 DEF RequestKept, Contexts, Statuses
  <2>4. wire = << >>
    BY <1>2, <1>5 DEF RequestInv, OneStatus
  <2>5. wire' = <<413>>
    BY <2>1, <2>4
  <2>6. RequestKept'
    BY <1>2, <1>3, <1>4, <2>2, <2>3 DEF RequestKept, Exchanges, Gates, Contexts
  <2>7. OneStatus' /\ Gated'
    BY <1>3, <1>4, <2>2, <2>3, <2>5 DEF OneStatus, Gated
  <2>8. QED
    BY <2>6, <2>7 DEF RequestInv
<1>6. CASE ~(gate.received + n > LimitFor(exchange) /\ ~gate.started /\ ~gate.rejected)
  <2>1. gate' = [gate EXCEPT !.received = gate.received + n] /\ UNCHANGED <<context, wire>>
    BY <1>1, <1>6
  <2>2. /\ gate' \in Gates
        /\ gate'.received = gate.received + n /\ gate'.rejected = gate.rejected
        /\ gate'.started = gate.started /\ gate'.at = gate.at
    BY <1>2, <2>1 DEF RequestKept, Gates
  <2>3. RequestKept'
    BY <1>2, <1>3, <1>4, <2>1, <2>2 DEF RequestKept, Exchanges, Gates, Contexts
  <2>4. OneStatus'
    BY <1>2, <1>4, <2>1, <2>2 DEF RequestInv, OneStatus
  <2>5. Gated'
    BY <1>2, <1>3, <1>4, <1>6, <2>1, <2>2 DEF RequestInv, Gated
  <2>6. QED
    BY <2>3, <2>4, <2>5 DEF RequestInv
<1>7. QED
  BY <1>5, <1>6

\* Something is answered, and the exchange ends.
LEMMA AnswerStep ==
  ASSUME RequestInv,
         Enter \/ RejectEnds \/ HandlerAnswers \/ HandlerEnds \/ Leave \/ Record \/ AnswerForIt
  PROVE  RequestInv'
<1> USE RequestsAssumption DEF RequestInv
<1>1. UNCHANGED exchange /\ LimitFor(exchange)' = LimitFor(exchange) /\ LimitFor(exchange) \in Nat
  BY DEF Enter, RejectEnds, HandlerAnswers, HandlerEnds, Leave, Record, AnswerForIt, LimitFor
<1>2. CASE Enter
  <2>1. CASE exchange.declared /\ exchange.length > LimitFor(exchange)
    <3>1. /\ gate' = [[gate EXCEPT !.at = "left"] EXCEPT !.rejected = TRUE]
          /\ context' = [context EXCEPT !.status = 413] /\ wire' = Append(wire, 413)
          /\ UNCHANGED handler /\ gate.at = "new"
      BY <1>2, <2>1 DEF Enter, SendStart, RequestKept
    <3>2. wire = << >> /\ wire' = <<413>> /\ context.recorded = 0 /\ ~gate.started
      BY <3>1 DEF OneStatus
    <3>3. /\ gate' \in Gates /\ gate'.rejected /\ ~gate'.started /\ gate'.at = "left"
          /\ gate'.received = gate.received
      BY <3>1, <3>2, ZenonT(60) DEF RequestKept, Gates
    <3>4. context' \in Contexts /\ context'.status = 413 /\ context'.recorded = 0
      BY <3>1, <3>2 DEF RequestKept, Contexts, Statuses
    <3>5. RequestKept'
      BY <1>1, <3>1, <3>3, <3>4 DEF RequestKept
    <3>6. OneStatus' /\ Gated'
      BY <1>1, <3>1, <3>2, <3>3, <3>4 DEF OneStatus, Gated
    <3>7. QED
      BY <3>5, <3>6
  <2>2. CASE ~(exchange.declared /\ exchange.length > LimitFor(exchange))
    <3>1. gate' = [gate EXCEPT !.at = "open"] /\ UNCHANGED <<exchange, handler, context, wire>>
      BY <1>2, <2>2 DEF Enter
    <3>2. /\ gate' \in Gates /\ gate'.rejected = gate.rejected /\ gate'.started = gate.started
          /\ gate'.received = gate.received /\ gate'.at = "open"
      BY <3>1 DEF RequestKept, Gates
    <3>3. context.recorded = 0
      BY <1>2 DEF Enter, OneStatus
    <3>4. RequestKept'
      BY <3>1, <3>2 DEF RequestKept
    <3>5. OneStatus' /\ Gated'
      BY <1>1, <3>1, <3>2, <3>3 DEF OneStatus, Gated
    <3>6. QED
      BY <3>4, <3>5
  <2>3. QED
    BY <2>1, <2>2
<1>3. CASE RejectEnds \/ Leave
  <2>1. PICK at \in {"open", "left"} : gate' = [gate EXCEPT !.at = at]
    BY <1>3 DEF RejectEnds, Leave
  <2>2. /\ gate' \in Gates /\ gate'.rejected = gate.rejected /\ gate'.started = gate.started
        /\ gate'.received = gate.received /\ gate'.at = at
    BY <2>1 DEF RequestKept, Gates
  <2>3. UNCHANGED <<exchange, handler, context, wire>> /\ context.recorded = 0
    BY <1>3 DEF RejectEnds, Leave, OneStatus
  <2>4. RequestKept'
    BY <2>2, <2>3 DEF RequestKept
  <2>5. OneStatus' /\ Gated'
    BY <1>1, <2>2, <2>3 DEF OneStatus, Gated
  <2>6. QED
    BY <2>4, <2>5
<1>4. CASE HandlerEnds
  BY <1>1, <1>4 DEF HandlerEnds, RequestKept, OneStatus, Gated, Handlers
<1>5. CASE HandlerAnswers
  <2>1. /\ handler' = [handler EXCEPT !.answered = TRUE]
        /\ gate.at \in {"open", "rejecting"} /\ context.recorded = 0
    BY <1>5 DEF HandlerAnswers, OneStatus
  <2>2. /\ handler' \in Handlers
        /\ handler'.handed = handler.handed
    BY <2>1 DEF RequestKept, Handlers
  <2>3. CASE gate.rejected
    BY <1>1, <1>5, <2>2, <2>3 DEF HandlerAnswers, RequestKept, OneStatus, Gated
  <2>4. CASE ~gate.rejected
    <3>1. PICK status \in {200, 400} :
            /\ gate' = [gate EXCEPT !.started = TRUE]
            /\ wire' = Append(wire, status) /\ context' = [context EXCEPT !.status = status]
      BY <1>5, <2>4 DEF HandlerAnswers, SendStart
    <3>2. ~handler.answered /\ handler'.answered /\ ~gate.started /\ wire = << >>
      BY <1>5, <2>1, <2>4 DEF HandlerAnswers, RequestKept, OneStatus
    <3>3. wire' = <<status>>
      BY <3>1, <3>2
    <3>4. /\ gate' \in Gates
          /\ gate'.received = gate.received /\ ~gate'.rejected /\ gate'.started
          /\ gate'.at = gate.at
      BY <2>4, <3>1 DEF RequestKept, Gates
    <3>5. /\ context' \in Contexts
          /\ context'.status = status /\ context'.recorded = 0
      BY <2>1, <3>1 DEF RequestKept, Contexts, Statuses
    <3>6. RequestKept'
      BY <1>1, <2>2, <3>4, <3>5 DEF RequestKept
    <3>7. OneStatus' /\ Gated'
      BY <1>1, <2>1, <2>2, <3>2, <3>3, <3>4, <3>5 DEF OneStatus, Gated
    <3>8. QED
      BY <3>6, <3>7
  <2>5. QED
    BY <2>3, <2>4
<1>6. CASE Record
  BY <1>1, <1>6 DEF Record, RequestKept, OneStatus, Gated, Contexts, Statuses
<1>7. CASE AnswerForIt
  BY <1>1, <1>7 DEF AnswerForIt, RequestKept, OneStatus, Gated
<1>8. QED
  BY <1>2, <1>3, <1>4, <1>5, <1>6, <1>7

\* The invariant holds at the beginning, and every step preserves it.
LEMMA RequestInitInv == RequestsInit => RequestInv
<1> SUFFICES ASSUME RequestsInit PROVE RequestInv
  OBVIOUS
<1>1. LimitFor(exchange) \in Nat
  BY RequestsAssumption DEF LimitFor
<1>2. RequestKept
  BY RequestsAssumption DEF RequestsInit, RequestKept, Statuses, Exchanges, Gates, Handlers,
    Contexts
<1>3. QED
  BY <1>1, <1>2 DEF RequestsInit, RequestInv, OneStatus, Gated

\* Whatever the application, the client's body or the middleware does next, it stays.
LEMMA RequestNextInv == RequestInv /\ [RequestsNext]_requestVars => RequestInv'
<1>1. RequestInv /\ UNCHANGED requestVars => RequestInv'
  BY DEF requestVars, RequestInv, RequestKept, OneStatus, Gated, LimitFor
<1>2. QED
  BY <1>1, ReceiveStep, AnswerStep DEF RequestsNext

\* The invariant of an exchange.
THEOREM RequestInvariant == RequestsSpec => []RequestInv
BY RequestInitInv, RequestNextInv, PTL DEF RequestsSpec

\* Whatever the application does with a body that is too large, it is handed no more than the
\* limit, the client is answered once, with 413 unless the application was first, and the
\* metrics count the status that the client was sent.
THEOREM ClientsAreAnsweredOnce == RequestsSpec => []AnsweredOnce
<1>1. RequestInv => AnsweredOnce
  <2> SUFFICES ASSUME RequestInv PROVE AnsweredOnce
    OBVIOUS
  <2>1. CASE wire = << >>
    BY <2>1 DEF RequestInv, OneStatus, Gated, AnsweredOnce
  <2>2. CASE wire = <<context.status>>
    <3>1. wire # << >> /\ Len(wire) = 1 /\ wire[1] = context.status
      BY <2>2
    <3>2. QED
      BY <2>2, <3>1 DEF RequestInv, OneStatus, Gated, AnsweredOnce
  <2>3. QED
    BY <2>1, <2>2 DEF RequestInv, OneStatus
<1>2. QED
  BY <1>1, RequestInvariant, PTL

\* The types of an exchange.
THEOREM RequestsTyped == RequestsSpec => []RequestsTypeOK
<1>1. RequestInv => RequestsTypeOK
  <2> SUFFICES ASSUME RequestInv PROVE RequestsTypeOK
    OBVIOUS
  <2>1. exchange.left \in 0 .. exchange.length /\ exchange.length \in 0 .. Longest
    BY RequestsAssumption DEF RequestInv, RequestKept, Exchanges
  <2>2. /\ gate.at \in {"new", "open", "rejecting", "left"}
        /\ gate.received + exchange.left = exchange.length
    BY DEF RequestInv, RequestKept, Gates
  <2>3. handler.at \in {"running", "returned", "raised"} /\ handler.handed <= gate.received
    BY DEF RequestInv, RequestKept, Gated, Handlers
  <2>4. {context.status, context.recorded} \subseteq Statuses \union {0}
    BY DEF RequestInv, RequestKept, Contexts
  <2>5. wire \in Seq(Statuses)
    <3>1. context.status \in Statuses /\ (wire = << >> \/ wire = <<context.status>>)
      BY DEF RequestInv, RequestKept, OneStatus, Contexts
    <3>2. ASSUME NEW S, NEW x \in S PROVE << >> \in Seq(S) /\ <<x>> \in Seq(S)
      OBVIOUS
    <3>3. QED
      BY <3>1, <3>2, Zenon
  <2>6. QED
    BY <2>1, <2>2, <2>3, <2>4, <2>5 DEF RequestsTypeOK
<1>2. QED
  BY <1>1, RequestInvariant, PTL

-----------------------------------------------------------------------------
(* Accounts: registration, the seed script and the roles                    *)

\* The types of the rows and of the calls.
UserRows == [there : BOOLEAN, email : Emails \union {""}, name : Usernames \union {""},
             verified : BOOLEAN, roles : SUBSET SeedRoles]
Signups == [at : {"idle", "looked", "joined", "created", "refused", "lost"},
            email : Emails \union {""}, name : Usernames \union {""}]
Runs == [at : {"idle", "user", "tags", "flush", "slugs", "commit", "done", "failed"},
         found : Ids \union {0}, adds : SUBSET (SeedRoles \union {"tags"}), holds : BOOLEAN,
         seen : SUBSET Shelf, moved : SUBSET Shelf, admin : BOOLEAN]

AccountsKept ==
  /\ account \in [Ids -> UserRows]
  /\ signup \in [Applicants -> Signups]
  /\ proof \in [Ids -> {"none", "valid", "used"}]
  /\ audit \subseteq {"auth.register", "auth.email_verified"} \X Ids
  /\ seed \in [SeedRuns -> Runs]
  /\ tagRows \in BOOLEAN
  /\ shelf \in [Shelf -> SeedRuns \union {0, Admin}]
  /\ cast \in Casts

\* Only an account that is there can be verified or have a link; no two share a key.
Rows ==
  /\ \A i \in Ids :
       /\ account[i].verified \/ proof[i] # "none" => account[i].there
       /\ account[i].there => account[i].email \in Emails /\ account[i].name \in Usernames
  /\ \A i, j \in Ids : account[i].there /\ account[j].there /\ i # j =>
       account[i].email # account[j].email /\ account[i].name # account[j].name

\* A registration: the account is there as soon as the call has committed, with its audit row.
Registered(i) ==
  /\ signup[i].at # "idle" => signup[i].email \in Emails /\ signup[i].name \in Usernames
  /\ account[i].there <=> <<"auth.register", i>> \in audit
  /\ account[i].verified <=> <<"auth.email_verified", i>> \in audit
  /\ signup[i].at \in {"idle", "looked", "refused"} => ~account[i].there
  /\ signup[i].at \in {"joined", "created"} => account[i].there
  /\ signup[i].at = "created" => account[i].verified \/ proof[i] = "valid"
  /\ signup[i].at = "refused" => Taken(signup[i].email, signup[i].name)

\* An account that the seed script would take for the admin's.
Administers(i) ==
  account[i].there /\ (account[i].email = SeedEmail \/ account[i].name = SeedName)

\* A run of the seed script: what it found is still there and lacks no more than it will add;
\* afterwards there is an admin; slugs that it has seen, or has seen to, are taken unless an
\* admin moved them; and it has problems only when it is done.
Seeded(s) ==
  /\ seed[s].at \in {"idle", "user"} => ~account[s].there
  /\ seed[s].at = "idle" => seed[s].found = 0 /\ ~seed[s].admin
  /\ seed[s].at = "user" /\ seed[s].found # 0 =>
       /\ Administers(seed[s].found)
       /\ seed[s].adds \union account[seed[s].found].roles = SeedRoles
  /\ seed[s].admin /\ seed[s].at \notin {"user", "failed"} =>
       \E i \in Ids : Administers(i) /\ account[i].roles = SeedRoles
  /\ seed[s].at = "commit" => \A c \in seed[s].seen \ seed[s].moved : shelf[c] # 0
  /\ seed[s].at = "done" => tagRows /\ \A c \in SeedSlugs \ seed[s].moved : shelf[c] # 0
  /\ \A c \in Shelf : shelf[c] = s => seed[s].at = "done"

AccountInv ==
  /\ AccountsKept /\ Rows
  /\ \A i \in Applicants : Registered(i)
  /\ \A s \in SeedRuns : Seeded(s)

\* Accounts stay as they are, but may gain roles.
Grown ==
  \A i \in Ids : account[i].there =>
    /\ account'[i].there /\ account[i].roles \subseteq account'[i].roles
    /\ account'[i].email = account[i].email /\ account'[i].name = account[i].name

\* What it means that an email or a name is taken, and that it stays so.
LEMMA TakenMeans ==
  \A e, n : Taken(e, n) <=> \E i \in Ids : account[i].there /\
    (account[i].email = e \/ account[i].name = n)
BY DEF Taken, ByEmail, ByName

\* Accounts that only grow keep their emails and names taken.
LEMMA TakenStays ==
  ASSUME Grown
  PROVE  \A e, n : Taken(e, n) => Taken(e, n)'
BY DEF Grown, Taken, ByEmail, ByName

\* A registration that a step does not touch.
LEMMA RegisteredStays ==
  ASSUME Grown, NEW i \in Applicants, Registered(i), signup'[i] = signup[i],
         account'[i].there = account[i].there, account'[i].verified = account[i].verified,
         proof'[i] = proof[i] \/ proof'[i] = "valid",
         \A a \in {"auth.register", "auth.email_verified"} : <<a, i>> \in audit' <=> <<a,
           i>> \in audit
  PROVE  Registered(i)'
BY TakenStays DEF Registered

\* A run of the seed script that a step does not touch.
LEMMA SeededStays ==
  ASSUME AccountsKept, AccountsKept', Grown, NEW s \in SeedRuns, Seeded(s), seed'[s] = seed[s],
         tagRows => tagRows', UNCHANGED shelf, account'[s].there => account[s].there
  PROVE  Seeded(s)'
<1>1. \A i \in Ids : Administers(i) => Administers(i)' /\
        account[i].roles \subseteq account'[i].roles
  BY DEF Grown, Administers
<1>2. \A i \in Ids : account[i].roles \subseteq SeedRoles /\ account'[i].roles \subseteq SeedRoles
  BY DEF AccountsKept, UserRows
<1>3. seed[s].found \in Ids \union {0}
  BY DEF AccountsKept, Runs
<1>4. /\ seed'[s].at \in {"idle", "user"} => ~account'[s].there
      /\ seed'[s].at = "idle" => seed'[s].found = 0 /\ ~seed'[s].admin
      /\ seed'[s].at = "commit" => \A c \in seed'[s].seen \ seed'[s].moved : shelf'[c] # 0
      /\ seed'[s].at = "done" => tagRows' /\ \A c \in SeedSlugs \ seed'[s].moved : shelf'[c] # 0
      /\ \A c \in Shelf : shelf'[c] = s => seed'[s].at = "done"
  BY DEF Seeded
<1>5. ASSUME seed'[s].at = "user", seed'[s].found # 0
      PROVE  /\ Administers(seed[s].found)'
             /\ seed'[s].adds \union account'[seed[s].found].roles = SeedRoles
  BY <1>1, <1>2, <1>3, <1>5 DEF Seeded
<1>6. ASSUME seed'[s].admin, seed'[s].at \notin {"user", "failed"}
      PROVE  \E i \in Ids : Administers(i)' /\ account'[i].roles = SeedRoles
  <2>1. PICK i \in Ids : Administers(i) /\ account[i].roles = SeedRoles
    BY <1>6 DEF Seeded
  <2>2. Administers(i)' /\ account'[i].roles = SeedRoles
    BY <1>1, <1>2, <2>1
  <2>3. QED
    BY <2>2
<1>7. QED
  BY <1>4, <1>5, <1>6 DEF Seeded, Administers

\* An account is created under keys that nobody has.
LEMMA AccountIsNew ==
  ASSUME AccountsKept, Rows, NEW i \in Ids, NEW e \in Emails, NEW n \in Usernames,
           NEW v \in BOOLEAN,
         NEW r \in SUBSET SeedRoles, ~account[i].there, ~Taken(e, n), UNCHANGED proof,
         account' = [account EXCEPT ![i] = NewAccount(e, n, v, r)]
  PROVE  /\ account' \in [Ids -> UserRows] /\ Rows' /\ Grown
         /\ account'[i].there /\ account'[i].email = e /\ account'[i].name = n
         /\ account'[i].verified = v /\ account'[i].roles = r
         /\ \A j \in Ids \ {i} : account'[j] = account[j]
<1>1. PICK new : new = NewAccount(e, n, v, r)
  OBVIOUS
<1>2. /\ new \in UserRows /\ new.there /\ new.email = e /\ new.name = n /\ new.roles = r
      /\ new.verified = v
  BY <1>1 DEF NewAccount, UserRows
<1>3. account' = [account EXCEPT ![i] = new] /\ account \in [Ids -> UserRows]
  BY <1>1 DEF AccountsKept
<1>4. /\ account' \in [Ids -> UserRows] /\ account'[i] = new
      /\ \A j \in Ids \ {i} : account'[j] = account[j]
  BY <1>2, <1>3
<1>5. Grown
  BY <1>4 DEF Grown
<1>6. \A j \in Ids : account[j].there => account[j].email # e /\ account[j].name # n
  BY TakenMeans
<1>7. Rows'
  BY <1>2, <1>4, <1>6 DEF Rows
<1>8. QED
  BY <1>2, <1>4, <1>5, <1>7

\* A registration begins, is answered or is lost.
LEMMA RegisterStep ==
  ASSUME AccountInv, NEW i \in Applicants,
         RegisterChecks(i) \/ RegisterAnswers(i) \/ RegisterFails(i)
  PROVE  AccountInv'
<1>1. UNCHANGED <<account, audit, seed, tagRows, shelf, cast>>
  BY DEF RegisterChecks, RegisterAnswers, RegisterFails
<1>2. Grown /\ i \in Ids
  BY <1>1 DEF Grown, Ids
<1>3. AccountsKept
  BY DEF AccountInv
<1>0. proof \in [Ids -> {"none", "valid", "used"}]
  BY <1>3 DEF AccountsKept
<1>4. /\ signup' \in [Applicants -> Signups] /\ \A j \in Applicants \ {i} : signup'[j] = signup[j]
      /\ proof' \in [Ids -> {"none", "valid", "used"}] /\ \A j \in Ids \ {i} : proof'[j] = proof[j]
      /\ proof'[i] = proof[i] \/ (account[i].there /\ proof'[i] = "valid")
      /\ Registered(i)'
  <2>1. CASE RegisterChecks(i)
    <3>1. PICK e \in Emails, n \in Usernames, at \in {"refused", "looked"} :
            /\ signup' = [signup EXCEPT ![i] = [at |-> at, email |-> e, name |-> n]]
            /\ at = "refused" <=> Taken(e, n)
      BY <2>1 DEF RegisterChecks
    <3>2. /\ signup' \in [Applicants -> Signups] /\ signup'[i].at = at
          /\ signup'[i].email = e /\ signup'[i].name = n
          /\ \A j \in Applicants \ {i} : signup'[j] = signup[j]
      BY <1>3, <3>1 DEF AccountsKept, Signups
    <3>3. UNCHANGED proof /\ signup[i].at = "idle" /\ Registered(i)
      BY <2>1 DEF RegisterChecks, AccountInv
    <3>4. at = "refused" => Taken(e, n)'
      BY <1>2, <3>1, TakenStays
    <3>5. Registered(i)'
      BY <1>1, <3>2, <3>3, <3>4 DEF Registered
    <3>6. QED
      BY <1>0, <3>2, <3>3, <3>5
  <2>2. CASE RegisterAnswers(i)
    <3>1. /\ signup' = [signup EXCEPT ![i].at = "created"] /\ signup[i].at = "joined"
          /\ proof' = [proof EXCEPT ![i] = IF account[i].verified THEN @ ELSE "valid"]
      BY <2>2 DEF RegisterAnswers, Stage
    <3>2. /\ signup' \in [Applicants -> Signups] /\ signup'[i].at = "created"
          /\ signup'[i].email = signup[i].email /\ signup'[i].name = signup[i].name
          /\ \A j \in Applicants \ {i} : signup'[j] = signup[j]
      BY <1>3, <3>1 DEF AccountsKept, Signups
    <3>3. Registered(i) /\ account[i].there
      BY <3>1 DEF AccountInv, Registered
    <3>4. /\ proof' \in [Ids -> {"none", "valid", "used"}]
          /\ proof'[i] = IF account[i].verified THEN proof[i] ELSE "valid"
          /\ \A j \in Ids \ {i} : proof'[j] = proof[j]
      BY <1>2, <1>3, <3>1 DEF AccountsKept
    <3>5. Registered(i)'
      BY <1>1, <3>2, <3>3, <3>4 DEF Registered
    <3>6. QED
      BY <3>2, <3>3, <3>4, <3>5
  <2>3. CASE RegisterFails(i)
    <3>1. signup' = [signup EXCEPT ![i].at = "lost"] /\ UNCHANGED proof
      BY <2>3 DEF RegisterFails, Stage
    <3>2. /\ signup' \in [Applicants -> Signups] /\ signup'[i].at = "lost"
          /\ signup'[i].email = signup[i].email /\ signup'[i].name = signup[i].name
          /\ \A j \in Applicants \ {i} : signup'[j] = signup[j]
      BY <1>3, <3>1 DEF AccountsKept, Signups
    <3>3. Registered(i)'
      BY <1>1, <2>3, <3>1, <3>2 DEF AccountInv, Registered, RegisterFails
    <3>4. QED
      BY <1>0, <3>1, <3>2, <3>3
  <2>4. QED
    BY <2>1, <2>2, <2>3
<1>5. AccountsKept'
  BY <1>1, <1>4 DEF AccountInv, AccountsKept
<1>6. Rows'
  BY <1>1, <1>4 DEF AccountInv, Rows
<1>7. \A j \in Applicants : Registered(j)'
  <2>1. ASSUME NEW j \in Applicants \ {i} PROVE Registered(j)'
    BY <1>1, <1>2, <1>4, RegisteredStays DEF AccountInv, Ids
  <2>2. QED
    BY <1>4, <2>1
<1>8. \A s \in SeedRuns : Seeded(s)'
  BY <1>1, <1>2, <1>3, <1>5, SeededStays DEF AccountInv
<1>9. QED
  BY <1>5, <1>6, <1>7, <1>8 DEF AccountInv

\* A registration commits: all of it, or it was refused for a key of another.
LEMMA RegisterCommitStep ==
  ASSUME AccountInv, NEW i \in Applicants, RegisterCommits(i)
  PROVE  AccountInv'
<1>1. AccountsKept /\ Rows /\ Registered(i) /\ i \in Ids /\ ~account[i].there
  BY DEF RegisterCommits, AccountInv, Registered, Ids
<1>2. UNCHANGED <<proof, seed, tagRows, shelf>> /\ signup[i].at = "looked"
  BY DEF RegisterCommits
<1>3. CASE Taken(signup[i].email, signup[i].name)
  <2>1. signup' = [signup EXCEPT ![i].at = "refused"] /\ UNCHANGED <<account, audit, cast>>
    BY <1>3 DEF RegisterCommits, Stage
  <2>2. /\ signup' \in [Applicants -> Signups] /\ signup'[i].at = "refused"
        /\ signup'[i].email = signup[i].email /\ signup'[i].name = signup[i].name
        /\ \A j \in Applicants \ {i} : signup'[j] = signup[j]
    BY <1>1, <2>1 DEF AccountsKept, Signups
  <2>3. Grown
    BY <2>1 DEF Grown
  <2>4. Taken(signup[i].email, signup[i].name)'
    BY <1>2, <1>3, <2>1, <2>2 DEF Taken, ByEmail, ByName
  <2>5. Registered(i)'
    BY <1>1, <1>2, <1>3, <2>1, <2>2, <2>3, TakenStays DEF Registered
  <2>6. AccountsKept' /\ Rows'
    BY <1>1, <1>2, <2>1, <2>2 DEF AccountsKept, Rows
  <2>7. ASSUME NEW j \in Applicants \ {i} PROVE Registered(j)'
    BY <1>2, <2>1, <2>2, <2>3, RegisteredStays DEF AccountInv
  <2>8. \A s \in SeedRuns : Seeded(s)'
    BY <1>1, <1>2, <2>1, <2>3, <2>6, SeededStays DEF AccountInv
  <2>9. QED
    BY <2>5, <2>6, <2>7, <2>8 DEF AccountInv
<1>4. CASE ~Taken(signup[i].email, signup[i].name)
  <2>1. /\ account' = [account EXCEPT ![i] =
                         NewAccount(signup[i].email, signup[i].name, FALSE, {"USER"})]
        /\ audit' = audit \union {<<"auth.register", i>>}
        /\ signup' = [signup EXCEPT ![i].at = "joined"]
    BY <1>4 DEF RegisterCommits, Stage, Audited
  <2>2. signup[i].email \in Emails /\ signup[i].name \in Usernames
    BY <1>1, <1>2 DEF Registered
  <2>3. /\ account' \in [Ids -> UserRows] /\ Rows' /\ Grown
        /\ account'[i].there /\ account'[i].verified = FALSE
        /\ \A j \in Ids \ {i} : account'[j] = account[j]
    <3>1. {"USER"} \in SUBSET SeedRoles /\ FALSE \in BOOLEAN
      BY DEF SeedRoles
    <3>2. QED
      BY <1>1, <1>2, <1>4, <2>1, <2>2, <3>1, AccountIsNew
  <2>4. /\ signup' \in [Applicants -> Signups] /\ signup'[i].at = "joined"
        /\ signup'[i].email = signup[i].email /\ signup'[i].name = signup[i].name
        /\ \A j \in Applicants \ {i} : signup'[j] = signup[j]
    BY <1>1, <2>1 DEF AccountsKept, Signups
  <2>5. ~account[i].verified
    BY <1>1 DEF Rows
  <2>6. Registered(i)'
    BY <1>1, <1>2, <2>1, <2>2, <2>3, <2>4, <2>5 DEF Registered
  <2>7. AccountsKept'
    <3>1. audit' \subseteq {"auth.register", "auth.email_verified"} \X Ids
      BY <1>1, <2>1 DEF AccountsKept
    <3>2. cast' = cast
      BY <1>4 DEF RegisterCommits
    <3>3. QED
      BY <1>1, <1>2, <2>3, <2>4, <3>1, <3>2 DEF AccountsKept
  <2>8. ASSUME NEW j \in Applicants \ {i} PROVE Registered(j)'
    <3>1. /\ j \in Ids \ {i}
          /\ \A a \in {"auth.register", "auth.email_verified"} :
               <<a, j>> \in audit' <=> <<a, j>> \in audit
      BY <2>1 DEF Ids
    <3>2. QED
      BY <1>2, <2>3, <2>4, <3>1, RegisteredStays DEF AccountInv
  <2>9. ASSUME NEW s \in SeedRuns PROVE Seeded(s)'
    <3>1. s \in Ids \ {i}
      BY AccountsAssumption DEF Ids
    <3>2. QED
      BY <1>1, <1>2, <2>3, <2>7, <3>1, SeededStays DEF AccountInv
  <2>10. QED
    BY <2>3, <2>6, <2>7, <2>8, <2>9 DEF AccountInv
<1>5. QED
  BY <1>3, <1>4

\* A link is sent, or used: the account may be verified, and says so in the audit log.
LEMMA LinkStep ==
  ASSUME AccountInv, NEW i \in Ids, RequestLink(i) \/ VerifyEmail(i)
  PROVE  AccountInv'
<1>1. AccountsKept /\ Rows /\ UNCHANGED <<signup, seed, tagRows, shelf, cast>>
  BY DEF AccountInv, RequestLink, VerifyEmail
<1>2. CASE RequestLink(i)
  <2>1. /\ account[i].there /\ UNCHANGED <<account, audit>>
        /\ proof' = [proof EXCEPT ![i] = "valid"]
    BY <1>2 DEF RequestLink
  <2>2. /\ proof' \in [Ids -> {"none", "valid", "used"}] /\ proof'[i] = "valid"
        /\ \A j \in Ids \ {i} : proof'[j] = proof[j]
    BY <1>1, <2>1 DEF AccountsKept
  <2>3. Grown
    BY <2>1 DEF Grown
  <2>4. AccountsKept' /\ Rows'
    BY <1>1, <2>1, <2>2 DEF AccountsKept, Rows
  <2>5. ASSUME NEW j \in Applicants PROVE Registered(j)'
    <3>1. j \in Ids /\ Registered(j)
      BY DEF AccountInv, Ids
    <3>2. QED
      BY <1>1, <2>1, <2>2, <2>3, <3>1, RegisteredStays
  <2>6. \A s \in SeedRuns : Seeded(s)'
    BY <1>1, <2>1, <2>3, <2>4, SeededStays DEF AccountInv
  <2>7. QED
    BY <2>4, <2>5, <2>6 DEF AccountInv
<1>3. CASE VerifyEmail(i)
  <2>1. /\ proof[i] = "valid" /\ proof' = [proof EXCEPT ![i] = "used"]
        /\ account' = [account EXCEPT ![i].verified = TRUE]
        /\ audit' = IF account[i].verified THEN audit
                    ELSE audit \union {<<"auth.email_verified", i>>}
    BY <1>3 DEF VerifyEmail, Audited
  <2>2. account[i] \in UserRows /\ account[i].there
    BY <1>1, <2>1 DEF AccountsKept, Rows
  <2>3. PICK new : new = [account[i] EXCEPT !.verified = TRUE]
    OBVIOUS
  <2>4. /\ new \in UserRows /\ new.verified /\ new.there
        /\ new.email = account[i].email /\ new.name = account[i].name
        /\ new.roles = account[i].roles
    BY <2>2, <2>3 DEF UserRows
  <2>5. account' = [account EXCEPT ![i] = new]
    BY <2>1, <2>3
  <2>6. /\ account' \in [Ids -> UserRows] /\ account'[i] = new
        /\ \A j \in Ids \ {i} : account'[j] = account[j]
    BY <1>1, <2>4, <2>5 DEF AccountsKept
  <2>7. /\ proof' \in [Ids -> {"none", "valid", "used"}] /\ proof'[i] = "used"
        /\ \A j \in Ids \ {i} : proof'[j] = proof[j]
    BY <1>1, <2>1 DEF AccountsKept
  <2>8. Grown
    BY <2>4, <2>6 DEF Grown
  <2>9. AccountsKept'
    <3>1. audit' \subseteq {"auth.register", "auth.email_verified"} \X Ids
      BY <1>1, <2>1 DEF AccountsKept
    <3>2. QED
      BY <1>1, <2>6, <2>7, <3>1 DEF AccountsKept
  <2>10. Rows'
    BY <1>1, <2>2, <2>4, <2>6, <2>7 DEF Rows
  <2>11. ASSUME NEW j \in Applicants PROVE Registered(j)'
    <3>1. j \in Ids /\ Registered(j)
      BY DEF AccountInv, Ids
    <3>2. CASE j = i
      <4>1. /\ account'[j].there = account[j].there /\ account'[j].verified
            /\ signup'[j] = signup[j] /\ signup[j].at \notin {"idle", "looked", "refused"}
        BY <1>1, <2>2, <2>4, <2>6, <3>1, <3>2 DEF Registered
      <4>2. /\ <<"auth.register", j>> \in audit' <=> <<"auth.register", j>> \in audit
            /\ <<"auth.email_verified", j>> \in audit'
        BY <2>1, <3>1, <3>2 DEF Registered
      <4>3. QED
        BY <3>1, <4>1, <4>2 DEF Registered
    <3>3. CASE j # i
      <4>1. \A a \in {"auth.register", "auth.email_verified"} :
              <<a, j>> \in audit' <=> <<a, j>> \in audit
        BY <2>1, <3>3
      <4>2. account'[j] = account[j] /\ proof'[j] = proof[j] /\ signup'[j] = signup[j]
        BY <1>1, <2>6, <2>7, <3>1, <3>3
      <4>3. QED
        BY <2>8, <3>1, <4>1, <4>2, RegisteredStays
    <3>4. QED
      BY <3>2, <3>3
  <2>12. ASSUME NEW s \in SeedRuns PROVE Seeded(s)'
    <3>1. s \in Ids /\ Seeded(s) /\ (account'[s].there => account[s].there)
      BY <2>2, <2>6 DEF Ids, AccountInv
    <3>2. QED
      BY <1>1, <2>8, <2>9, <3>1, SeededStays
  <2>13. QED
    BY <2>9, <2>10, <2>11, <2>12 DEF AccountInv
<1>4. QED
  BY <1>2, <1>3

\* What a step of one run changes of the runs.
LEMMA RunBecomes ==
  ASSUME AccountsKept, NEW s \in SeedRuns, NEW new \in Runs, seed' = [seed EXCEPT ![s] = new]
  PROVE  /\ seed' \in [SeedRuns -> Runs] /\ seed'[s] = new
         /\ \A o \in SeedRuns \ {s} : seed'[o] = seed[o]
BY DEF AccountsKept

\* A step of one run that changes nothing but the run.
LEMMA RunAlone ==
  ASSUME AccountInv, NEW s \in SeedRuns, NEW new \in Runs, seed' = [seed EXCEPT ![s] = new],
         UNCHANGED <<account, signup, proof, audit, tagRows, shelf, cast>>, Seeded(s)'
  PROVE  AccountInv'
<1>1. /\ seed' \in [SeedRuns -> Runs] /\ \A o \in SeedRuns \ {s} : seed'[o] = seed[o]
  BY RunBecomes DEF AccountInv
<1>2. Grown
  BY DEF Grown
<1>3. AccountsKept' /\ Rows'
  BY <1>1 DEF AccountInv, AccountsKept, Rows
<1>4. \A i \in Applicants : Registered(i)'
  BY <1>2, RegisteredStays DEF AccountInv
<1>5. \A o \in SeedRuns : Seeded(o)'
  BY <1>1, <1>2, <1>3, SeededStays DEF AccountInv
<1>6. QED
  BY <1>3, <1>4, <1>5 DEF AccountInv

\* A run fails; it has left nothing.
LEMMA RunFails ==
  ASSUME AccountInv, NEW s \in SeedRuns, SeedFails(s), seed[s].at # "done",
         UNCHANGED <<account, signup, proof, audit, tagRows, shelf, cast>>
  PROVE  AccountInv'
<1>1. seed \in [SeedRuns -> Runs] /\ seed[s] \in Runs /\ AccountsKept /\ Seeded(s)
  BY DEF AccountInv, AccountsKept
<1>2. PICK new : new = [[seed[s] EXCEPT !.at = "failed"] EXCEPT !.holds = FALSE]
  OBVIOUS
<1>3. new \in Runs /\ new.at = "failed"
  BY <1>1, <1>2 DEF Runs
<1>4. seed' = [seed EXCEPT ![s] = new]
  BY <1>1, <1>2 DEF SeedFails, Runs
<1>5. seed'[s].at = "failed"
  BY <1>1, <1>3, <1>4, RunBecomes
<1>6. Seeded(s)'
  BY <1>1, <1>5 DEF Seeded
<1>7. QED
  BY <1>3, <1>4, <1>6, RunAlone

\* The script looks for the account of the admin.
LEMMA SeedLooksStep ==
  ASSUME AccountInv, NEW s \in SeedRuns, SeedLooks(s)
  PROVE  AccountInv'
<1> DEFINE same == IF ByEmail(SeedEmail) # {} THEN ByEmail(SeedEmail) ELSE ByName(SeedName)
<1>1. /\ seed \in [SeedRuns -> Runs] /\ seed[s] \in Runs /\ AccountsKept /\ Seeded(s)
      /\ seed[s].at = "idle" /\ UNCHANGED <<account, signup, proof, audit, tagRows, shelf, cast>>
  BY DEF AccountInv, AccountsKept, SeedLooks, SeedAt
<1>2. seed[s].found = 0 /\ ~seed[s].admin /\ \A c \in Shelf : shelf[c] # s
  BY <1>1 DEF Seeded
<1>3. CASE SeedGoes(s, "tags")
  <2>1. PICK new : new = [seed[s] EXCEPT !.at = "tags"]
    OBVIOUS
  <2>2. new \in Runs /\ new.at = "tags" /\ ~new.admin
    BY <1>1, <1>2, <2>1 DEF Runs
  <2>3. seed' = [seed EXCEPT ![s] = new]
    BY <1>3, <2>1 DEF SeedGoes
  <2>4. seed'[s].at = "tags" /\ ~seed'[s].admin
    BY <1>1, <2>2, <2>3, RunBecomes
  <2>5. Seeded(s)'
    BY <1>1, <1>2, <2>4 DEF Seeded
  <2>6. QED
    BY <1>1, <2>2, <2>3, <2>5, RunAlone
<1>4. CASE seed' = [seed EXCEPT ![s].at = "user", ![s].admin = TRUE]
  <2>1. PICK new : new = [[seed[s] EXCEPT !.at = "user"] EXCEPT !.admin = TRUE]
    OBVIOUS
  <2>2. new \in Runs /\ new.at = "user" /\ new.found = 0
    BY <1>1, <1>2, <2>1 DEF Runs
  <2>3. seed' = [seed EXCEPT ![s] = new]
    BY <1>1, <1>4, <2>1 DEF Runs
  <2>4. seed'[s].at = "user" /\ seed'[s].found = 0
    BY <1>1, <2>2, <2>3, RunBecomes
  <2>5. Seeded(s)'
    BY <1>1, <1>2, <2>4 DEF Seeded
  <2>6. QED
    BY <1>1, <2>2, <2>3, <2>5, RunAlone
<1>5. ASSUME NEW i \in same,
             seed' = [seed EXCEPT ![s].at = "user", ![s].admin = TRUE, ![s].found = i,
                                  ![s].adds = SeedRoles \ account[i].roles]
      PROVE  AccountInv'
  <2>1. /\ i \in Ids /\ Administers(i) /\ account[i].roles \subseteq SeedRoles
        /\ SeedRoles \ account[i].roles \subseteq SeedRoles
    BY <1>1 DEF ByEmail, ByName, Administers, AccountsKept, UserRows
  <2>2. PICK new : new = [[[[seed[s] EXCEPT !.at = "user"] EXCEPT !.admin = TRUE]
                            EXCEPT !.found = i] EXCEPT !.adds = SeedRoles \ account[i].roles]
    OBVIOUS
  <2>3. /\ new \in Runs /\ new.at = "user" /\ new.found = i
        /\ new.adds = SeedRoles \ account[i].roles
    BY <1>1, <2>1, <2>2 DEF Runs
  <2>4. seed' = [seed EXCEPT ![s] = new]
    BY <1>1, <1>5, <2>2 DEF Runs
  <2>5. seed'[s] = new
    BY <1>1, <2>3, <2>4, RunBecomes
  <2>6. seed'[s].found = i /\ account' = account /\ Administers(i)'
    BY <1>1, <2>1, <2>3, <2>5 DEF Administers
  <2>7. seed'[s].adds \union account'[i].roles = SeedRoles
    BY <2>1, <2>3, <2>5, <2>6
  <2>8. Seeded(s)'
    BY <1>1, <1>2, <2>3, <2>5, <2>6, <2>7 DEF Seeded, Administers
  <2>9. QED
    BY <1>1, <2>3, <2>4, <2>8, RunAlone
<1>6. QED
  BY <1>3, <1>4, <1>5 DEF SeedLooks

\* The script has read or inserted the tags, has read the slugs, or has died.
LEMMA SeedReadsStep ==
  ASSUME AccountInv, NEW s \in SeedRuns,
         SeedReadsTags(s) \/ SeedFlushesTags(s) \/ SeedReadsSlugs(s) \/ SeedDies(s)
  PROVE  AccountInv'
<1>1. /\ seed \in [SeedRuns -> Runs] /\ seed[s] \in Runs /\ AccountsKept /\ Seeded(s)
      /\ UNCHANGED <<account, signup, proof, audit, tagRows, shelf, cast>>
  BY DEF AccountInv, AccountsKept, SeedReadsTags, SeedFlushesTags, SeedReadsSlugs, SeedDies
<1>2. ASSUME NEW new \in Runs, seed' = [seed EXCEPT ![s] = new], new.admin = seed[s].admin,
             new.at \in {"flush", "slugs", "commit"},
             seed[s].at \in {"tags", "flush", "slugs"},
             new.at = "commit" => \A c \in new.seen \ new.moved : shelf[c] # 0
      PROVE  AccountInv'
  <2>1. seed'[s] = new
    BY <1>1, <1>2, RunBecomes
  <2>2. \A c \in Shelf : shelf[c] # s
    BY <1>1, <1>2 DEF Seeded
  <2>3. new.admin => \E i \in Ids : Administers(i)' /\ account'[i].roles = SeedRoles
    BY <1>1, <1>2 DEF Seeded, Administers
  <2>4. Seeded(s)'
    BY <1>1, <1>2, <2>1, <2>2, <2>3 DEF Seeded, Administers
  <2>5. QED
    BY <1>1, <1>2, <2>4, RunAlone
<1>3. CASE SeedReadsTags(s)
  <2>1. PICK adds \in SUBSET {"tags"} :
          seed' = [seed EXCEPT ![s].at = "flush", ![s].adds = adds]
    BY <1>3 DEF SeedReadsTags
  <2>2. PICK new : new = [[seed[s] EXCEPT !.at = "flush"] EXCEPT !.adds = adds]
    OBVIOUS
  <2>3. new \in Runs /\ new.at = "flush" /\ new.admin = seed[s].admin
    BY <1>1, <2>2 DEF Runs
  <2>4. seed' = [seed EXCEPT ![s] = new]
    BY <1>1, <2>1, <2>2 DEF Runs
  <2>5. seed[s].at = "tags"
    BY <1>3 DEF SeedReadsTags, SeedAt
  <2>6. QED
    BY <1>2, <2>3, <2>4, <2>5
<1>4. CASE SeedFlushesTags(s)
  <2>1. seed[s].at = "flush"
    BY <1>4 DEF SeedFlushesTags, SeedAt
  <2>2. CASE SeedFails(s)
    BY <1>1, <2>1, <2>2, RunFails
  <2>3. CASE ~SeedFails(s)
    <3>1. PICK holds \in BOOLEAN : seed' = [seed EXCEPT ![s].at = "slugs", ![s].holds = holds]
                                   \/ seed' = [seed EXCEPT ![s].at = "slugs"]
      BY <1>4, <2>3 DEF SeedFlushesTags, SeedGoes
    <3>2. PICK new : /\ \/ new = [[seed[s] EXCEPT !.at = "slugs"] EXCEPT !.holds = holds]
                        \/ new = [seed[s] EXCEPT !.at = "slugs"]
                     /\ seed' = [seed EXCEPT ![s] = new]
      BY <1>1, <3>1 DEF Runs
    <3>3. new \in Runs /\ new.at = "slugs" /\ new.admin = seed[s].admin
      BY <1>1, <3>2 DEF Runs
    <3>4. QED
      BY <1>2, <2>1, <3>2, <3>3
  <2>4. QED
    BY <2>2, <2>3
<1>5. CASE SeedReadsSlugs(s)
  <2>1. PICK seen : seen = {c \in Shelf : shelf[c] # 0}
    OBVIOUS
  <2>2. PICK new : new = [[seed[s] EXCEPT !.at = "commit"] EXCEPT !.seen = seen]
    OBVIOUS
  <2>3. seen \in SUBSET Shelf /\ \A c \in seen : shelf[c] # 0
    BY <2>1
  <2>4. new \in Runs /\ new.at = "commit" /\ new.admin = seed[s].admin /\ new.seen = seen
    BY <1>1, <2>2, <2>3 DEF Runs
  <2>5. seed[s].at = "slugs" /\ seed' = [seed EXCEPT ![s].at = "commit", ![s].seen = seen]
    BY <1>5, <2>1 DEF SeedReadsSlugs, SeedAt
  <2>6. seed' = [seed EXCEPT ![s] = new]
    BY <1>1, <2>2, <2>5 DEF Runs
  <2>7. QED
    BY <1>2, <2>3, <2>4, <2>5, <2>6
<1>6. CASE SeedDies(s)
  BY <1>1, <1>6, RunFails DEF SeedDies
<1>7. QED
  BY <1>3, <1>4, <1>5, <1>6

\* The script creates the account of the admin, or gives an account the roles it lacks.
LEMMA SeedUserStep ==
  ASSUME AccountInv, NEW s \in SeedRuns, SeedUser(s)
  PROVE  AccountInv'
<1>1. /\ seed \in [SeedRuns -> Runs] /\ seed[s] \in Runs /\ AccountsKept /\ Rows /\ Seeded(s)
      /\ seed[s].at = "user" /\ s \in Ids /\ s \notin Applicants
      /\ UNCHANGED <<signup, proof, audit, tagRows, shelf, cast>>
  BY AccountsAssumption DEF AccountInv, AccountsKept, SeedUser, SeedAt, Ids
<1>2. CASE SeedFails(s) /\ UNCHANGED account
  BY <1>1, <1>2, RunFails
<1>3. CASE ~(SeedFails(s) /\ UNCHANGED account)
  <2>1. seed' = [seed EXCEPT ![s].at = "tags"]
    BY <1>3 DEF SeedUser, SeedGoes
  <2>2. PICK new : new = [seed[s] EXCEPT !.at = "tags"]
    OBVIOUS
  <2>3. new \in Runs /\ new.at = "tags"
    BY <1>1, <2>2 DEF Runs
  <2>4. seed' = [seed EXCEPT ![s] = new]
    BY <2>1, <2>2
  <2>5. /\ seed' \in [SeedRuns -> Runs] /\ seed'[s].at = "tags"
        /\ \A o \in SeedRuns \ {s} : seed'[o] = seed[o]
    BY <1>1, <2>3, <2>4, RunBecomes
  <2>6. /\ account' \in [Ids -> UserRows] /\ Rows' /\ Grown
        /\ \E i \in Ids : Administers(i)' /\ account'[i].roles = SeedRoles
        /\ \A i \in Ids \ {s} : /\ account'[i].there = account[i].there
                                /\ account'[i].verified = account[i].verified
    <3>1. CASE seed[s].found = 0
      <4>1. /\ ~Taken(SeedEmail, SeedName)
            /\ account' = [account EXCEPT ![s] =
                             NewAccount(SeedEmail, SeedName, TRUE, SeedRoles)]
        BY <1>3, <3>1 DEF SeedUser
      <4>2. ~account[s].there
        BY <1>1 DEF Seeded
      <4>3. SeedEmail \in Emails /\ SeedName \in Usernames /\ SeedRoles \in SUBSET SeedRoles
        BY AccountsAssumption
      <4>4. /\ account' \in [Ids -> UserRows] /\ Rows' /\ Grown
            /\ account'[s].there /\ account'[s].email = SeedEmail /\ account'[s].roles = SeedRoles
            /\ \A j \in Ids \ {s} : account'[j] = account[j]
        BY <1>1, <4>1, <4>2, <4>3, AccountIsNew
      <4>5. QED
        BY <1>1, <4>4 DEF Administers
    <3>2. CASE seed[s].found # 0
      <4>1. PICK i : i = seed[s].found
        OBVIOUS
      <4>2. i \in Ids /\ Administers(i) /\ seed[s].adds \union account[i].roles = SeedRoles
        BY <1>1, <3>2, <4>1 DEF Runs, Seeded
      <4>3. account' = [account EXCEPT ![i].roles = @ \union seed[s].adds]
        BY <1>3, <3>2, <4>1 DEF SeedUser
      <4>4. account[i] \in UserRows
        BY <1>1, <4>2 DEF AccountsKept
      <4>5. PICK row : row = [account[i] EXCEPT !.roles = SeedRoles]
        OBVIOUS
      <4>6. /\ row \in UserRows /\ row.roles = SeedRoles /\ row.there = account[i].there
            /\ row.verified = account[i].verified
            /\ row.email = account[i].email /\ row.name = account[i].name
        BY <4>4, <4>5 DEF UserRows
      <4>7. account' = [account EXCEPT ![i] = row]
        BY <4>2, <4>3, <4>4, <4>5 DEF UserRows
      <4>8. /\ account' \in [Ids -> UserRows] /\ account'[i] = row
            /\ \A j \in Ids \ {i} : account'[j] = account[j]
        BY <1>1, <4>2, <4>6, <4>7 DEF AccountsKept
      <4>9. \A j \in Ids : /\ account'[j].there = account[j].there
                           /\ account'[j].verified = account[j].verified
                           /\ account'[j].email = account[j].email
                           /\ account'[j].name = account[j].name
        BY <4>6, <4>8
      <4>10. Grown
        BY <4>4, <4>6, <4>8, <4>9 DEF Grown, UserRows
      <4>11. Rows'
        BY <1>1, <4>9 DEF Rows
      <4>12. Administers(i)' /\ account'[i].roles = SeedRoles
        BY <4>2, <4>6, <4>8 DEF Administers
      <4>13. QED
        BY <4>2, <4>8, <4>9, <4>10, <4>11, <4>12
    <3>3. QED
      BY <3>1, <3>2
  <2>7. AccountsKept'
    BY <1>1, <2>5, <2>6 DEF AccountsKept
  <2>8. ASSUME NEW i \in Applicants PROVE Registered(i)'
    <3>1. i \in Ids \ {s} /\ Registered(i)
      BY <1>1 DEF AccountInv, Ids
    <3>2. QED
      BY <1>1, <2>6, <3>1, RegisteredStays
  <2>9. ASSUME NEW o \in SeedRuns \ {s} PROVE Seeded(o)'
    <3>1. o \in Ids \ {s} /\ Seeded(o)
      BY DEF AccountInv, Ids
    <3>2. QED
      BY <1>1, <2>5, <2>6, <2>7, <3>1, SeededStays
  <2>10. Seeded(s)'
    BY <1>1, <2>5, <2>6 DEF Seeded, Administers
  <2>11. QED
    BY <2>6, <2>7, <2>8, <2>9, <2>10 DEF AccountInv
<1>4. QED
  BY <1>2, <1>3

\* The script commits the problems that were not there, all of them or none.
LEMMA SeedCommitsStep ==
  ASSUME AccountInv, NEW s \in SeedRuns, SeedCommits(s)
  PROVE  AccountInv'
<1>1. /\ seed \in [SeedRuns -> Runs] /\ seed[s] \in Runs /\ AccountsKept /\ Seeded(s)
      /\ seed[s].at = "commit" /\ UNCHANGED <<account, signup, proof, audit, cast>>
  BY DEF AccountInv, AccountsKept, SeedCommits, SeedAt
<1>2. CASE \E c \in SeedSlugs \ seed[s].seen : shelf[c] # 0
  <2>1. SeedFails(s) /\ UNCHANGED <<tagRows, shelf>>
    BY <1>2 DEF SeedCommits
  <2>2. QED
    BY <1>1, <2>1, RunFails
<1>3. CASE \A c \in SeedSlugs \ seed[s].seen : shelf[c] = 0
  <2>1. /\ shelf' = [c \in Shelf |-> IF c \in SeedSlugs \ seed[s].seen THEN s ELSE shelf[c]]
        /\ tagRows' = TRUE
        /\ seed' = [seed EXCEPT ![s].at = "done", ![s].holds = FALSE]
    BY <1>3 DEF SeedCommits
  <2>2. PICK new : new = [[seed[s] EXCEPT !.at = "done"] EXCEPT !.holds = FALSE]
    OBVIOUS
  <2>3. new \in Runs /\ new.at = "done" /\ new.admin = seed[s].admin /\ new.moved = seed[s].moved
    BY <1>1, <2>2 DEF Runs
  <2>4. seed' = [seed EXCEPT ![s] = new]
    BY <1>1, <2>1, <2>2 DEF Runs
  <2>5. /\ seed' \in [SeedRuns -> Runs] /\ seed'[s] = new
        /\ \A o \in SeedRuns \ {s} : seed'[o] = seed[o]
    BY <1>1, <2>3, <2>4, RunBecomes
  <2>6. shelf' \in [Shelf -> SeedRuns \union {0, Admin}]
    BY <1>1, <2>1 DEF AccountsKept
  <2>7. AccountsKept'
    BY <1>1, <2>1, <2>5, <2>6 DEF AccountsKept
  <2>8. Grown
    BY <1>1 DEF Grown
  <2>9. Rows' /\ \A i \in Applicants : Registered(i)'
    BY <1>1, <2>8, RegisteredStays DEF AccountInv, Rows
  <2>10. s # 0 /\ \A c \in Shelf : shelf[c] # 0 => shelf'[c] # 0
    BY <2>1, AccountsAssumption
  <2>11. ASSUME NEW o \in SeedRuns \ {s} PROVE Seeded(o)'
    <3>1. Seeded(o) /\ seed[o] \in Runs /\ seed'[o] = seed[o]
      BY <1>1, <2>5 DEF AccountInv
    <3>2. \A c \in Shelf : shelf'[c] = o => shelf[c] = o
      BY <2>1
    <3>3. \A c \in seed[o].seen : c \in Shelf
      BY <3>1 DEF Runs
    <3>4. \A c \in SeedSlugs : c \in Shelf
      BY DEF Shelf
    <3>5. QED
      BY <1>1, <2>1, <2>10, <3>1, <3>2, <3>3, <3>4 DEF Seeded, Administers
  <2>12. Seeded(s)'
    <3>1. ASSUME NEW c \in SeedSlugs \ new.moved PROVE shelf'[c] # 0
      <4>1. c \in Shelf
        BY DEF Shelf
      <4>2. CASE c \in seed[s].seen
        BY <1>1, <2>3, <2>10, <4>1, <4>2 DEF Seeded
      <4>3. CASE c \notin seed[s].seen
        BY <2>1, <2>10, <4>1, <4>3
      <4>4. QED
        BY <4>2, <4>3
    <3>2. new.admin => \E i \in Ids : Administers(i)' /\ account'[i].roles = SeedRoles
      BY <1>1, <2>3 DEF Seeded, Administers
    <3>3. QED
      BY <2>1, <2>3, <2>5, <3>1, <3>2 DEF Seeded, Administers
  <2>13. QED
    BY <2>7, <2>9, <2>11, <2>12 DEF AccountInv
<1>4. QED
  BY <1>2, <1>3

\* An admin creates a problem, or gives one another slug.
LEMMA AdminStep ==
  ASSUME AccountInv, NEW c \in Shelf, NEW d \in Shelf, AdminCreates(c) \/ AdminRenames(c, d)
  PROVE  AccountInv'
<1>1. /\ AccountsKept /\ seed \in [SeedRuns -> Runs]
      /\ UNCHANGED <<account, signup, proof, audit, tagRows, cast>>
  BY DEF AccountInv, AccountsKept, AdminCreates, AdminRenames
<1>2. Grown
  BY <1>1 DEF Grown
<1>3. Rows' /\ \A i \in Applicants : Registered(i)'
  BY <1>1, <1>2, RegisteredStays DEF AccountInv, Rows
<1>4. Admin \notin SeedRuns /\ Admin # 0 /\ SeedSlugs \subseteq Shelf
  BY AccountsAssumption DEF Admin, Shelf
<1>5. CASE AdminCreates(c)
  <2>1. /\ shelf[c] = 0 /\ shelf' = [shelf EXCEPT ![c] = Admin] /\ UNCHANGED seed
    BY <1>5 DEF AdminCreates
  <2>2. shelf \in [Shelf -> SeedRuns \union {0, Admin}]
    BY <1>1 DEF AccountsKept
  <2>3. /\ shelf' \in [Shelf -> SeedRuns \union {0, Admin}] /\ shelf'[c] = Admin
        /\ \A e \in Shelf \ {c} : shelf'[e] = shelf[e]
    BY <2>1, <2>2
  <2>4. AccountsKept'
    BY <1>1, <2>1, <2>3 DEF AccountsKept
  <2>5. ASSUME NEW s \in SeedRuns PROVE Seeded(s)'
    <3>1. Seeded(s) /\ seed[s] \in Runs
      BY <1>1 DEF AccountInv
    <3>2. \A e \in Shelf : (shelf[e] # 0 => shelf'[e] # 0) /\ (shelf'[e] = s => shelf[e] = s)
      BY <1>4, <2>3
    <3>3. seed[s].seen \subseteq Shelf
      BY <3>1 DEF Runs
    <3>4. QED
      BY <1>1, <1>4, <2>1, <3>1, <3>2, <3>3 DEF Seeded, Administers
  <2>6. QED
    BY <1>3, <2>4, <2>5 DEF AccountInv
<1>6. CASE AdminRenames(c, d)
  <2>1. /\ shelf[c] # 0 /\ shelf[d] = 0 /\ shelf' = [[shelf EXCEPT ![c] = 0] EXCEPT ![d] = shelf[c]]
        /\ seed' = [s \in SeedRuns |-> IF seed[s].at \in {"commit", "done"}
                                       THEN [seed[s] EXCEPT !.moved = @ \union {c}] ELSE seed[s]]
    BY <1>1, <1>6 DEF AdminRenames, AccountsKept
  <2>2. shelf \in [Shelf -> SeedRuns \union {0, Admin}]
    BY <1>1 DEF AccountsKept
  <2>3. /\ shelf' \in [Shelf -> SeedRuns \union {0, Admin}] /\ shelf'[d] = shelf[c]
        /\ shelf'[c] = 0 /\ \A e \in Shelf \ {c, d} : shelf'[e] = shelf[e]
    BY <2>1, <2>2
  <2>4. ASSUME NEW s \in SeedRuns
        PROVE  /\ seed'[s] \in Runs /\ seed'[s].at = seed[s].at /\ seed'[s].seen = seed[s].seen
               /\ seed'[s].found = seed[s].found /\ seed'[s].adds = seed[s].adds
               /\ seed'[s].admin = seed[s].admin
               /\ seed[s].at \in {"commit", "done"} => seed'[s].moved = seed[s].moved \union {c}
    <3>1. seed[s] \in Runs
      BY <1>1
    <3>2. PICK new : new = [seed[s] EXCEPT !.moved = seed[s].moved \union {c}]
      OBVIOUS
    <3>3. /\ new \in Runs /\ new.at = seed[s].at /\ new.seen = seed[s].seen
          /\ new.found = seed[s].found /\ new.adds = seed[s].adds /\ new.admin = seed[s].admin
          /\ new.moved = seed[s].moved \union {c}
      BY <3>1, <3>2 DEF Runs
    <3>4. seed'[s] = IF seed[s].at \in {"commit", "done"} THEN new ELSE seed[s]
      BY <2>1, <3>2
    <3>5. QED
      BY <3>1, <3>3, <3>4
  <2>5. seed' \in [SeedRuns -> Runs]
    BY <2>1, <2>4
  <2>6. AccountsKept'
    BY <1>1, <2>3, <2>5 DEF AccountsKept
  <2>7. ASSUME NEW s \in SeedRuns PROVE Seeded(s)'
    <3>1. Seeded(s) /\ seed[s] \in Runs
      BY <1>1 DEF AccountInv
    <3>2. \A e \in Shelf : /\ shelf[e] # 0 /\ e # c => shelf'[e] # 0
                           /\ shelf'[e] = s => \E f \in Shelf : shelf[f] = s
      BY <2>1, <2>3, AccountsAssumption
    <3>3. seed[s].seen \subseteq Shelf
      BY <3>1 DEF Runs
    <3>4. /\ seed'[s].at = "commit" => \A e \in seed'[s].seen \ seed'[s].moved : shelf'[e] # 0
          /\ seed'[s].at = "done" => tagRows' /\ \A e \in SeedSlugs \ seed'[s].moved : shelf'[e] # 0
          /\ \A e \in Shelf : shelf'[e] = s => seed'[s].at = "done"
      BY <1>1, <1>4, <2>4, <3>1, <3>2, <3>3 DEF Seeded
    <3>5. QED
      BY <1>1, <2>4, <3>1, <3>4 DEF Seeded, Administers
  <2>8. QED
    BY <1>3, <2>6, <2>7 DEF AccountInv
<1>7. QED
  BY <1>5, <1>6

\* The invariant holds at the beginning, and every step preserves it.
LEMMA AccountInitInv == AccountsInit => AccountInv
<1> SUFFICES ASSUME AccountsInit PROVE AccountInv
  OBVIOUS
<1>1. NoAccount \in UserRows /\ NoRun \in Runs
  BY DEF NoAccount, NoRun, UserRows, Runs
<1>2. AccountsKept
  BY <1>1 DEF AccountsInit, AccountsKept, Signups
<1>3. Applicants \subseteq Ids /\ SeedRuns \subseteq Ids /\ 0 \notin SeedRuns
  BY AccountsAssumption DEF Ids
<1>4. Rows /\ \A i \in Applicants : Registered(i)
  BY <1>3 DEF AccountsInit, Rows, Registered, NoAccount
<1>5. \A s \in SeedRuns : Seeded(s)
  BY <1>3 DEF AccountsInit, Seeded, NoAccount, NoRun
<1>6. QED
  BY <1>2, <1>4, <1>5 DEF AccountInv

\* Whatever a registration, a link, a seed run or an admin does next, it stays.
LEMMA AccountNextInv == AccountInv /\ [AccountsNext]_accountVars => AccountInv'
<1>1. AccountInv /\ UNCHANGED accountVars => AccountInv'
  BY DEF accountVars, AccountInv, AccountsKept, Rows, Registered, Seeded, Administers, Taken,
         ByEmail, ByName
<1>2. AccountInv /\ AccountsNext => AccountInv'
  BY RegisterStep, RegisterCommitStep, LinkStep, SeedLooksStep, SeedUserStep, SeedReadsStep,
     SeedCommitsStep, AdminStep DEF AccountsNext
<1>3. QED
  BY <1>1, <1>2

\* The invariant of accounts and of the seed script.
THEOREM AccountsInvariant == AccountsSpec => []AccountInv
BY AccountInitInv, AccountNextInv, PTL DEF AccountsSpec

\* Neither a registration nor a run of the seed script is ever done by halves: an email or a
\* name belongs to one account, what was answered is there with its audit row and its link,
\* what was refused left nothing, and a seed run leaves the whole catalogue or none of it.
THEOREM NothingIsDoneByHalves == AccountsSpec => []NothingByHalves
<1>1. AccountInv => RegistrationIsWhole
  BY DEF AccountInv, Rows, Registered, RegistrationIsWhole
<1>2. ASSUME AccountInv, NEW s \in SeedRuns, SeedAt(s, "done"), seed[s].admin
      PROVE  \E i \in ByEmail(SeedEmail) \union ByName(SeedName) : account[i].roles = SeedRoles
  BY <1>2 DEF AccountInv, Seeded, SeedAt, Administers, ByEmail, ByName
<1>3. AccountInv => SeedIsWhole
  BY <1>2 DEF AccountInv, Seeded, SeedAt, SeedIsWhole
<1>4. QED
  BY <1>1, <1>3, AccountsInvariant, PTL DEF NothingByHalves

\* The types of the rows, the calls and the runs.
THEOREM AccountsTyped == AccountsSpec => []AccountsTypeOK
<1>1. AccountInv => AccountsTypeOK
  <2> SUFFICES ASSUME AccountInv PROVE AccountsTypeOK
    OBVIOUS
  <2>1. AccountsKept /\ Rows
    BY DEF AccountInv
  <2>2. \A i \in Ids : /\ account[i].there \in BOOLEAN /\ account[i].verified \in BOOLEAN
                       /\ account[i].there => /\ account[i].email \in Emails
                                               /\ account[i].name \in Usernames
                       /\ account[i].roles \subseteq SeedRoles
                       /\ proof[i] \in {"none", "valid", "used"}
    BY <2>1 DEF AccountsKept, Rows, UserRows
  <2>3. \A i \in Applicants :
          signup[i].at \in {"idle", "looked", "joined", "created", "refused", "lost"}
    BY <2>1 DEF AccountsKept, Signups
  <2>4. \A s \in SeedRuns :
          /\ seed[s].at \in {"idle", "user", "tags", "flush", "slugs", "commit", "done", "failed"}
          /\ seed[s].found \in Ids \union {0} /\ seed[s].seen \union seed[s].moved \subseteq Shelf
    BY <2>1 DEF AccountsKept, Runs
  <2>5. /\ audit \subseteq {"auth.register", "auth.email_verified"} \X Ids
        /\ tagRows \in BOOLEAN /\ cast \in Casts
        /\ \A c \in Shelf : shelf[c] \in SeedRuns \union {0, Admin}
    BY <2>1 DEF AccountsKept
  <2>6. QED
    BY <2>2, <2>3, <2>4, <2>5 DEF AccountsTypeOK
<1>2. QED
  BY <1>1, AccountsInvariant, PTL

-----------------------------------------------------------------------------
(* Sums over finite sets, as MapThenSumSet computes them                    *)

\* The sums of a function over the subsets of a set, one element after the other.
Pick(s) == CHOOSE y \in s : TRUE
Adds(f, T, h) == h = [s \in SUBSET T |-> IF s = {} THEN 0 ELSE f[Pick(s)] + h[s \ {Pick(s)}]]
SumOf(f, T) == (CHOOSE h : Adds(f, T, h))[T]

\* Among subsets of a finite set, one has none of the others inside it.
LEMMA LeastSubset ==
  ASSUME NEW T, IsFiniteSet(T), NEW B \in SUBSET (SUBSET T), B # {}
  PROVE  \E s \in B : \A u \in SUBSET s : u \in B => u = s
<1>1. IsWellFoundedOn(StrictSubsetOrdering(T), SUBSET T)
  BY FS_StrictSubsetOrderingWellFounded, FS_FiniteSubsetsOfFinite
<1>2. PICK s \in B : \A u \in B : ~ (<<u, s>> \in StrictSubsetOrdering(T))
  BY <1>1, WFMin
<1>3. \A u \in SUBSET s : u \in B => u = s
  BY <1>2 DEF StrictSubsetOrdering
<1>4. QED
  BY <1>3

\* An element of a set, and what remains without it.
LEMMA PickOne ==
  ASSUME NEW s, s # {}
  PROVE  /\ Pick(s) \in s /\ s \ {Pick(s)} \in SUBSET s /\ s \ {Pick(s)} # s
BY DEF Pick

\* Two sums over the same sets agree.
LEMMA AddsAgree ==
  ASSUME NEW f, NEW T, IsFiniteSet(T), NEW U \in SUBSET T, NEW h, NEW g, Adds(f, T, h), Adds(f, U,
           g)
  PROVE  \A s \in SUBSET U : h[s] = g[s]
<1> DEFINE B == {s \in SUBSET U : h[s] # g[s]}
<1> SUFFICES ASSUME B # {} PROVE FALSE
  OBVIOUS
<1>1. IsFiniteSet(U) /\ B \in SUBSET (SUBSET U)
  BY FS_Subset
<1>2. PICK s \in B : \A u \in SUBSET s : u \in B => u = s
  <2> HIDE DEF B
  <2>1. QED
    BY <1>1, LeastSubset
<1>3. s \in SUBSET U /\ s \in SUBSET T
  OBVIOUS
<1>4. CASE s = {}
  BY <1>2, <1>3, <1>4 DEF Adds
<1>5. CASE s # {}
  <2>1. PICK v : v = s \ {Pick(s)}
    OBVIOUS
  <2>2. v \in SUBSET s /\ v # s /\ v \in SUBSET U
    BY <1>3, <1>5, <2>1, PickOne
  <2>3. h[v] = g[v]
    BY <1>2, <2>2
  <2>4. h[s] = f[Pick(s)] + h[v] /\ g[s] = f[Pick(s)] + g[v]
    BY <1>3, <1>5, <2>1 DEF Adds
  <2>5. QED
    BY <1>2, <2>3, <2>4
<1>6. QED
  BY <1>4, <1>5

\* Every finite set has its sums.
LEMMA AddsExists ==
  ASSUME NEW f, NEW T, IsFiniteSet(T)
  PROVE  \E h : Adds(f, T, h)
<1> DEFINE B == {s \in SUBSET T : ~ \E h : Adds(f, s, h)}
<1> SUFFICES ASSUME B # {} PROVE FALSE
  OBVIOUS
<1>1. PICK s \in B : \A u \in SUBSET s : u \in B => u = s
  <2>1. B \in SUBSET (SUBSET T)
    OBVIOUS
  <2> HIDE DEF B
  <2>2. QED
    BY <2>1, LeastSubset
<1>2. s \in SUBSET T /\ ~ \E h : Adds(f, s, h)
  OBVIOUS
<1>3. PICK H : H = [u \in SUBSET s |-> CHOOSE h : Adds(f, u, h)]
  OBVIOUS
<1>4. ASSUME NEW u \in SUBSET s, u # s
      PROVE  Adds(f, u, H[u])
  BY <1>1, <1>2, <1>3, <1>4
<1>5. PICK g : g = [u \in SUBSET s |-> IF u = {} THEN 0
                                       ELSE f[Pick(u)] + H[u \ {Pick(u)}][u \ {Pick(u)}]]
  OBVIOUS
<1>6. ASSUME NEW u \in SUBSET s, u # {}
      PROVE  H[u \ {Pick(u)}][u \ {Pick(u)}] = g[u \ {Pick(u)}]
  <2>1. PICK v : v = u \ {Pick(u)}
    OBVIOUS
  <2>2. v \in SUBSET s /\ v # s /\ v \in SUBSET T
    BY <1>2, <1>6, <2>1, PickOne
  <2>3. Adds(f, v, H[v])
    BY <1>4, <2>2
  <2>4. CASE v = {}
    BY <1>5, <2>1, <2>2, <2>3, <2>4 DEF Adds
  <2>5. CASE v # {}
    <3>1. PICK w : w = v \ {Pick(v)}
      OBVIOUS
    <3>2. w \in SUBSET v /\ w # v /\ w \in SUBSET s /\ w # s
      BY <2>2, <2>5, <3>1, PickOne
    <3>3. Adds(f, w, H[w])
      BY <1>4, <3>2
    <3>4. H[v][w] = H[w][w]
      <4>1. IsFiniteSet(v) /\ w \in SUBSET w
        BY <2>2, FS_Subset
      <4>2. PICK a, b : a = H[v] /\ b = H[w]
        OBVIOUS
      <4>3. Adds(f, v, a) /\ Adds(f, w, b)
        BY <2>3, <3>3, <4>2
      <4>4. \A e \in SUBSET w : a[e] = b[e]
        BY <3>2, <4>1, <4>3, AddsAgree
      <4>5. QED
        BY <4>1, <4>2, <4>4
    <3>5. H[v][v] = f[Pick(v)] + H[v][w]
      BY <2>3, <2>5, <3>1 DEF Adds
    <3>6. g[v] = f[Pick(v)] + H[w][w]
      BY <1>5, <2>2, <2>5, <3>1
    <3>7. QED
      BY <2>1, <3>4, <3>5, <3>6
  <2>6. QED
    BY <2>4, <2>5
<1>7. Adds(f, s, g)
  BY <1>5, <1>6, Zenon DEF Adds
<1>8. QED
  BY <1>2, <1>7

\* The sum over a set is that over all but one, and that one.
LEMMA SumStep ==
  ASSUME NEW f, NEW T, IsFiniteSet(T)
  PROVE  SumOf(f, T) = IF T = {} THEN 0 ELSE f[Pick(T)] + SumOf(f, T \ {Pick(T)})
<1>1. PICK h : h = CHOOSE g : Adds(f, T, g)
  OBVIOUS
<1>2. Adds(f, T, h) /\ SumOf(f, T) = h[T]
  BY <1>1, AddsExists DEF SumOf
<1>3. CASE T = {}
  BY <1>2, <1>3 DEF Adds
<1>4. CASE T # {}
  <2>1. PICK v : v = T \ {Pick(T)}
    OBVIOUS
  <2>2. v \in SUBSET T /\ IsFiniteSet(v)
    BY <1>4, <2>1, FS_Subset
  <2>3. PICK g : g = CHOOSE e : Adds(f, v, e)
    OBVIOUS
  <2>4. Adds(f, v, g) /\ SumOf(f, v) = g[v]
    BY <2>2, <2>3, AddsExists DEF SumOf
  <2>5. h[v] = g[v]
    BY <1>2, <2>2, <2>4, AddsAgree
  <2>6. h[T] = f[Pick(T)] + h[v]
    BY <1>2, <1>4, <2>1 DEF Adds
  <2>7. QED
    BY <1>2, <1>4, <2>1, <2>4, <2>5, <2>6
<1>5. QED
  BY <1>3, <1>4

\* A sum changes by what one of its terms changes.
LEMMA SumChanges ==
  ASSUME NEW S, IsFiniteSet(S), NEW f \in [S -> Int], NEW g \in [S -> Int], NEW u,
         \A y \in S \ {u} : g[y] = f[y]
  PROVE  /\ SumOf(f, S) \in Int /\ SumOf(g, S) \in Int
         /\ SumOf(g, S) = IF u \in S THEN SumOf(f, S) + g[u] - f[u] ELSE SumOf(f, S)
<1> DEFINE Good(s) ==
             /\ SumOf(f, s) \in Int /\ SumOf(g, s) \in Int
             /\ SumOf(g, s) = IF u \in s THEN SumOf(f, s) + g[u] - f[u] ELSE SumOf(f, s)
           B == {s \in SUBSET S : ~ Good(s)}
<1> SUFFICES ASSUME B # {} PROVE FALSE
  OBVIOUS
<1>1. PICK s \in B : \A v \in SUBSET s : v \in B => v = s
  <2>1. B \in SUBSET (SUBSET S)
    OBVIOUS
  <2> HIDE DEF B
  <2>2. QED
    BY <2>1, LeastSubset
<1>2. s \in SUBSET S /\ ~ Good(s) /\ IsFiniteSet(s)
  BY FS_Subset
<1>3. CASE s = {}
  <2>1. SumOf(f, s) = 0 /\ SumOf(g, s) = 0
    BY <1>2, <1>3, SumStep
  <2>2. QED
    BY <1>2, <1>3, <2>1
<1>4. CASE s # {}
  <2>1. PICK p, v : p = Pick(s) /\ v = s \ {Pick(s)}
    OBVIOUS
  <2>2. p \in s /\ v \in SUBSET s /\ v # s /\ v = s \ {p} /\ v \in SUBSET S
    BY <1>2, <1>4, <2>1, PickOne
  <2>3. Good(v)
    BY <1>1, <2>2
  <2>4. SumOf(f, s) = f[p] + SumOf(f, v) /\ SumOf(g, s) = g[p] + SumOf(g, v)
    BY <1>2, <1>4, <2>1, SumStep
  <2>5. f[p] \in Int /\ g[p] \in Int /\ (p # u => g[p] = f[p]) /\ (u \in v <=> u \in s /\ p # u)
    BY <1>2, <2>2
  <2>6. /\ SumOf(f, v) \in Int /\ SumOf(g, v) \in Int
        /\ SumOf(g, v) = IF u \in v THEN SumOf(f, v) + g[u] - f[u] ELSE SumOf(f, v)
    BY <2>3
  <2>7. SumOf(f, s) \in Int /\ SumOf(g, s) \in Int
    BY <2>4, <2>5, <2>6
  <2>8. CASE p = u
    BY <2>2, <2>4, <2>5, <2>6, <2>7, <2>8
  <2>9. CASE p # u /\ u \in s
    <3>1. g[u] \in Int /\ f[u] \in Int
      BY <1>2, <2>9
    <3>2. QED
      BY <2>2, <2>4, <2>5, <2>6, <2>7, <2>9, <3>1
  <2>10. CASE u \notin s
    BY <2>2, <2>4, <2>5, <2>6, <2>7, <2>10
  <2>11. QED
    BY <1>2, <2>8, <2>9, <2>10
<1>5. QED
  BY <1>3, <1>4

\* A sum of zeros is zero.
LEMMA SumOfZeros ==
  ASSUME NEW S, IsFiniteSet(S), NEW f \in [S -> {0}]
  PROVE  SumOf(f, S) = 0
<1> DEFINE B == {s \in SUBSET S : SumOf(f, s) # 0}
<1> SUFFICES ASSUME B # {} PROVE FALSE
  OBVIOUS
<1>1. PICK s \in B : \A v \in SUBSET s : v \in B => v = s
  <2>1. B \in SUBSET (SUBSET S)
    OBVIOUS
  <2> HIDE DEF B
  <2>2. QED
    BY <2>1, LeastSubset
<1>2. s \in SUBSET S /\ SumOf(f, s) # 0 /\ IsFiniteSet(s)
  BY FS_Subset
<1>3. s # {}
  BY <1>2, SumStep
<1>4. PICK p, v : p = Pick(s) /\ v = s \ {Pick(s)}
  OBVIOUS
<1>5. p \in s /\ v \in SUBSET s /\ v # s /\ v \in SUBSET S
  BY <1>2, <1>3, <1>4, PickOne
<1>6. SumOf(f, v) = 0
  BY <1>1, <1>5
<1>7. SumOf(f, s) = f[p] + SumOf(f, v)
  BY <1>2, <1>3, <1>4, SumStep
<1>8. f[p] = 0
  BY <1>2, <1>5
<1>9. QED
  BY <1>2, <1>6, <1>7, <1>8

-----------------------------------------------------------------------------
(* Community: tallies and moderation                                        *)

\* The rows of votes, reports and calls.
VoteRows == [by : Calls \union {NoCall}, value : {-1, 0, 1}]
ReportRows == [status : {"ABSENT", "OPEN", "RESOLVED", "DISMISSED"},
               target : Posts \union {NoPost}]
CallRows == [at : {"new", "read", "done"}, kind : Kinds, by : Members \union {NoMember},
             on : Posts \union Reports \union {NoPost}, value : {-1, 0, 1},
             vote : VoteRows, number : Int, columns : SUBSET Columns, fresh : BOOLEAN]

CommunityKept ==
  /\ author \in [Posts -> Members \union {NoMember}]
  /\ thread \in [Comments -> Threads \union {NoPost}]
  /\ vote \in [Members \X Posts -> VoteRows]
  /\ score \in [Posts -> Int] /\ count \in [Threads -> Nat]
  /\ locked \in SUBSET Threads /\ removed \in SUBSET Posts
  /\ report \in [Reports -> ReportRows]
  /\ replied \in [Threads -> Nat] /\ told \in [Posts -> Nat] /\ unread \in [Members -> Nat]
  /\ call \in [Calls -> CallRows]
  /\ torn \in SUBSET Columns

\* A comment that was written is in a thread that was started; a report is about a post.
Placed ==
  /\ \A c \in Comments : /\ Exists(c) <=> thread[c] # NoPost
                         /\ Exists(c) => Exists(thread[c])
  /\ \A p \in Reports : report[p].status # "ABSENT" => report[p].target \in Posts

\* What a call that has read knows: the rows it is about are there, and as long as nobody wrote
\* the columns that it read, they are as it read them.
Commenting(k) ==
  MayRun(k, "comment") =>
    /\ call[k].on \in Threads /\ call[k].by \in Members /\ Exists(call[k].on)
    /\ call[k].columns = {<<"count", call[k].on>>} /\ call[k].number \in Nat
    /\ call[k].fresh => call[k].number = count[call[k].on]
Voting(k) ==
  MayRun(k, "vote") \/ MayRun(k, "unvote") =>
    /\ call[k].on \in Posts /\ call[k].by \in Members
    /\ call[k].columns = {<<"score", call[k].on>>}
    /\ call[k].fresh => /\ call[k].number = score[call[k].on]
                        /\ call[k].vote = vote[<<call[k].by, call[k].on>>]
Deciding(k) ==
  MayRun(k, "resolve") =>
    /\ call[k].on \in Reports /\ report[call[k].on].status # "ABSENT"
    /\ call[k].columns = {<<"status", call[k].on>>, <<"removed", report[call[k].on].target>>}
    /\ call[k].fresh => Open(call[k].on)
    /\ call[k].fresh /\ call[k].number = 0 => report[call[k].on].target \notin removed
Locking(k) == MayRun(k, "lock") => call[k].on \in Threads
Aware(k) == Commenting(k) /\ Voting(k) /\ Deciding(k) /\ Locking(k)

\* The votes on a post; the comments of a thread, and those that its author was told of.
VotesOn(x) == [u \in Members |-> vote[<<u, x>>].value]
CommentsIn(d) == {c \in Comments : thread[c] = d}
ByOthersIn(d) == {c \in CommentsIn(d) : author[c] # author[d]}

Scored == \A x \in Posts : <<"score", x>> \notin torn => score[x] = SumOf(VotesOn(x), Members)
Counted ==
  \A d \in Threads : /\ <<"count", d>> \notin torn => count[d] = Cardinality(CommentsIn(d))
                     /\ replied[d] = Cardinality(ByOthersIn(d))

CommunityInv ==
  /\ CommunityKept /\ Placed /\ \A k \in Calls : Aware(k)
  /\ Scored /\ Counted /\ RemovalIsToldOnce

\* The ids of different things are different, and none is NoPost.
LEMMA IdsDiffer ==
  /\ Threads \subseteq Posts /\ Comments \subseteq Posts /\ Posts = Threads \union Comments
  /\ NoPost \notin Posts /\ NoPost \notin Threads /\ NoMember \notin Members
  /\ \A c \in Comments : c \notin Threads
  /\ IsFiniteSet(Members) /\ IsFiniteSet(Comments)
BY CommunityAssumption DEF Posts, NoPost

\* A step that touches nothing that a call knows leaves the call aware.
LEMMA AwareStays ==
  ASSUME NEW k \in Calls, Aware(k), call'[k] = call[k],
         UNCHANGED <<author, count, score, vote, report, removed>>
  PROVE  Aware(k)'
BY DEF Aware, Commenting, Voting, Deciding, Locking, MayRun, Exists, Open

\* The SELECTs of a call change nothing but what the call knows.
LEMMA ReadsAlone ==
  ASSUME CommunityInv, NEW k \in Calls, NEW what \in CallRows, Read(k, what), Aware(k)'
  PROVE  CommunityInv'
<1>1. /\ call' = [call EXCEPT ![k] = what]
      /\ UNCHANGED <<author, thread, score, count, locked, removed, replied, told, unread, vote,
                     report, torn>>
  BY DEF Read, postVars, noticeVars
<1>2. /\ call' \in [Calls -> CallRows] /\ call'[k] = what
      /\ \A j \in Calls \ {k} : call'[j] = call[j]
  BY <1>1 DEF CommunityInv, CommunityKept
<1>3. CommunityKept'
  BY <1>1, <1>2 DEF CommunityInv, CommunityKept
<1>4. Placed'
  BY <1>1 DEF CommunityInv, Placed, Exists
<1>5. \A j \in Calls : Aware(j)'
  BY <1>1, <1>2, AwareStays DEF CommunityInv
<1>6. \A x : VotesOn(x)' = VotesOn(x) /\ CommentsIn(x)' = CommentsIn(x) /\
        ByOthersIn(x)' = ByOthersIn(x)
  BY <1>1 DEF VotesOn, CommentsIn, ByOthersIn
<1>7. Scored' /\ Counted'
  BY <1>1, <1>6 DEF CommunityInv, Scored, Counted
<1>8. RemovalIsToldOnce'
  BY <1>1 DEF CommunityInv, RemovalIsToldOnce
<1>9. QED
  BY <1>3, <1>4, <1>5, <1>7, <1>8 DEF CommunityInv

\* A handler reads what it will decide on.
LEMMA BeginStep ==
  ASSUME CommunityInv, NEW k \in Calls,
         BeginComment(k) \/ BeginVote(k) \/ BeginResolve(k) \/ BeginLock(k)
  PROVE  CommunityInv'
<1> USE IdsDiffer
<1>1. CommunityKept /\ Placed
  BY DEF CommunityInv
<1>2. NoVote \in VoteRows /\ NewCall \in CallRows
  BY DEF NewCall, NoVote, VoteRows, CallRows, Kinds, NoCall
<1>3. CASE BeginComment(k)
  <2>1. PICK u \in Members, d \in Threads :
          /\ Exists(d)
          /\ Read(k, [NewCall EXCEPT !.at = "read", !.kind = "comment", !.by = u, !.on = d,
                                     !.number = count[d], !.columns = {<<"count", d>>}])
    BY <1>3 DEF BeginComment
  <2>2. PICK what : what = [NewCall EXCEPT !.at = "read", !.kind = "comment", !.by = u, !.on = d,
                                     !.number = count[d], !.columns = {<<"count", d>>}]
    OBVIOUS
  <2>3. /\ what.at = "read" /\ what.kind = "comment" /\ what.by = u /\ what.on = d
        /\ what.number = count[d] /\ what.columns = {<<"count", d>>}
    BY <2>2 DEF NewCall
  <2>4. what \in CallRows
    <3>1. count[d] \in Int /\ {<<"count", d>>} \in SUBSET Columns
      BY <1>1 DEF CommunityKept, Columns
    <3>2. QED
      BY <1>2, <2>2, <3>1 DEF CallRows, Kinds
  <2>5. Read(k, what)
    BY <2>1, <2>2
  <2>6. call'[k] = what /\ UNCHANGED <<author, count>>
    BY <1>1, <2>4, <2>5 DEF Read, CommunityKept, postVars
  <2>7. Aware(k)'
    <3>1. count[d] \in Nat
      BY <1>1 DEF CommunityKept
    <3>2. QED
      BY <2>1, <2>3, <2>6, <3>1
      DEF Aware, Commenting, Voting, Deciding, Locking, MayRun, Exists
  <2>8. QED
    BY <2>4, <2>5, <2>7, ReadsAlone
<1>4. CASE BeginVote(k)
  <2>1. PICK u \in Members, x \in Posts, v \in {-1, 0, 1}, kind \in {"vote", "unvote"} :
          Read(k, [NewCall EXCEPT !.at = "read", !.kind = kind, !.by = u, !.on = x, !.value = v,
                     !.vote = vote[u, x], !.number = score[x], !.columns = {<<"score", x>>}])
    BY <1>4, ZenonT(60) DEF BeginVote
  <2>2. PICK what :
          what = [NewCall EXCEPT !.at = "read", !.kind = kind, !.by = u, !.on = x, !.value = v,
                     !.vote = vote[u, x], !.number = score[x], !.columns = {<<"score", x>>}]
    OBVIOUS
  <2>3. /\ what.at = "read" /\ what.kind = kind /\ what.by = u /\ what.on = x
        /\ what.number = score[x] /\ what.columns = {<<"score", x>>} /\ what.vote = vote[<<u, x>>]
    BY <2>2, ZenonT(60) DEF NewCall
  <2>4. what \in CallRows
    <3>1. score[x] \in Int /\ {<<"score", x>>} \in SUBSET Columns
      BY <1>1, SMTT(30) DEF CommunityKept, Columns
    <3>2. vote[u, x] \in VoteRows
      BY <1>1, ZenonT(60) DEF CommunityKept
    <3>3. QED
      BY <1>2, <2>2, <3>1, <3>2 DEF CallRows, Kinds
  <2>5. Read(k, what)
    BY <2>1, <2>2
  <2>6. call'[k] = what /\ UNCHANGED <<vote, score>>
    BY <1>1, <2>4, <2>5 DEF Read, CommunityKept, postVars
  <2>7. Aware(k)'
    BY <2>1, <2>3, <2>6 DEF Aware, Commenting, Voting, Deciding, Locking, MayRun
  <2>8. QED
    BY <2>4, <2>5, <2>7, ReadsAlone
<1>5. CASE BeginResolve(k)
  <2>1. PICK u \in Moderators, p \in Reports, v \in {0, 1} :
          /\ Open(p)
          /\ Read(k, [NewCall EXCEPT !.at = "read", !.kind = "resolve", !.by = u, !.on = p,
                        !.value = v, !.number = IF report[p].target \in removed THEN 1 ELSE 0,
                        !.columns = {<<"status", p>>, <<"removed", report[p].target>>}])
    BY <1>5 DEF BeginResolve
  <2>2. PICK x, n : x = report[p].target /\ n = IF x \in removed THEN 1 ELSE 0
    OBVIOUS
  <2>3. PICK what :
          what = [NewCall EXCEPT !.at = "read", !.kind = "resolve", !.by = u, !.on = p,
                        !.value = v, !.number = n,
                        !.columns = {<<"status", p>>, <<"removed", x>>}]
    OBVIOUS
  <2>4. /\ what.at = "read" /\ what.kind = "resolve" /\ what.on = p /\ what.number = n
        /\ what.columns = {<<"status", p>>, <<"removed", x>>}
    BY <2>3 DEF NewCall
  <2>5. what \in CallRows
    <3>1. x \in Posts /\ n \in Int /\ u \in Members
      BY <1>1, <2>1, <2>2, CommunityAssumption DEF Open, Placed
    <3>2. {<<"status", p>>, <<"removed", x>>} \in SUBSET Columns
      BY <3>1 DEF Columns
    <3>3. QED
      BY <1>2, <2>3, <3>1, <3>2 DEF CallRows, Kinds
  <2>6. Read(k, what)
    BY <2>1, <2>2, <2>3
  <2>7. call'[k] = what /\ UNCHANGED <<report, removed>>
    BY <1>1, <2>5, <2>6 DEF Read, CommunityKept, postVars
  <2>8. Aware(k)'
    BY <2>1, <2>2, <2>4, <2>7 DEF Aware, Commenting, Voting, Deciding, Locking, MayRun, Open
  <2>9. QED
    BY <2>5, <2>6, <2>8, ReadsAlone
<1>6. CASE BeginLock(k)
  <2>1. PICK u \in Moderators, d \in Threads, v \in {0, 1}, n \in {0, 1} :
          Read(k, [NewCall EXCEPT !.at = "read", !.kind = "lock", !.by = u, !.on = d, !.value = v,
                     !.number = n, !.columns = {<<"locked", d>>}])
    BY <1>6 DEF BeginLock
  <2>2. PICK what :
          what = [NewCall EXCEPT !.at = "read", !.kind = "lock", !.by = u, !.on = d, !.value = v,
                     !.number = n, !.columns = {<<"locked", d>>}]
    OBVIOUS
  <2>3. what.at = "read" /\ what.kind = "lock" /\ what.on = d
    BY <2>2 DEF NewCall
  <2>4. what \in CallRows
    <3>1. {<<"locked", d>>} \in SUBSET Columns /\ u \in Members /\ d \in Posts /\ n \in Int
      BY CommunityAssumption DEF Columns
    <3>2. QED
      BY <1>2, <2>2, <3>1 DEF CallRows, Kinds
  <2>5. Read(k, what)
    BY <2>1, <2>2
  <2>6. call'[k] = what
    BY <1>1, <2>4, <2>5 DEF Read, CommunityKept
  <2>7. Aware(k)'
    BY <2>3, <2>6 DEF Aware, Commenting, Voting, Deciding, Locking, MayRun
  <2>8. QED
    BY <2>4, <2>5, <2>7, ReadsAlone
<1>7. QED
  BY <1>3, <1>4, <1>5, <1>6

\* What the end of a call makes of the calls: those that had read what it wrote are outdated,
\* and what it wrote after an outdated read is torn.
LEMMA Finished ==
  ASSUME CommunityKept, NEW k \in Calls, NEW w \in SUBSET Columns, Finish(k, w)
  PROVE  /\ call' \in [Calls -> CallRows] /\ call'[k].at = "done"
         /\ torn' \in SUBSET Columns /\ torn \subseteq torn' /\ (call[k].fresh \/ w \subseteq torn')
         /\ torn' \subseteq torn \union w
         /\ \A j \in Calls \ {k} :
              /\ call'[j].at = call[j].at /\ call'[j].kind = call[j].kind
              /\ call'[j].by = call[j].by /\ call'[j].on = call[j].on
              /\ call'[j].vote = call[j].vote /\ call'[j].number = call[j].number
              /\ call'[j].columns = call[j].columns
              /\ call'[j].fresh => call[j].fresh
              /\ call'[j].fresh /\ call[j].at = "read" => call[j].columns \cap w = {}
<1>1. call \in [Calls -> CallRows] /\ torn \in SUBSET Columns
  BY DEF CommunityKept
<1>2. PICK over : over = [NewCall EXCEPT !.at = "done"]
  OBVIOUS
<1>3. over \in CallRows /\ over.at = "done"
  <2>1. NewCall \in CallRows
    BY IdsDiffer DEF NewCall, NoVote, VoteRows, CallRows, Kinds, NoCall
  <2>2. QED
    BY <1>2, <2>1 DEF CallRows
<1>4. /\ call' = [j \in Calls |->
           IF j = k THEN over
           ELSE IF call[j].at = "read" /\ call[j].columns \cap w # {}
                THEN [call[j] EXCEPT !.fresh = FALSE] ELSE call[j]]
      /\ torn' = IF call[k].fresh THEN torn ELSE torn \union w
  BY <1>2 DEF Finish
<1>5. ASSUME NEW j \in Calls \ {k}
      PROVE  /\ call'[j] \in CallRows
             /\ call'[j].at = call[j].at /\ call'[j].kind = call[j].kind
             /\ call'[j].by = call[j].by /\ call'[j].on = call[j].on
             /\ call'[j].vote = call[j].vote /\ call'[j].number = call[j].number
             /\ call'[j].columns = call[j].columns
             /\ call'[j].fresh => call[j].fresh
             /\ call'[j].fresh /\ call[j].at = "read" => call[j].columns \cap w = {}
  <2>1. PICK stale : stale = [call[j] EXCEPT !.fresh = FALSE]
    OBVIOUS
  <2>2. call[j] \in CallRows
    BY <1>1
  <2>3. /\ stale \in CallRows /\ stale.at = call[j].at /\ stale.kind = call[j].kind
        /\ stale.by = call[j].by /\ stale.on = call[j].on /\ stale.vote = call[j].vote
        /\ stale.number = call[j].number /\ stale.columns = call[j].columns /\ ~stale.fresh
    BY <2>1, <2>2 DEF CallRows
  <2>4. call'[j] = IF call[j].at = "read" /\ call[j].columns \cap w # {} THEN stale ELSE call[j]
    BY <1>4, <2>1
  <2>5. QED
    BY <2>2, <2>3, <2>4
<1>6. call'[k] = over /\ call' \in [Calls -> CallRows]
  BY <1>3, <1>4, <1>5
<1>7. QED
  BY <1>1, <1>3, <1>4, <1>5, <1>6

\* What a call that writes the columns w may do to what the others know.
Writes(w) ==
  /\ \A x \in Posts : Exists(x) => Exists(x)'
  /\ \A d \in Threads : <<"count", d>> \notin w => count'[d] = count[d]
  /\ \A x \in Posts : <<"score", x>> \notin w =>
       score'[x] = score[x] /\ \A u \in Members : vote'[<<u, x>>] = vote[<<u, x>>]
  /\ \A x \in Posts : <<"removed", x>> \notin w => (x \in removed' <=> x \in removed)
  /\ \A p \in Reports : report[p].status # "ABSENT" =>
       /\ report'[p].status # "ABSENT" /\ report'[p].target = report[p].target
       /\ <<"status", p>> \notin w => report'[p] = report[p]

\* The others know no more than is true.
LEMMA OthersAware ==
  ASSUME CommunityKept, Placed, \A j \in Calls : Aware(j), NEW k \in Calls,
         NEW w \in SUBSET Columns, Finish(k, w), Writes(w)
  PROVE  \A j \in Calls : Aware(j)'
<1>1. call'[k].at = "done"
  BY Finished
<1>2. Aware(k)'
  BY <1>1 DEF Aware, Commenting, Voting, Deciding, Locking, MayRun
<1>3. SUFFICES ASSUME NEW j \in Calls \ {k} PROVE Aware(j)'
  BY <1>2
<1>4. /\ call'[j].at = call[j].at /\ call'[j].kind = call[j].kind
      /\ call'[j].by = call[j].by /\ call'[j].on = call[j].on
      /\ call'[j].vote = call[j].vote /\ call'[j].number = call[j].number
      /\ call'[j].columns = call[j].columns
      /\ call'[j].fresh => call[j].fresh
      /\ call'[j].fresh /\ call[j].at = "read" => call[j].columns \cap w = {}
  BY Finished
<1>5. Aware(j)
  OBVIOUS
<1>6. Commenting(j)'
  <2> SUFFICES ASSUME MayRun(j, "comment")' PROVE Commenting(j)'
    BY DEF Commenting
  <2>1. MayRun(j, "comment") /\ call[j].at = "read"
    BY <1>4 DEF MayRun
  <2>2. /\ call[j].on \in Threads /\ call[j].by \in Members /\ Exists(call[j].on)
        /\ call[j].columns = {<<"count", call[j].on>>} /\ call[j].number \in Nat
        /\ call[j].fresh => call[j].number = count[call[j].on]
    BY <1>5, <2>1 DEF Aware, Commenting
  <2>3. call'[j].fresh => count'[call[j].on] = count[call[j].on]
    BY <1>4, <2>1, <2>2 DEF Writes
  <2>4. PICK d : d = call[j].on
    OBVIOUS
  <2>5. Exists(d)'
    BY <2>2, <2>4, IdsDiffer DEF Writes
  <2>6. QED
    BY <1>4, <2>2, <2>3, <2>4, <2>5 DEF Commenting, Exists
<1>7. Voting(j)'
  <2> SUFFICES ASSUME MayRun(j, "vote")' \/ MayRun(j, "unvote")' PROVE Voting(j)'
    BY DEF Voting
  <2>1. (MayRun(j, "vote") \/ MayRun(j, "unvote")) /\ call[j].at = "read"
    BY <1>4 DEF MayRun
  <2>2. /\ call[j].on \in Posts /\ call[j].by \in Members
        /\ call[j].columns = {<<"score", call[j].on>>}
        /\ call[j].fresh => /\ call[j].number = score[call[j].on]
                            /\ call[j].vote = vote[<<call[j].by, call[j].on>>]
    BY <1>5, <2>1 DEF Aware, Voting
  <2>3. call'[j].fresh => /\ score'[call[j].on] = score[call[j].on]
                          /\ vote'[<<call[j].by, call[j].on>>] = vote[<<call[j].by, call[j].on>>]
    BY <1>4, <2>1, <2>2 DEF Writes
  <2>4. QED
    BY <1>4, <2>2, <2>3 DEF Voting
<1>8. Deciding(j)'
  <2> SUFFICES ASSUME MayRun(j, "resolve")' PROVE Deciding(j)'
    BY DEF Deciding
  <2>1. MayRun(j, "resolve") /\ call[j].at = "read"
    BY <1>4 DEF MayRun
  <2>2. PICK p, x : p = call[j].on /\ x = report[p].target
    OBVIOUS
  <2>3. /\ p \in Reports /\ report[p].status # "ABSENT"
        /\ call[j].columns = {<<"status", p>>, <<"removed", x>>}
        /\ call[j].fresh => report[p].status = "OPEN"
        /\ call[j].fresh /\ call[j].number = 0 => x \notin removed
    BY <1>5, <2>1, <2>2 DEF Aware, Deciding, Open
  <2>4. x \in Posts /\ report'[p].status # "ABSENT" /\ report'[p].target = x
    BY <2>2, <2>3 DEF Writes, Placed
  <2>5. call'[j].fresh => <<"status", p>> \notin w /\ <<"removed", x>> \notin w
    BY <1>4, <2>1, <2>3
  <2>6. call'[j].fresh => report'[p] = report[p] /\ (x \in removed' <=> x \in removed)
    BY <2>3, <2>4, <2>5 DEF Writes
  <2>7. QED
    BY <1>4, <2>2, <2>3, <2>4, <2>6 DEF Deciding, Open
<1>9. Locking(j)'
  BY <1>4, <1>5 DEF Aware, Locking, MayRun
<1>10. QED
  BY <1>6, <1>7, <1>8, <1>9 DEF Aware

\* A thread is started, or a post is reported.
LEMMA CreateStep ==
  ASSUME CommunityInv, NEW k \in Calls, CreateDiscussion(k) \/ CreateReport(k)
  PROVE  CommunityInv'
<1> USE IdsDiffer
<1>1. /\ CommunityKept /\ Placed /\ Counted /\ Scored /\ RemovalIsToldOnce /\ Finish(k, {})
      /\ UNCHANGED <<thread, vote, score, count, locked, removed, replied, told, unread>>
  BY DEF CommunityInv, CreateDiscussion, CreateReport, noticeVars, postVars
<1>2. /\ call' \in [Calls -> CallRows] /\ torn' = torn
  <2>1. {} \in SUBSET Columns
    OBVIOUS
  <2>2. call' \in [Calls -> CallRows] /\ torn \subseteq torn' /\ torn' \subseteq torn \union {}
    BY <1>1, <2>1, Finished
  <2>3. QED
    BY <2>2
<1>3. /\ author' \in [Posts -> Members \union {NoMember}]
      /\ \A x \in Posts : author[x] # NoMember => author'[x] = author[x]
      /\ \A c \in Comments : author'[c] = author[c]
      /\ report' \in [Reports -> ReportRows]
      /\ \A p \in Reports : \/ report'[p] = report[p]
                            \/ report[p].status = "ABSENT" /\ report'[p].target \in Posts
  <2>1. CASE CreateDiscussion(k)
    <3>1. PICK u \in Members, d \in Threads :
            ~Exists(d) /\ author' = [author EXCEPT ![d] = u] /\ UNCHANGED report
      BY <2>1 DEF CreateDiscussion, NextThread, Least
    <3>2. author \in [Posts -> Members \union {NoMember}]
      BY <1>1 DEF CommunityKept
    <3>3. QED
      BY <1>1, <3>1, <3>2 DEF Exists, CommunityKept
  <2>2. CASE CreateReport(k)
    <3>1. PICK p \in Reports, x \in Posts :
            /\ report[p].status = "ABSENT" /\ UNCHANGED author
            /\ report' = [report EXCEPT ![p] = [status |-> "OPEN", target |-> x]]
      BY <2>2 DEF CreateReport, NextReport, Least, postVars
    <3>2. PICK row : row = [status |-> "OPEN", target |-> x]
      OBVIOUS
    <3>3. row \in ReportRows /\ row.target = x
      BY <3>2 DEF ReportRows
    <3>4. report' = [report EXCEPT ![p] = row] /\ report \in [Reports -> ReportRows]
      BY <1>1, <3>1, <3>2 DEF CommunityKept
    <3>5. QED
      BY <1>1, <3>1, <3>3, <3>4 DEF CommunityKept
  <2>3. QED
    BY <2>1, <2>2
<1>4. CommunityKept'
  BY <1>1, <1>2, <1>3 DEF CommunityKept
<1>5. Placed'
  <2>1. ASSUME NEW c \in Comments
        PROVE  (Exists(c)' <=> thread'[c] # NoPost) /\ (Exists(c)' => Exists(thread[c])')
    <3>1. /\ thread[c] \in Threads \union {NoPost} /\ c \in Posts
          /\ (Exists(c) <=> thread[c] # NoPost) /\ (Exists(c) => Exists(thread[c]))
      BY <1>1 DEF CommunityKept, Placed
    <3>2. QED
      BY <1>1, <1>3, <3>1 DEF Exists, Placed
  <2>2. \A p \in Reports : report'[p].status # "ABSENT" => report'[p].target \in Posts
    BY <1>1, <1>3 DEF Placed
  <2>3. QED
    BY <1>1, <2>1, <2>2 DEF Placed, Exists
<1>6. Writes({})
  <2>1. \A x \in Posts : Exists(x) => Exists(x)'
    BY <1>3 DEF Exists
  <2>2. \A p \in Reports : report[p].status # "ABSENT" => report'[p] = report[p]
    BY <1>3
  <2>3. QED
    BY <1>1, <2>1, <2>2 DEF Writes
<1>7. \A j \in Calls : Aware(j)'
  BY <1>1, <1>6, OthersAware DEF CommunityInv
<1>8. \A x : VotesOn(x)' = VotesOn(x) /\ CommentsIn(x)' = CommentsIn(x)
  BY <1>1 DEF VotesOn, CommentsIn
<1>9. \A d \in Threads : ByOthersIn(d)' = ByOthersIn(d)
  <2>1. ASSUME NEW d \in Threads, NEW c \in CommentsIn(d)
        PROVE  author'[c] = author[c] /\ author'[d] = author[d]
    BY <1>1, <1>3, <2>1 DEF CommentsIn, Placed, Exists
  <2>2. QED
    BY <1>8, <2>1 DEF ByOthersIn
<1>10. Scored' /\ Counted'
  BY <1>1, <1>2, <1>8, <1>9 DEF Scored, Counted
<1>11. RemovalIsToldOnce'
  BY <1>1, <1>2 DEF RemovalIsToldOnce
<1>12. QED
  BY <1>4, <1>5, <1>7, <1>10, <1>11 DEF CommunityInv

\* What no step of the tallies touches stays as it is counted.
LEMMA TalliesStay ==
  ASSUME Scored, Counted, UNCHANGED <<author, thread, score, count, replied, vote>>,
         torn \subseteq torn'
  PROVE  Scored' /\ Counted'
<1>1. \A x : VotesOn(x)' = VotesOn(x) /\ CommentsIn(x)' = CommentsIn(x) /\
        ByOthersIn(x)' = ByOthersIn(x)
  BY DEF VotesOn, CommentsIn, ByOthersIn
<1>2. QED
  BY <1>1 DEF Scored, Counted

\* A call that changes nothing: the vote is as asked, or the database refuses it.
LEMMA VoidStep ==
  ASSUME CommunityInv, NEW k \in Calls, VoteFails(k) \/ VoteUnchanged(k)
  PROVE  CommunityInv'
<1>1. /\ CommunityKept /\ Placed /\ Finish(k, {}) /\ {} \in SUBSET Columns
      /\ UNCHANGED <<author, thread, vote, score, count, locked, removed, replied, told, unread,
                     report>>
  BY DEF CommunityInv, VoteFails, VoteUnchanged, noticeVars, postVars
<1>2. call' \in [Calls -> CallRows] /\ torn' \in SUBSET Columns /\ torn \subseteq torn'
  BY <1>1, Finished
<1>3. CommunityKept' /\ Placed'
  BY <1>1, <1>2 DEF CommunityKept, Placed, Exists
<1>4. Writes({})
  BY <1>1 DEF Writes, Exists
<1>5. \A j \in Calls : Aware(j)'
  BY <1>1, <1>4, OthersAware DEF CommunityInv
<1>6. Scored' /\ Counted'
  BY <1>1, <1>2, TalliesStay DEF CommunityInv
<1>7. RemovalIsToldOnce'
  BY <1>1, <1>2 DEF CommunityInv, RemovalIsToldOnce
<1>8. QED
  BY <1>3, <1>5, <1>6, <1>7 DEF CommunityInv

\* A thread is locked or opened.
LEMMA LockStep ==
  ASSUME CommunityInv, NEW k \in Calls, SetLocked(k)
  PROVE  CommunityInv'
<1>1. PICK w : /\ w \in {{}, {<<"locked", call[k].on>>}} /\ Finish(k, w)
  BY DEF SetLocked
<1>2. /\ CommunityKept /\ Placed /\ call[k].on \in Threads
      /\ UNCHANGED <<author, thread, vote, score, count, removed, replied, told, unread, report>>
      /\ locked' \in {locked, locked \union {call[k].on}, locked \ {call[k].on}}
  BY DEF CommunityInv, Aware, Locking, SetLocked, noticeVars
<1>3. w \in SUBSET Columns
  BY <1>1, <1>2 DEF Columns
<1>4. call' \in [Calls -> CallRows] /\ torn' \in SUBSET Columns /\ torn \subseteq torn'
  BY <1>1, <1>2, <1>3, Finished
<1>5. locked' \in SUBSET Threads
  BY <1>2 DEF CommunityKept
<1>6. CommunityKept' /\ Placed'
  BY <1>2, <1>4, <1>5 DEF CommunityKept, Placed, Exists
<1>7. Writes(w)
  BY <1>2 DEF Writes, Exists
<1>8. \A j \in Calls : Aware(j)'
  BY <1>1, <1>2, <1>3, <1>7, OthersAware DEF CommunityInv
<1>9. Scored' /\ Counted'
  BY <1>2, <1>4, TalliesStay DEF CommunityInv
<1>10. RemovalIsToldOnce'
  BY <1>2, <1>4 DEF CommunityInv, RemovalIsToldOnce
<1>11. QED
  BY <1>6, <1>8, <1>9, <1>10 DEF CommunityInv

\* A moderator decides a report: the author of a post that goes is told.
LEMMA ResolveStep ==
  ASSUME CommunityInv, NEW k \in Calls, ResolveReport(k)
  PROVE  CommunityInv'
<1> USE IdsDiffer
<1>1. PICK p, x : p = call[k].on /\ x = report[p].target
  OBVIOUS
<1>2. /\ CommunityKept /\ Placed /\ RemovalIsToldOnce
      /\ p \in Reports /\ report[p].status # "ABSENT" /\ x \in Posts
      /\ call[k].fresh => report[p].status = "OPEN"
      /\ call[k].fresh /\ call[k].number = 0 => x \notin removed
      /\ UNCHANGED <<author, thread, score, count, locked, replied, vote>>
  BY <1>1 DEF CommunityInv, Aware, Deciding, Placed, Open, ResolveReport
<1>3. /\ report' \in [Reports -> ReportRows]
      /\ report'[p].status \in {"RESOLVED", "DISMISSED"} /\ report'[p].target = x
      /\ \A q \in Reports \ {p} : report'[q] = report[q]
  <2>1. PICK status \in {"RESOLVED", "DISMISSED"} : report' = [report EXCEPT ![p].status = status]
    BY <1>1 DEF ResolveReport
  <2>2. PICK row : row = [report[p] EXCEPT !.status = status]
    OBVIOUS
  <2>3. report \in [Reports -> ReportRows]
    BY <1>2 DEF CommunityKept
  <2>4. row \in ReportRows /\ row.status = status /\ row.target = x
    BY <1>1, <1>2, <2>2, <2>3 DEF ReportRows
  <2>5. report' = [report EXCEPT ![p] = row]
    BY <2>1, <2>2
  <2>6. QED
    BY <1>2, <2>3, <2>4, <2>5
<1>4. PICK w : /\ w \in {{<<"status", p>>}, {<<"status", p>>, <<"removed", x>>}} /\ Finish(k, w)
               /\ \/ /\ w = {<<"status", p>>, <<"removed", x>>} /\ call[k].number = 0
                     /\ removed' = removed \union {x} /\ told' = [told EXCEPT ![x] = @ + 1]
                     /\ unread' = ToldOf(author[x])
                  \/ UNCHANGED <<removed, told, unread>>
  BY <1>1 DEF ResolveReport
<1>5. w \in SUBSET Columns
  BY <1>2, <1>4 DEF Columns
<1>6. /\ call' \in [Calls -> CallRows] /\ torn' \in SUBSET Columns /\ torn \subseteq torn'
      /\ call[k].fresh \/ w \subseteq torn'
  BY <1>2, <1>4, <1>5, Finished
<1>7. removed' \in SUBSET Posts /\ told' \in [Posts -> Nat] /\ unread' \in [Members -> Nat]
  BY <1>2, <1>4 DEF CommunityKept, ToldOf
<1>8. CommunityKept'
  BY <1>2, <1>3, <1>6, <1>7 DEF CommunityKept
<1>9. Placed'
  <2>1. \A q \in Reports : report'[q].status # "ABSENT" => report'[q].target \in Posts
    BY <1>2, <1>3 DEF Placed
  <2>2. QED
    BY <1>2, <2>1 DEF Placed, Exists
<1>10. Writes(w)
  <2>1. \A y \in Posts : <<"removed", y>> \notin w => (y \in removed' <=> y \in removed)
    BY <1>4
  <2>2. \A q \in Reports : report[q].status # "ABSENT" =>
          /\ report'[q].status # "ABSENT" /\ report'[q].target = report[q].target
          /\ <<"status", q>> \notin w => report'[q] = report[q]
    BY <1>1, <1>3, <1>4
  <2>3. QED
    BY <1>2, <2>1, <2>2 DEF Writes, Exists
<1>11. \A j \in Calls : Aware(j)'
  BY <1>2, <1>4, <1>5, <1>10, OthersAware DEF CommunityInv
<1>12. Scored' /\ Counted'
  BY <1>2, <1>6, TalliesStay DEF CommunityInv
<1>13. RemovalIsToldOnce'
  <2>1. CASE UNCHANGED <<removed, told, unread>>
    BY <1>2, <1>6, <2>1 DEF RemovalIsToldOnce
  <2>2. CASE /\ w = {<<"status", p>>, <<"removed", x>>} /\ call[k].number = 0
             /\ removed' = removed \union {x} /\ told' = [told EXCEPT ![x] = @ + 1]
    <3>1. told \in [Posts -> Nat]
      BY <1>2 DEF CommunityKept
    <3>2. told'[x] = told[x] + 1 /\ told[x] \in Nat /\ \A y \in Posts \ {x} : told'[y] = told[y]
      BY <1>2, <2>2, <3>1
    <3>3. <<"removed", x>> \notin torn' => told[x] = 0
      BY <1>2, <1>6, <2>2, <3>2 DEF RemovalIsToldOnce
    <3>4. (x \in removed' <=> told'[x] > 0) /\ (<<"removed", x>> \notin torn' => told'[x] <= 1)
      BY <2>2, <3>2, <3>3
    <3>5. ASSUME NEW y \in Posts \ {x}
          PROVE  (y \in removed' <=> told'[y] > 0) /\ (<<"removed", y>> \notin torn' =>
                   told'[y] <= 1)
      BY <1>2, <1>6, <2>2, <3>2 DEF RemovalIsToldOnce
    <3>6. QED
      BY <3>4, <3>5 DEF RemovalIsToldOnce
  <2>3. QED
    BY <1>4, <2>1, <2>2
<1>14. QED
  BY <1>8, <1>9, <1>11, <1>12, <1>13 DEF CommunityInv

\* A comment is added with its counter and its notice.
LEMMA CommentStep ==
  ASSUME CommunityInv, NEW k \in Calls, AddComment(k)
  PROVE  CommunityInv'
<1> USE IdsDiffer
<1>1. PICK d, u, w : d = call[k].on /\ u = call[k].by /\ w = {<<"count", d>>}
  OBVIOUS
<1>2. /\ CommunityKept /\ Placed /\ Scored /\ Counted /\ RemovalIsToldOnce
      /\ d \in Threads /\ u \in Members /\ Exists(d) /\ author[d] # NoMember
      /\ call[k].number \in Nat /\ (call[k].fresh => call[k].number = count[d])
      /\ Finish(k, w) /\ count' = [count EXCEPT ![d] = call[k].number + 1]
      /\ UNCHANGED <<score, locked, removed, told, vote, report>>
  BY <1>1 DEF CommunityInv, Aware, Commenting, AddComment, Exists
<1>3. PICK c \in Comments : /\ author[c] = NoMember /\ author' = [author EXCEPT ![c] = u]
                            /\ thread' = [thread EXCEPT ![c] = d]
  BY <1>1 DEF AddComment, NextComment, Least, Exists
<1>4. IF author[d] # u THEN replied' = [replied EXCEPT ![d] = @ + 1] /\ unread' = ToldOf(author[d])
      ELSE UNCHANGED <<replied, unread>>
  BY <1>1 DEF AddComment
<1>5. w \in SUBSET Columns
  BY <1>1, <1>2 DEF Columns
<1>6. /\ call' \in [Calls -> CallRows] /\ torn' \in SUBSET Columns /\ torn \subseteq torn'
      /\ call[k].fresh \/ w \subseteq torn'
  BY <1>2, <1>5, Finished
<1>7. /\ author' \in [Posts -> Members \union {NoMember}] /\ author'[c] = u
      /\ \A x \in Posts \ {c} : author'[x] = author[x]
      /\ thread' \in [Comments -> Threads \union {NoPost}] /\ thread'[c] = d
      /\ \A b \in Comments \ {c} : thread'[b] = thread[b]
  BY <1>2, <1>3 DEF CommunityKept
<1>8. thread[c] = NoPost /\ c # d
  BY <1>2, <1>3 DEF Placed, Exists
<1>9. /\ count' \in [Threads -> Nat] /\ count'[d] = call[k].number + 1
      /\ \A e \in Threads \ {d} : count'[e] = count[e]
      /\ replied' \in [Threads -> Nat] /\ unread' \in [Members -> Nat]
      /\ replied'[d] = IF author[d] # u THEN replied[d] + 1 ELSE replied[d]
      /\ \A e \in Threads \ {d} : replied'[e] = replied[e]
  BY <1>2, <1>4 DEF CommunityKept, ToldOf
<1>10. CommunityKept'
  BY <1>2, <1>6, <1>7, <1>9 DEF CommunityKept
<1>11. Placed'
  <2>1. ASSUME NEW b \in Comments
        PROVE  (Exists(b)' <=> thread'[b] # NoPost) /\ (Exists(b)' => Exists(thread[b])')
    <3>1. CASE b = c
      BY <1>2, <1>7, <1>8, <3>1 DEF Exists
    <3>2. CASE b # c
      <4>1. /\ thread[b] \in Threads \union {NoPost} /\ b \in Posts
            /\ (Exists(b) <=> thread[b] # NoPost) /\ (Exists(b) => Exists(thread[b]))
        BY <1>2 DEF CommunityKept, Placed
      <4>2. QED
        BY <1>7, <3>2, <4>1 DEF Exists
    <3>3. QED
      BY <3>1, <3>2
  <2>2. QED
    BY <1>2, <2>1 DEF Placed, Exists
<1>12. Writes(w)
  BY <1>1, <1>2, <1>3, <1>7, <1>9 DEF Writes, Exists
<1>13. \A j \in Calls : Aware(j)'
  BY <1>2, <1>5, <1>12, OthersAware DEF CommunityInv
<1>14. Scored'
  <2>1. \A x : VotesOn(x)' = VotesOn(x)
    BY <1>2 DEF VotesOn
  <2>2. QED
    BY <1>2, <1>6, <2>1 DEF Scored
<1>15. ASSUME NEW e \in Threads
       PROVE  /\ <<"count", e>> \notin torn' => count'[e] = Cardinality(CommentsIn(e)')
              /\ replied'[e] = Cardinality(ByOthersIn(e)')
  <2>1. CommentsIn(e)' = IF e = d THEN CommentsIn(e) \union {c} ELSE CommentsIn(e)
    BY <1>7, <1>8 DEF CommentsIn
  <2>2. /\ IsFiniteSet(CommentsIn(e)) /\ IsFiniteSet(ByOthersIn(e))
        /\ c \notin CommentsIn(e) /\ c \notin ByOthersIn(e)
    <3>1. CommentsIn(e) \in SUBSET Comments /\ ByOthersIn(e) \in SUBSET Comments
      BY DEF CommentsIn, ByOthersIn
    <3>2. QED
      BY <1>8, <3>1, FS_Subset DEF CommentsIn, ByOthersIn
  <2>3. \A b \in CommentsIn(e) : author'[b] = author[b]
    BY <1>7, <2>2 DEF CommentsIn
  <2>4. author'[e] = author[e]
    BY <1>7
  <2>5. ByOthersIn(e)' = IF e = d /\ author[d] # u THEN ByOthersIn(e) \union {c} ELSE ByOthersIn(e)
    BY <1>7, <2>1, <2>3, <2>4 DEF ByOthersIn
  <2>6. /\ Cardinality(CommentsIn(e) \union {c}) = Cardinality(CommentsIn(e)) + 1
        /\ Cardinality(ByOthersIn(e) \union {c}) = Cardinality(ByOthersIn(e)) + 1
    BY <2>2, FS_AddElement
  <2>7. /\ <<"count", e>> \notin torn => count[e] = Cardinality(CommentsIn(e))
        /\ replied[e] = Cardinality(ByOthersIn(e))
    BY <1>2 DEF Counted
  <2>8. <<"count", e>> \notin torn' => count'[e] = Cardinality(CommentsIn(e)')
    BY <1>1, <1>2, <1>6, <1>9, <2>1, <2>6, <2>7
  <2>9. QED
    BY <1>9, <2>5, <2>6, <2>7, <2>8
<1>16. Counted'
  BY <1>15 DEF Counted
<1>17. RemovalIsToldOnce'
  BY <1>2, <1>6 DEF RemovalIsToldOnce
<1>18. QED
  BY <1>10, <1>11, <1>13, <1>14, <1>16, <1>17 DEF CommunityInv

\* A vote is cast, changed or taken back: the score moves by as much as the vote.
LEMMA VoteStep ==
  ASSUME CommunityInv, NEW k \in Calls, CastVote(k) \/ RemoveVote(k)
  PROVE  CommunityInv'
<1> USE IdsDiffer
<1>1. PICK u, x, w : u = call[k].by /\ x = call[k].on /\ w = {<<"score", x>>}
  OBVIOUS
<1>2. /\ CommunityKept /\ Placed /\ Scored /\ Counted /\ RemovalIsToldOnce
      /\ u \in Members /\ x \in Posts /\ w \in SUBSET Columns /\ Finish(k, w)
      /\ call[k].fresh => call[k].number = score[x] /\ call[k].vote = vote[<<u, x>>]
      /\ UNCHANGED <<author, thread, count, locked, removed, replied, told, unread, report>>
  BY <1>1 DEF CommunityInv, Aware, Voting, MayRun, CastVote, RemoveVote, Columns, noticeVars
<1>3. /\ call' \in [Calls -> CallRows] /\ torn' \in SUBSET Columns /\ torn \subseteq torn'
      /\ call[k].fresh \/ w \subseteq torn'
  BY <1>2, Finished
<1>4. /\ call[k].number \in Int /\ call[k].value \in {-1, 0, 1} /\ call[k].vote \in VoteRows
      /\ vote \in [Members \X Posts -> VoteRows] /\ score \in [Posts -> Int]
      /\ vote[<<u, x>>] \in VoteRows
  BY <1>2 DEF CommunityKept, CallRows
<1>5. PICK n \in Int, row \in VoteRows :
        /\ vote' = [vote EXCEPT ![<<u, x>>] = row] /\ score' = [score EXCEPT ![x] = n]
        /\ call[k].fresh => n = score[x] + row.value - vote[<<u, x>>].value
  <2>1. CASE CastVote(k)
    <3>1. PICK row : row = [by |-> IF vote[<<u, x>>] = NoVote THEN k ELSE vote[<<u, x>>].by,
                            value |-> call[k].value]
      OBVIOUS
    <3>2. row \in VoteRows /\ row.value = call[k].value
      BY <1>4, <3>1 DEF VoteRows
    <3>3. PICK n : n = call[k].number + call[k].value - call[k].vote.value
      OBVIOUS
    <3>4. n \in Int /\ call[k].vote.value \in Int
      BY <1>4, <3>3 DEF VoteRows
    <3>5. vote' = [vote EXCEPT ![<<u, x>>] = row] /\ score' = [score EXCEPT ![x] = n]
      BY <1>1, <2>1, <3>1, <3>3 DEF CastVote
    <3>6. call[k].fresh => n = score[x] + row.value - vote[<<u, x>>].value
      BY <1>2, <3>2, <3>3
    <3>7. QED
      BY <3>2, <3>4, <3>5, <3>6
  <2>2. CASE RemoveVote(k)
    <3>1. PICK row : row = IF vote[<<u, x>>].by = call[k].vote.by THEN NoVote ELSE vote[<<u, x>>]
      OBVIOUS
    <3>2. NoVote \in VoteRows /\ NoVote.value = 0
      BY DEF NoVote, VoteRows, NoCall
    <3>3. row \in VoteRows
      BY <1>4, <3>1, <3>2
    <3>4. PICK n : n = call[k].number - call[k].vote.value
      OBVIOUS
    <3>5. n \in Int /\ call[k].vote.value \in Int
      BY <1>4, <3>4 DEF VoteRows
    <3>6. vote' = [vote EXCEPT ![<<u, x>>] = row] /\ score' = [score EXCEPT ![x] = n]
      BY <1>1, <1>2, <1>4, <2>2, <3>1, <3>4 DEF RemoveVote
    <3>7. call[k].fresh => n = score[x] + row.value - vote[<<u, x>>].value
      <4>1. score[x] \in Int
        BY <1>2, <1>4
      <4>2. QED
        BY <1>2, <3>1, <3>2, <3>4, <3>5, <4>1
    <3>8. QED
      BY <3>3, <3>5, <3>6, <3>7
  <2>3. QED
    BY <2>1, <2>2
<1>6. /\ vote' \in [Members \X Posts -> VoteRows] /\ vote'[<<u, x>>] = row
      /\ \A t \in Members, y \in Posts : <<t, y>> # <<u, x>> => vote'[<<t, y>>] = vote[<<t, y>>]
      /\ score' \in [Posts -> Int] /\ score'[x] = n /\ \A y \in Posts \ {x} : score'[y] = score[y]
  BY <1>2, <1>4, <1>5
<1>7. CommunityKept' /\ Placed'
  BY <1>2, <1>3, <1>6 DEF CommunityKept, Placed, Exists
<1>8. Writes(w)
  BY <1>1, <1>2, <1>6 DEF Writes, Exists
<1>9. \A j \in Calls : Aware(j)'
  BY <1>2, <1>8, OthersAware DEF CommunityInv
<1>10. Counted' /\ RemovalIsToldOnce'
  <2>1. \A d : CommentsIn(d)' = CommentsIn(d) /\ ByOthersIn(d)' = ByOthersIn(d)
    BY <1>2 DEF CommentsIn, ByOthersIn
  <2>2. QED
    BY <1>2, <1>3, <2>1 DEF Counted, RemovalIsToldOnce
<1>11. \A y \in Posts \ {x} : VotesOn(y)' = VotesOn(y)
  BY <1>6 DEF VotesOn
<1>12. <<"score", x>> \notin torn' => score'[x] = SumOf(VotesOn(x)', Members)
  <2> SUFFICES ASSUME <<"score", x>> \notin torn' PROVE score'[x] = SumOf(VotesOn(x)', Members)
    OBVIOUS
  <2>1. call[k].fresh /\ score[x] = SumOf(VotesOn(x), Members)
    BY <1>1, <1>2, <1>3 DEF Scored
  <2>2. PICK f, g : f = VotesOn(x) /\ g = VotesOn(x)'
    OBVIOUS
  <2>3. /\ f \in [Members -> Int] /\ g \in [Members -> Int]
        /\ f[u] = vote[<<u, x>>].value /\ g[u] = row.value
        /\ \A t \in Members \ {u} : g[t] = f[t]
    BY <1>2, <1>4, <1>6, <2>2 DEF VotesOn, VoteRows
  <2>4. SumOf(g, Members) = SumOf(f, Members) + g[u] - f[u]
    BY <1>2, <2>3, SumChanges
  <2>5. QED
    BY <1>5, <1>6, <2>1, <2>2, <2>3, <2>4
<1>13. Scored'
  <2>1. ASSUME NEW y \in Posts \ {x}, <<"score", y>> \notin torn'
        PROVE  score'[y] = SumOf(VotesOn(y)', Members)
    BY <1>2, <1>3, <1>6, <1>11, <2>1 DEF Scored
  <2>2. QED
    BY <1>12, <2>1 DEF Scored
<1>14. QED
  BY <1>7, <1>9, <1>10, <1>13 DEF CommunityInv

\* Somebody reads what he was told.
LEMMA MarkReadStep ==
  ASSUME CommunityInv, NEW u \in Members, MarkRead(u)
  PROVE  CommunityInv'
<1>1. UNCHANGED <<author, thread, vote, score, count, locked, removed, replied, told, report, call,
        torn>>
  BY DEF MarkRead, postVars
<1>2. CommunityKept /\ unread' \in [Members -> Nat]
  BY DEF CommunityInv, CommunityKept, MarkRead
<1>3. CommunityKept' /\ Placed' /\ RemovalIsToldOnce'
  BY <1>1, <1>2 DEF CommunityInv, CommunityKept, Placed, Exists, RemovalIsToldOnce
<1>4. \A j \in Calls : Aware(j)'
  BY <1>1, AwareStays DEF CommunityInv
<1>5. Scored' /\ Counted'
  BY <1>1, TalliesStay DEF CommunityInv
<1>6. QED
  BY <1>3, <1>4, <1>5 DEF CommunityInv

\* The invariant holds at the beginning, and every step preserves it.
LEMMA CommunityInitInv == CommunityInit => CommunityInv
<1> SUFFICES ASSUME CommunityInit PROVE CommunityInv
  OBVIOUS
<1> USE IdsDiffer
<1>1. NoVote \in VoteRows /\ NewCall \in CallRows
  BY DEF NewCall, NoVote, VoteRows, CallRows, Kinds, NoCall
<1>2. /\ author \in [Posts -> Members \union {NoMember}]
      /\ \A c \in Comments : author[c] = NoMember /\ thread[c] = NoPost
      /\ thread \in [Comments -> Threads \union {NoPost}]
  BY DEF CommunityInit
<1>3. report \in [Reports -> ReportRows] /\ \A p \in Reports : report[p].status # "ABSENT" =>
        report[p].target \in Posts
  BY DEF CommunityInit, ReportRows
<1>4. CommunityKept
  BY <1>1, <1>2, <1>3 DEF CommunityInit, CommunityKept
<1>5. Placed
  BY <1>2, <1>3 DEF Placed, Exists
<1>6. \A k \in Calls : Aware(k)
  BY DEF CommunityInit, NewCall, Aware, Commenting, Voting, Deciding, Locking, MayRun
<1>7. Scored
  <2>1. ASSUME NEW x \in Posts PROVE VotesOn(x) \in [Members -> {0}]
    BY DEF CommunityInit, VotesOn, NoVote
  <2>2. \A x \in Posts : score[x] = 0 /\ SumOf(VotesOn(x), Members) = 0
    BY <2>1, SumOfZeros DEF CommunityInit
  <2>3. QED
    BY <2>2 DEF Scored
<1>8. Counted
  <2>1. \A d \in Threads : CommentsIn(d) = {} /\ ByOthersIn(d) = {} /\ count[d] = 0 /\
          replied[d] = 0
    BY <1>2 DEF CommunityInit, CommentsIn, ByOthersIn
  <2>2. QED
    BY <2>1, FS_EmptySet DEF Counted
<1>9. RemovalIsToldOnce
  BY DEF CommunityInit, RemovalIsToldOnce
<1>10. QED
  BY <1>4, <1>5, <1>6, <1>7, <1>8, <1>9 DEF CommunityInv

\* Whatever a call, a reader of notices or the database does next, it stays.
LEMMA CommunityNextInv == CommunityInv /\ [CommunityNext]_communityVars => CommunityInv'
<1>1. ASSUME CommunityInv, UNCHANGED communityVars PROVE CommunityInv'
  <2>1. UNCHANGED <<author, thread, vote, score, count, locked, removed, replied, told, unread,
                    report, call, torn>>
    BY <1>1 DEF communityVars, postVars, noticeVars
  <2>2. CommunityKept' /\ Placed' /\ RemovalIsToldOnce'
    BY <1>1, <2>1 DEF CommunityInv, CommunityKept, Placed, Exists, RemovalIsToldOnce
  <2>3. \A j \in Calls : Aware(j)'
    BY <1>1, <2>1, AwareStays DEF CommunityInv
  <2>4. Scored' /\ Counted'
    BY <1>1, <2>1, TalliesStay DEF CommunityInv
  <2>5. QED
    BY <2>2, <2>3, <2>4 DEF CommunityInv
<1>2. CommunityInv /\ CommunityNext => CommunityInv'
  BY CreateStep, BeginStep, CommentStep, VoidStep, VoteStep, ResolveStep, LockStep, MarkReadStep
  DEF CommunityNext
<1>3. QED
  BY <1>1, <1>2

\* The invariant of discussions.
THEOREM CommunityInvariant == CommunitySpec => []CommunityInv
BY CommunityInitInv, CommunityNextInv, PTL DEF CommunitySpec

\* The stored score is the sum of the votes and the stored number of comments the number of
\* rows, unless they were written on an outdated read; and the author of a thread was told of
\* each comment of somebody else.
THEOREM TalliesAreTrue == CommunitySpec => []TalliesMatchRows
<1>1. ASSUME CommunityInv PROVE TalliesMatchRows
  <2>1. \A x \in Posts : MapThenSumSet(LAMBDA u : vote[u, x].value, Members) = SumOf(VotesOn(x),
          Members)
    BY Zenon DEF MapThenSumSet, MapThenFoldSet, SumOf, Adds, Pick, VotesOn
  <2>2. \A x \in Posts : <<"score", x>> \notin torn =>
          score[x] = MapThenSumSet(LAMBDA u : vote[u, x].value, Members)
    BY <1>1, <2>1, Zenon DEF CommunityInv, Scored
  <2>3. \A d \in Threads :
          /\ <<"count", d>> \notin torn => count[d] = Cardinality({c \in Comments : thread[c] = d})
          /\ replied[d] = Cardinality({c \in {c \in Comments : thread[c] =
               d} : author[c] # author[d]})
    BY <1>1 DEF CommunityInv, Counted, CommentsIn, ByOthersIn
  <2>4. QED
    BY <2>2, <2>3, Zenon DEF TalliesMatchRows
<1>2. QED
  BY <1>1, CommunityInvariant, PTL

\* A post that was removed says so to its author, once, unless moderators decided on it at the
\* same time.
THEOREM RemovalsAreToldOnce == CommunitySpec => []RemovalIsToldOnce
<1>1. CommunityInv => RemovalIsToldOnce
  BY DEF CommunityInv
<1>2. QED
  BY <1>1, CommunityInvariant, PTL

\* The types of posts, votes, reports and calls.
THEOREM CommunityTyped == CommunitySpec => []CommunityTypeOK
<1>1. CommunityInv => CommunityTypeOK
  BY DEF CommunityInv, CommunityKept, CommunityTypeOK, VoteRows, ReportRows, CallRows
<1>2. QED
  BY <1>1, CommunityInvariant, PTL

\* A report is decided once: a decision that was not taken on an outdated read stands.
THEOREM DecisionsStand == CommunitySpec => DecisionStands
<1>1. ASSUME CommunityInv, [CommunityNext]_communityVars, NEW p \in Reports,
             report[p].status \in {"RESOLVED", "DISMISSED"}, <<"status", p>> \notin torn'
      PROVE  report'[p] = report[p]
  <2>1. CASE \E k \in Calls : ResolveReport(k)
    <3>1. PICK k \in Calls : ResolveReport(k)
      BY <2>1
    <3>2. PICK q : q = call[k].on
      OBVIOUS
    <3>3. /\ q \in Reports /\ (call[k].fresh => report[q].status = "OPEN")
          /\ CommunityKept /\ report[q].target \in Posts
      BY <1>1, <3>1, <3>2 DEF CommunityInv, Aware, Deciding, Open, ResolveReport, Placed
    <3>4. PICK w : w \in {{<<"status", q>>}, {<<"status", q>>, <<"removed",
                 report[q].target>>}} /\ Finish(k, w)
      BY <3>1, <3>2 DEF ResolveReport
    <3>5. call[k].fresh \/ <<"status", q>> \in torn'
      BY <3>4 DEF Finish
    <3>6. q # p
      BY <1>1, <3>3, <3>5
    <3>7. QED
      BY <1>1, <3>1, <3>2, <3>3, <3>6 DEF ResolveReport, CommunityKept
  <2>2. CASE \E k \in Calls : CreateReport(k)
    BY <1>1, <2>2 DEF CreateReport, NextReport, Least, CommunityInv, CommunityKept
  <2>3. CASE UNCHANGED report
    BY <2>3
  <2>4. QED
    BY <1>1, <2>1, <2>2, <2>3, ZenonT(60)
    DEF CommunityNext, communityVars, CreateDiscussion, BeginComment, BeginVote, BeginResolve,
        BeginLock, Read, AddComment, VoteFails, CastVote, VoteUnchanged, RemoveVote, SetLocked,
        MarkRead
<1>2. CommunityInv /\ [CommunityNext]_communityVars =>
        [\A p \in Reports :
           /\ report[p].status \in {"RESOLVED", "DISMISSED"}
           /\ <<"status", p>> \notin torn'
           => report'[p] = report[p]]_communityVars
  BY <1>1
<1>3. QED
  BY <1>2, CommunityInvariant, PTL DEF CommunitySpec, DecisionStands

-----------------------------------------------------------------------------
(* The catalogue: problems, their cache and their index                     *)

\* The rows of problems, and what a call, the cache and a reader hold.
ProblemRows == [version : Nat, slug : Slugs \union {""}, published : BOOLEAN, archived : BOOLEAN]
EditorRows == [at : {"idle", "read", "committed", "invalidated"}, p : Problems \union {0},
               seen : ProblemRows, new : ProblemRows, keys : SUBSET Keys,
               moved : SUBSET (Slugs \union {""}), met : BOOLEAN]
Lookups == SUBSET ((Nat \X SUBSET Problems) \union (Nat \X Nat \X Nat))
EntryRows == [has : BOOLEAN, value : Lookups, excused : BOOLEAN]
ReaderRows == [key : Keys \union {""}, value : Lookups, excused : BOOLEAN]
JudgingRows == [at : {"none", "loaded", "counted", "over"}, p : Problems \union {0},
                slug : Slugs \union {""}, moved : SUBSET (Slugs \union {""})]

\* A judge counts for a problem that is there.
JudgesKept ==
  /\ judged \in [Problems -> Nat] /\ judging \in [Judgings -> JudgingRows]
  /\ \A j \in Judgings : judging[j].at = "loaded" => judging[j].p \in Problems

CatalogueKept ==
  /\ problem \in [Problems -> ProblemRows] /\ tags \in 0 .. MaxTags
  /\ versions \in [Problems -> 0 .. MaxVersion] /\ index \in [Problems -> Nat]
  /\ detail \in [Keys -> EntryRows] /\ editor \in [Editors -> EditorRows]
  /\ reader \in [Readers -> ReaderRows]
  /\ JudgesKept /\ scene \in Scenes /\ drifted \in SUBSET Problems

\* A row that is there has a slug of its own; no content comes from nowhere.
Named ==
  /\ \A p \in Problems : problem[p].version \in 0 .. versions[p] /\ index[p] \in 0 .. versions[p]
  /\ \A p \in Problems : problem[p].slug = "" <=> problem[p].version = 0
  /\ \A p, q \in Problems : Stored(p) /\ problem[p].slug = problem[q].slug => p = q

\* What a call holds: a content that was written for its problem, and, until it commits, the
\* keys of the slug that it read and of the one that it will write.
Working(a) ==
  LET e == editor[a] IN
  /\ e.at = "idle" => e = NoEditor
  /\ e.at # "idle" /\ e.p # 0 => e.new.version \in 1 .. versions[e.p]
  /\ e.at = "read" =>
       /\ e.p \in Problems /\ {"tags", e.new.slug} \subseteq e.keys /\ e.new.slug \in Slugs
       /\ e.seen.version # 0 => Stored(e.p) /\ e.seen.slug \in e.keys
       /\ e.seen.version = 0 => e.seen.slug = ""
  /\ e.at = "invalidated" => e.p \in Problems

\* A call that met no other is the only one on its problem, which is as the call read it and,
\* after the commit, as the call wrote it.
Alone(a) ==
  LET e == editor[a] IN
  e.at # "idle" /\ e.p # 0 /\ ~e.met =>
    /\ \A o \in Editors : editor[o].at # "idle" /\ editor[o].p = e.p => o = a
    /\ problem[e.p] = IF e.at = "read" THEN e.seen ELSE e.new

\* A reader that nobody committed over holds what the database says.
UpToDate(r) == reader[r] # NoReader /\ ~reader[r].excused =>
  reader[r].value = Current(reader[r].key)
Reading(r) == (reader[r] # NoReader => reader[r].key \in Keys) /\ UpToDate(r)

\* A judge has changed what readers are told under a key, and has not deleted the entry yet.
JudgeTends(k) == \E j \in Judgings : /\ judging[j].at = "counted"
                                     /\ k \in {judging[j].slug} \union judging[j].moved

\* The index is right, or a call has committed that will update it.
Wanted(p) == IF Shown(problem[p]) THEN problem[p].version ELSE 0
Indexed ==
  "rag" \in scene => \A p \in Problems \ drifted :
    \/ index[p] = Wanted(p)
    \/ \E a \in Editors : editor[a].at \in {"committed", "invalidated"} /\ editor[a].p = p

CatalogueInv ==
  /\ CatalogueKept /\ Named
  /\ \A a \in Editors : Working(a) /\ Alone(a)
  /\ \A r \in Readers : Reading(r)
  /\ CacheAgrees /\ Indexed

-----------------------------------------------------------------------------
\* What the constants are.
LEMMA CatalogueConstants ==
  /\ \A p \in Problems : p \in Nat /\ p # 0
  /\ MaxVersion \in Nat /\ MaxTags \in Nat /\ "" \notin Slugs /\ "tags" \notin Slugs
  /\ 0 .. MaxVersion \subseteq Nat
<1>1. \A p \in Problems : p \in Nat /\ p # 0
  BY CatalogueAssumption
<1>2. MaxVersion \in Nat /\ MaxTags \in Nat
  BY CatalogueAssumption
<1>3. "" \notin Slugs /\ "tags" \notin Slugs
  BY CatalogueAssumption
<1>4. 0 .. MaxVersion \subseteq Nat
  BY <1>2
<1>5. QED
  BY <1>1, <1>2, <1>3, <1>4

\* What an admin's call and its problem have in common before and after a step of another.
Alike(o) ==
  /\ editor'[o].at = editor[o].at /\ editor'[o].p = editor[o].p
  /\ editor'[o].seen = editor[o].seen /\ editor'[o].new = editor[o].new
  /\ editor'[o].keys = editor[o].keys /\ editor'[o].moved = editor[o].moved
  /\ editor[o].met => editor'[o].met
  /\ editor[o] = NoEditor => editor'[o] = NoEditor

\* The call that begins, and the calls that it meets.
LEMMA Beginning ==
  ASSUME CatalogueKept, \A o \in Editors : Working(o), NEW a \in Editors, NEW p \in Problems,
         NEW new \in ProblemRows, NEW keys \in SUBSET Keys, editor[a] = NoEditor,
         Begins(a, p, new, keys)
  PROVE  /\ editor' \in [Editors -> EditorRows]
         /\ editor'[a].at = "read" /\ editor'[a].p = p /\ editor'[a].seen = problem[p]
         /\ editor'[a].new = new /\ editor'[a].keys = keys
         /\ editor'[a].met \/ \A o \in Editors : editor[o].at # "idle" => editor[o].p # p
         /\ \A o \in Editors \ {a} : /\ Alike(o)
                                     /\ editor[o].at # "idle" /\ editor[o].p = p => editor'[o].met
<1>1. /\ editor \in [Editors -> EditorRows] /\ problem[p] \in ProblemRows
      /\ \A o \in Editors : editor[o].at = "idle" <=> editor[o] = NoEditor
  <2>1. NoEditor.at = "idle"
    BY DEF NoEditor
  <2>2. \A o \in Editors : editor[o].at = "idle" => editor[o] = NoEditor
    BY DEF Working
  <2>3. QED
    BY <2>1, <2>2 DEF CatalogueKept
<1>2. PICK n : n = [at |-> "read", p |-> p, seen |-> problem[p], new |-> new, keys |-> keys,
                    moved |-> {}, met |-> Meets(p)]
  OBVIOUS
<1>3. Meets(p) \in BOOLEAN
  BY DEF Meets
<1>4. n \in EditorRows
  BY <1>1, <1>2, <1>3 DEF EditorRows
<1>5. /\ n.at = "read" /\ n.p = p /\ n.seen = problem[p] /\ n.new = new /\ n.keys = keys
      /\ n.met = Meets(p)
  BY <1>2
<1>6. editor' = [o \in Editors |->
         IF o = a THEN n
         ELSE [editor[o] EXCEPT !.met = @ \/ (editor[o] # NoEditor /\ editor[o].p = p)]]
  BY <1>2 DEF Begins
<1>7. editor'[a] = n
  BY <1>6
<1>8. Meets(p) \/ \A o \in Editors : editor[o].at # "idle" => editor[o].p # p
  BY <1>1 DEF Meets
<1>9. ASSUME NEW o \in Editors \ {a}
      PROVE  /\ editor'[o] \in EditorRows /\ Alike(o)
             /\ editor[o].at # "idle" /\ editor[o].p = p => editor'[o].met
  <2>1. PICK b : b = (editor[o].met \/ (editor[o] # NoEditor /\ editor[o].p = p))
    OBVIOUS
  <2>2. editor'[o] = [editor[o] EXCEPT !.met = b]
    BY <1>6, <2>1
  <2>3. editor[o] \in EditorRows
    BY <1>1
  <2>4. editor[o].met \in BOOLEAN
    BY <2>3 DEF EditorRows
  <2>5. b \in BOOLEAN /\ (editor[o].met => b) /\ (editor[o] # NoEditor /\ editor[o].p = p => b)
    BY <2>1, <2>4
  <2>6. /\ editor'[o] \in EditorRows /\ editor'[o].met = b /\ editor'[o].at = editor[o].at
        /\ editor'[o].p = editor[o].p /\ editor'[o].seen = editor[o].seen
        /\ editor'[o].new = editor[o].new /\ editor'[o].keys = editor[o].keys
        /\ editor'[o].moved = editor[o].moved
    BY <2>2, <2>3, <2>5 DEF EditorRows
  <2>7. ASSUME editor[o] = NoEditor PROVE editor'[o] = NoEditor
    <3>1. editor[o].met = FALSE
      BY <2>7 DEF NoEditor
    <3>2. b = FALSE
      BY <2>1, <2>7, <3>1
    <3>3. [editor[o] EXCEPT !.met = FALSE] = editor[o]
      BY <2>3, <3>1 DEF EditorRows
    <3>4. QED
      BY <2>2, <2>7, <3>2, <3>3
  <2>8. QED
    BY <1>1, <2>5, <2>6, <2>7 DEF Alike
<1>10. editor' \in [Editors -> EditorRows]
  BY <1>4, <1>6, <1>7, <1>9
<1>11. QED
  BY <1>5, <1>7, <1>8, <1>9, <1>10

\* What readers are told depends on the rows, their statistics and the tags.
LEMMA SameAnswers ==
  ASSUME problem' = problem, tags' = tags, judged' = judged
  PROVE  \A k : Current(k)' = Current(k)
BY DEF Current, Shown

\* A call that is not touched goes on knowing what it knew, if contents are only added.
LEMMA WorkingStays ==
  ASSUME NEW o \in Editors, CatalogueKept, CatalogueKept', Working(o), Alike(o),
         \A q \in Problems : versions[q] <= versions'[q] /\ (Stored(q) => Stored(q)')
  PROVE  Working(o)'
<1>1. editor[o] \in EditorRows /\ versions \in [Problems -> Int] /\ versions' \in [Problems -> Int]
  BY DEF CatalogueKept
<1>2. editor[o].p = 0 \/ editor[o].p \in Problems
  BY <1>1 DEF EditorRows
<1>3. editor[o].new.version \in Nat
  BY <1>1 DEF EditorRows, ProblemRows
<1>4. PICK q, n : q = editor[o].p /\ n = editor[o].new.version
  OBVIOUS
<1>5. q # 0 => /\ versions[q] \in Int /\ versions'[q] \in Int /\ versions[q] <= versions'[q]
               /\ Stored(q) => Stored(q)'
  BY <1>1, <1>2, <1>4
<1>6. /\ editor[o].at # "idle" /\ q # 0 => n \in 1 .. versions[q]
      /\ editor[o].at = "idle" => editor[o] = NoEditor
      /\ editor[o].at = "read" =>
           /\ q \in Problems /\ {"tags", editor[o].new.slug} \subseteq editor[o].keys
           /\ editor[o].new.slug \in Slugs
           /\ editor[o].seen.version # 0 => Stored(q) /\ editor[o].seen.slug \in editor[o].keys
           /\ editor[o].seen.version = 0 => editor[o].seen.slug = ""
      /\ editor[o].at = "invalidated" => q \in Problems
  BY <1>4 DEF Working
<1>7. editor[o].at # "idle" /\ q # 0 => n \in 1 .. versions'[q]
  <2>1. PICK v, w : v = versions[q] /\ w = versions'[q]
    OBVIOUS
  <2>2. q # 0 => v \in Int /\ w \in Int /\ v <= w
    BY <1>5, <2>1
  <2>3. editor[o].at # "idle" /\ q # 0 => n \in 1 .. v
    BY <1>6, <2>1
  <2>4. QED
    BY <2>1, <2>2, <2>3
<1>8. q \in Problems => q # 0
  BY CatalogueAssumption
<1>9. QED
  BY <1>4, <1>5, <1>6, <1>7, <1>8 DEF Working, Alike

\* A reader that is not touched goes on being right while the answers are the same.
LEMMA ReadingStays ==
  ASSUME problem' = problem, tags' = tags, reader' = reader, judged' = judged,
         \A r \in Readers : Reading(r)
  PROVE  \A r \in Readers : Reading(r)'
BY SameAnswers DEF Reading, UpToDate

\* The beginning of an admin's call keeps the invariant: the calls that it meets are not alone.
LEMMA BeginsKeeps ==
  ASSUME CatalogueInv, NEW a \in Editors, NEW p \in Problems, NEW new \in ProblemRows,
         NEW keys \in SUBSET Keys, editor[a] = NoEditor, Begins(a, p, new, keys),
         versions' \in [Problems -> 0 .. MaxVersion],
           \A q \in Problems : versions[q] <= versions'[q],
         new.version \in 1 .. versions'[p], new.slug \in Slugs, {"tags", new.slug} \subseteq keys,
         Stored(p) => problem[p].slug \in keys,
         UNCHANGED <<problem, tags, detail, index, reader, scene, drifted, judged, judging>>
  PROVE  CatalogueInv'
<1>1. /\ CatalogueKept /\ Named /\ CacheAgrees /\ Indexed
      /\ \A o \in Editors : Working(o) /\ Alone(o)
      /\ \A r \in Readers : Reading(r)
  BY DEF CatalogueInv
<1>2. /\ editor' \in [Editors -> EditorRows]
      /\ editor'[a].at = "read" /\ editor'[a].p = p /\ editor'[a].seen = problem[p]
      /\ editor'[a].new = new /\ editor'[a].keys = keys
      /\ editor'[a].met \/ \A o \in Editors : editor[o].at # "idle" => editor[o].p # p
      /\ \A o \in Editors \ {a} : /\ Alike(o)
                                  /\ editor[o].at # "idle" /\ editor[o].p = p => editor'[o].met
  BY <1>1, Beginning
<1>3. editor[a].at = "idle" /\ p # 0
  <2>1. NoEditor.at = "idle"
    BY DEF NoEditor
  <2>2. QED
    BY <2>1, CatalogueConstants
<1>4. CatalogueKept'
  BY <1>1, <1>2 DEF CatalogueKept, JudgesKept
<1>5. Named'
  <2>1. /\ versions \in [Problems -> Nat] /\ versions' \in [Problems -> Nat]
        /\ \A q \in Problems : problem[q].version \in Nat /\ index[q] \in Nat
    <3>1. \A q \in Problems : problem[q] \in ProblemRows
      BY <1>1 DEF CatalogueKept
    <3>2. QED
      BY <1>1, <3>1, CatalogueConstants DEF CatalogueKept, ProblemRows
  <2>2. \A q \in Problems : problem'[q].version \in 0 .. versions'[q] /\
          index'[q] \in 0 .. versions'[q]
    <3>1. TAKE q \in Problems
    <3>2. PICK v, w, n, i : v = versions[q] /\ w = versions'[q] /\ n = problem[q].version /\
                 i = index[q]
      OBVIOUS
    <3>3. v \in Nat /\ w \in Nat /\ v <= w
      BY <2>1, <3>2
    <3>4. n \in 0 .. v /\ i \in 0 .. v
      BY <1>1, <3>2 DEF Named
    <3>5. n \in 0 .. w /\ i \in 0 .. w
      BY <3>3, <3>4
    <3>6. QED
      BY <3>2, <3>5
  <2>3. QED
    BY <1>1, <2>2 DEF Named, Stored
<1>6. ASSUME NEW o \in Editors PROVE Working(o)' /\ Alone(o)'
  <2>1. CASE o = a
    <3>1. problem[p].version = 0 => problem[p].slug = ""
      BY <1>1 DEF Named
    <3>2. Working(a)'
      BY <1>2, <1>3, <3>1 DEF Working, Stored
    <3>3. Alone(a)'
      BY <1>2, <1>3 DEF Alone, Alike
    <3>4. QED
      BY <2>1, <3>2, <3>3
  <2>2. CASE o # a
    <3>1. Alike(o) /\ Working(o) /\ Alone(o)
      BY <1>1, <1>2, <2>2
    <3>2. Working(o)'
      <4>1. \A q \in Problems : versions[q] <= versions'[q] /\ (Stored(q) => Stored(q)')
        BY DEF Stored
      <4>2. QED
        BY <1>1, <1>4, <3>1, <4>1, WorkingStays
    <3>3. Alone(o)'
      <4>1. SUFFICES ASSUME editor'[o].at # "idle", editor'[o].p # 0, ~editor'[o].met
                     PROVE  /\ \A u \in Editors : editor'[u].at # "idle" /\
                                 editor'[u].p = editor'[o].p => u = o
                            /\ problem'[editor'[o].p] = IF editor'[o].at =
                                 "read" THEN editor'[o].seen ELSE editor'[o].new
        BY DEF Alone
      <4>2. /\ editor[o].at # "idle" /\ editor[o].p # 0 /\ ~editor[o].met /\ editor[o].p # p
        BY <1>2, <2>2, <3>1, <4>1 DEF Alike
      <4>3. \A u \in Editors \ {a} : editor'[u].at = editor[u].at /\ editor'[u].p = editor[u].p
        BY <1>2 DEF Alike
      <4>4. QED
        BY <1>2, <2>2, <3>1, <4>2, <4>3 DEF Alone, Alike
    <3>4. QED
      BY <3>2, <3>3
  <2>3. QED
    BY <2>1, <2>2
<1>7. \A r \in Readers : Reading(r)'
  BY <1>1, ReadingStays
<1>8. \A o \in Editors \ {a} : /\ editor'[o].at = editor[o].at /\ editor'[o].p = editor[o].p
                               /\ editor'[o].keys = editor[o].keys /\
                                    editor'[o].moved = editor[o].moved
  BY <1>2 DEF Alike
<1>9. CacheAgrees'
  BY <1>1, <1>3, <1>8, SameAnswers DEF CacheAgrees, At
<1>10. Indexed'
  BY <1>1, <1>3, <1>8 DEF Indexed, Wanted, Shown
<1>11. QED
  BY <1>4, <1>5, <1>6, <1>7, <1>9, <1>10 DEF CatalogueInv

\* A content that is read for writing gets a version of its own (Create, and the change of one).
LEMMA WriteContentKeeps ==
  ASSUME CatalogueInv, NEW a \in Editors, NEW p \in Problems, WriteContent(a, p)
  PROVE  CatalogueInv'
<1>1. CatalogueKept /\ Named
  BY DEF CatalogueInv
<1>2. PICK s \in Slugs : Reads(a, p, [problem[p] EXCEPT !.version = versions[p] + 1, !.slug = s])
  BY DEF WriteContent
<1>3. PICK new : new = [[problem[p] EXCEPT !.version = versions[p] + 1] EXCEPT !.slug = s]
  OBVIOUS
<1>4. problem[p] \in ProblemRows /\ versions[p] \in Nat
  BY <1>1, CatalogueConstants DEF CatalogueKept
<1>5. new \in ProblemRows /\ new.version = versions[p] + 1 /\ new.slug = s
  <2>1. PICK n : n = versions[p] + 1
    OBVIOUS
  <2>2. n \in Nat /\ new = [[problem[p] EXCEPT !.version = n] EXCEPT !.slug = s]
    BY <1>3, <1>4, <2>1
  <2>3. QED
    BY <1>4, <2>1, <2>2 DEF ProblemRows
<1>6. PICK keys : keys = {"tags", new.slug} \union (IF Stored(p) THEN {problem[p].slug} ELSE {})
  OBVIOUS
<1>7. Begins(a, p, new, keys)
  BY <1>2, <1>3, <1>6 DEF Reads
<1>8. /\ versions' = [versions EXCEPT ![p] = @ + 1] /\ editor[a] = NoEditor
      /\ versions[p] < MaxVersion
      /\ UNCHANGED <<problem, tags, detail, index, reader, scene, drifted, judged, judging>>
  <2>1. versions[p] < MaxVersion
    <3>1. PICK v : v = versions[p]
      OBVIOUS
    <3>2. v < MaxVersion \/ v < MaxVersion - 1
      BY <3>1 DEF WriteContent
    <3>3. v \in Nat /\ MaxVersion \in Nat
      BY <1>4, <3>1, CatalogueConstants
    <3>4. QED
      BY <3>1, <3>2, <3>3
  <2>2. QED
    BY <2>1 DEF WriteContent, IdleEditor, judgeVars
<1>9. /\ versions' \in [Problems -> 0 .. MaxVersion] /\ versions'[p] = versions[p] + 1
      /\ \A q \in Problems : versions[q] <= versions'[q]
  <2>1. PICK v : v = versions[p]
    OBVIOUS
  <2>2. v \in Nat /\ v < MaxVersion /\ MaxVersion \in Nat
    BY <1>4, <1>8, <2>1, CatalogueConstants
  <2>3. v + 1 \in 0 .. MaxVersion /\ versions' = [versions EXCEPT ![p] = v + 1]
    BY <1>8, <2>1, <2>2
  <2>4. versions \in [Problems -> 0 .. MaxVersion]
    BY <1>1 DEF CatalogueKept
  <2>5. versions' \in [Problems -> 0 .. MaxVersion] /\ versions'[p] = v + 1
    BY <2>3, <2>4
  <2>6. ASSUME NEW q \in Problems PROVE versions[q] <= versions'[q]
    <3>1. versions[q] \in 0 .. MaxVersion /\ 0 .. MaxVersion \subseteq Nat
      BY <2>4, CatalogueConstants
    <3>2. CASE q = p
      BY <2>1, <2>2, <2>5, <3>2
    <3>3. CASE q # p
      BY <2>3, <2>4, <3>1, <3>3
    <3>4. QED
      BY <3>2, <3>3
  <2>7. QED
    BY <2>1, <2>5, <2>6
<1>10. Stored(p) => problem[p].slug \in Slugs
  BY <1>1, <1>4 DEF Named, Stored, ProblemRows
<1>11. /\ keys \in SUBSET Keys /\ {"tags", new.slug} \subseteq keys
       /\ Stored(p) => problem[p].slug \in keys
  BY <1>5, <1>6, <1>10 DEF Keys
<1>12. new.version \in 1 .. versions'[p]
  BY <1>4, <1>5, <1>9
<1>13. QED
  BY <1>5, <1>7, <1>8, <1>9, <1>11, <1>12, BeginsKeeps

\* A change of state keeps the content and its slug.
LEMMA ChangeStateKeeps ==
  ASSUME CatalogueInv, NEW a \in Editors, NEW p \in Problems, ChangeState(a, p)
  PROVE  CatalogueInv'
<1>1. CatalogueKept /\ Named
  BY DEF CatalogueInv
<1>2. PICK new \in {[problem[p] EXCEPT !.published = b] : b \in BOOLEAN}
                   \union {[problem[p] EXCEPT !.archived = b] : b \in BOOLEAN} : Reads(a, p, new)
  BY DEF ChangeState
<1>3. problem[p] \in ProblemRows /\ versions[p] \in Nat
  BY <1>1, CatalogueConstants DEF CatalogueKept
<1>4. new \in ProblemRows /\ new.version = problem[p].version /\ new.slug = problem[p].slug
  BY <1>2, <1>3 DEF ProblemRows
<1>5. PICK keys : keys = {"tags", new.slug} \union (IF Stored(p) THEN {problem[p].slug} ELSE {})
  OBVIOUS
<1>6. Begins(a, p, new, keys)
  BY <1>2, <1>5 DEF Reads
<1>7. /\ editor[a] = NoEditor /\ Stored(p) /\ versions' = versions
      /\ UNCHANGED <<problem, tags, detail, index, reader, scene, drifted, judged, judging>>
  BY DEF ChangeState, IdleEditor, judgeVars
<1>8. problem[p].slug \in Slugs /\ problem[p].version \in 1 .. versions[p]
  <2>1. problem[p].slug \in Slugs \union {""} /\ problem[p].version \in Nat
    BY <1>3 DEF ProblemRows
  <2>2. problem[p].version \in 0 .. versions[p] /\ problem[p].version # 0 /\ problem[p].slug # ""
    BY <1>1, <1>7 DEF Named, Stored
  <2>3. PICK v, n : v = versions[p] /\ n = problem[p].version
    OBVIOUS
  <2>4. v \in Nat /\ n \in 0 .. v /\ n # 0
    BY <1>3, <2>2, <2>3
  <2>5. n \in 1 .. v
    BY <2>4
  <2>6. QED
    BY <2>1, <2>2, <2>3, <2>5
<1>9. /\ keys \in SUBSET Keys /\ {"tags", new.slug} \subseteq keys
      /\ Stored(p) => problem[p].slug \in keys
  BY <1>4, <1>5, <1>8 DEF Keys
<1>10. /\ versions' \in [Problems -> 0 .. MaxVersion]
       /\ \A q \in Problems : versions[q] <= versions'[q]
  <2>1. versions' \in [Problems -> 0 .. MaxVersion] /\ 0 .. MaxVersion \subseteq Nat
    BY <1>1, <1>7, CatalogueConstants DEF CatalogueKept
  <2>2. \A q \in Problems : versions[q] \in Nat
    BY <1>7, <2>1
  <2>3. QED
    BY <1>7, <2>1, <2>2
<1>11. QED
  BY <1>4, <1>6, <1>7, <1>8, <1>9, <1>10, BeginsKeeps

\* An admin's call that adds a tag.
LEMMA CreateTagKeeps ==
  ASSUME CatalogueInv, NEW a \in Editors, CreateTag(a)
  PROVE  CatalogueInv'
<1>1. /\ CatalogueKept /\ Named /\ CacheAgrees /\ Indexed
      /\ \A o \in Editors : Working(o) /\ Alone(o)
      /\ \A r \in Readers : Reading(r)
  BY DEF CatalogueInv
<1>2. PICK n : n = [[NoEditor EXCEPT !.at = "committed"] EXCEPT !.keys = {"tags"}]
  OBVIOUS
<1>3. NoEditor \in EditorRows /\ NoEditor.at = "idle" /\ NoEditor.p = 0
  BY DEF NoEditor, NoRow, EditorRows, ProblemRows, Keys
<1>4. n \in EditorRows /\ n.at = "committed" /\ n.p = 0 /\ n.keys = {"tags"}
  BY <1>2, <1>3 DEF EditorRows, Keys
<1>5. editor' = [editor EXCEPT ![a] = n] /\ editor[a].at = "idle"
  BY <1>2, <1>3 DEF CreateTag, IdleEditor
<1>6. /\ editor'[a] = n /\ editor' \in [Editors -> EditorRows]
      /\ \A o \in Editors \ {a} : editor'[o] = editor[o]
  BY <1>1, <1>4, <1>5 DEF CatalogueKept
<1>7. /\ UNCHANGED <<problem, versions, detail, index, scene, drifted, judged, judging>>
      /\ tags' = tags + 1 /\ tags < MaxTags
      /\ reader' = [r \in Readers |-> [reader[r] EXCEPT !.excused = @ \/ reader[r].key = "tags"]]
  BY DEF CreateTag, judgeVars
<1>8. \A k \in Keys \ {"tags"} : Current(k)' = Current(k)
  BY <1>7 DEF Current, Shown
<1>9. ASSUME NEW r \in Readers PROVE reader'[r] \in ReaderRows /\ Reading(r)'
  <2>1. PICK b : b = (reader[r].excused \/ reader[r].key = "tags")
    OBVIOUS
  <2>2. reader[r] \in ReaderRows
    BY <1>1 DEF CatalogueKept
  <2>3. b \in BOOLEAN /\ (~b => ~reader[r].excused /\ reader[r].key # "tags")
    BY <2>1, <2>2 DEF ReaderRows
  <2>4. reader'[r] = [reader[r] EXCEPT !.excused = b]
    BY <1>7, <2>1
  <2>5. /\ reader'[r] \in ReaderRows /\ reader'[r].excused = b
        /\ reader'[r].key = reader[r].key /\ reader'[r].value = reader[r].value
    BY <2>2, <2>3, <2>4 DEF ReaderRows
  <2>6. reader'[r] # NoReader => reader[r] # NoReader
    <3>1. ASSUME reader[r] = NoReader PROVE reader'[r] = NoReader
      <4>1. NoReader.excused = FALSE /\ NoReader.key = ""
        BY DEF NoReader
      <4>2. b = FALSE
        <5>1. reader[r].excused = FALSE /\ reader[r].key # "tags"
          BY <3>1, <4>1
        <5>2. QED
          BY <2>1, <5>1
      <4>3. [reader[r] EXCEPT !.excused = FALSE] = reader[r]
        BY <2>2, <3>1, <4>1 DEF ReaderRows
      <4>4. QED
        BY <2>4, <3>1, <4>2, <4>3
    <3>2. QED
      BY <3>1
  <2>7. PICK k : k = reader[r].key
    OBVIOUS
  <2>8. reader[r] # NoReader => k \in Keys /\ (~reader[r].excused => reader[r].value = Current(k))
    BY <1>1, <2>7 DEF Reading, UpToDate
  <2>9. reader'[r] # NoReader => k \in Keys /\ (~reader'[r].excused =>
          reader'[r].value = Current(k)')
    BY <1>8, <2>3, <2>5, <2>6, <2>7, <2>8
  <2>10. QED
    BY <2>5, <2>7, <2>9 DEF Reading, UpToDate
<1>10. CatalogueKept'
  <2>1. reader' \in [Readers -> ReaderRows]
    BY <1>7, <1>9
  <2>2. tags' \in 0 .. MaxTags
    <3>1. MaxTags \in Nat /\ tags \in 0 .. MaxTags
      BY <1>1, CatalogueConstants DEF CatalogueKept
    <3>2. QED
      BY <1>7, <3>1
  <2>3. QED
    BY <1>1, <1>6, <1>7, <2>1, <2>2 DEF CatalogueKept, JudgesKept
<1>11. Named'
  BY <1>1, <1>7 DEF Named, Stored
<1>12. ASSUME NEW o \in Editors PROVE Working(o)' /\ Alone(o)'
  <2>1. Working(o)'
    <3>1. CASE o = a
      BY <1>4, <1>6, <3>1 DEF Working
    <3>2. CASE o # a
      BY <1>1, <1>6, <1>7, <3>2 DEF Working, Stored
    <3>3. QED
      BY <3>1, <3>2
  <2>2. Alone(o)'
    BY <1>1, <1>4, <1>5, <1>6, <1>7, CatalogueConstants DEF Alone
  <2>3. QED
    BY <2>1, <2>2
<1>13. CacheAgrees'
  <2>1. SUFFICES ASSUME NEW k \in Keys, detail'[k].has, ~detail'[k].excused,
                          detail'[k].value # Current(k)', ~JudgeTends(k)'
                 PROVE  \E o \in Editors : editor'[o].at = "committed" /\
                          k \in editor'[o].keys \union editor'[o].moved
    BY DEF CacheAgrees, At, JudgeTends
  <2>2. CASE k = "tags"
    BY <1>4, <1>6, <2>2
  <2>3. CASE k # "tags"
    <3>1. PICK o \in Editors : editor[o].at = "committed" /\
                 k \in editor[o].keys \union editor[o].moved
      BY <1>1, <1>7, <1>8, <2>1, <2>3 DEF CacheAgrees, At, JudgeTends
    <3>2. QED
      BY <1>5, <1>6, <3>1
  <2>4. QED
    BY <2>2, <2>3
<1>14. Indexed'
  BY <1>1, <1>5, <1>6, <1>7 DEF Indexed, Wanted, Shown
<1>15. QED
  BY <1>9, <1>10, <1>11, <1>12, <1>13, <1>14 DEF CatalogueInv

\* A call that gives up, or that is over: nobody waits for it any more.
LEMMA EndsKeeps ==
  ASSUME CatalogueInv, NEW a \in Editors, editor' = [editor EXCEPT ![a] = NoEditor],
         UNCHANGED <<problem, tags, versions, reader, scene, judged>>
  PROVE  /\ editor' \in [Editors -> EditorRows]
         /\ \A o \in Editors : Working(o)' /\ Alone(o)'
         /\ \A o \in Editors \ {a} : editor'[o] = editor[o]
         /\ \A r \in Readers : Reading(r)'
<1>1. /\ CatalogueKept /\ \A r \in Readers : Reading(r)
      /\ \A o \in Editors : Working(o) /\ Alone(o)
  BY DEF CatalogueInv
<1>2. NoEditor \in EditorRows /\ NoEditor.at = "idle"
  BY DEF NoEditor, NoRow, EditorRows, ProblemRows, Keys
<1>3. /\ editor'[a] = NoEditor /\ editor' \in [Editors -> EditorRows]
      /\ \A o \in Editors \ {a} : editor'[o] = editor[o]
  BY <1>1, <1>2 DEF CatalogueKept
<1>4. ASSUME NEW o \in Editors PROVE Working(o)' /\ Alone(o)'
  <2>1. Working(o)'
    BY <1>1, <1>2, <1>3 DEF Working, Stored
  <2>2. Alone(o)'
    BY <1>1, <1>2, <1>3 DEF Alone
  <2>3. QED
    BY <2>1, <2>2
<1>5. QED
  BY <1>1, <1>3, <1>4, ReadingStays

\* A call that the slug refuses goes away and leaves nothing.
LEMMA ConflictsKeep ==
  ASSUME CatalogueInv, NEW a \in Editors, CommitConflicts(a)
  PROVE  CatalogueInv'
<1>1. /\ CatalogueKept /\ Named /\ CacheAgrees /\ Indexed
  BY DEF CatalogueInv
<1>2. /\ editor' = [editor EXCEPT ![a] = NoEditor] /\ editor[a].at = "read"
      /\ UNCHANGED <<problem, tags, versions, detail, index, reader, scene, drifted, judged,
                     judging>>
  BY DEF CommitConflicts, At, judgeVars
<1>3. /\ editor' \in [Editors -> EditorRows] /\ \A o \in Editors : Working(o)' /\ Alone(o)'
      /\ \A o \in Editors \ {a} : editor'[o] = editor[o]
      /\ \A r \in Readers : Reading(r)'
  BY <1>2, EndsKeeps
<1>4. CatalogueKept'
  BY <1>1, <1>2, <1>3 DEF CatalogueKept, JudgesKept
<1>5. Named'
  BY <1>1, <1>2 DEF Named, Stored
<1>6. CacheAgrees'
  BY <1>1, <1>2, <1>3, SameAnswers DEF CacheAgrees, At
<1>7. Indexed'
  BY <1>1, <1>2, <1>3 DEF Indexed, Wanted, Shown
<1>8. QED
  BY <1>3, <1>4, <1>5, <1>6, <1>7 DEF CatalogueInv

\* Entries that are deleted, or that are not reached and excused: what is left as it was is
\* none of them.
LEMMA Deleting ==
  ASSUME NEW keys, NEW moved, detail \in [Keys -> EntryRows], Deletes(keys, moved)
  PROVE  /\ detail' \in [Keys -> EntryRows]
         /\ \A k \in Keys : detail'[k].has /\ ~detail'[k].excused =>
              /\ detail[k].has /\ ~detail[k].excused /\ k \notin keys \union moved
              /\ detail'[k].value = detail[k].value
<1>1. PICK missed : missed = [k \in Keys |-> [detail[k] EXCEPT !.excused =
                                @ \/ (detail[k].has /\ k \in keys \union moved)]]
  OBVIOUS
<1>2. detail' \in {missed, [k \in Keys |-> IF k \in keys THEN Nothing ELSE missed[k]]}
  BY <1>1 DEF Deletes
<1>3. ASSUME NEW k \in Keys
      PROVE  /\ missed[k] \in EntryRows /\ missed[k].value = detail[k].value
             /\ missed[k].has /\ ~missed[k].excused =>
                  detail[k].has /\ ~detail[k].excused /\ k \notin keys \union moved
  <2>1. PICK b : b = (detail[k].excused \/ (detail[k].has /\ k \in keys \union moved))
    OBVIOUS
  <2>2. detail[k] \in EntryRows /\ missed[k] = [detail[k] EXCEPT !.excused = b]
    BY <1>1, <2>1
  <2>3. detail[k].excused \in BOOLEAN /\ detail[k].has \in BOOLEAN
    BY <2>2 DEF EntryRows
  <2>4. b \in BOOLEAN /\ (~b => ~detail[k].excused /\ (detail[k].has => k \notin keys \union moved))
    BY <2>1, <2>3
  <2>5. /\ missed[k] \in EntryRows /\ missed[k].value = detail[k].value
        /\ missed[k].has = detail[k].has /\ missed[k].excused = b
    BY <2>2, <2>4 DEF EntryRows
  <2>6. QED
    BY <2>4, <2>5
<1>4. Nothing \in EntryRows /\ ~Nothing.has
  BY DEF Nothing, EntryRows, Lookups
<1>5. ASSUME NEW k \in Keys
      PROVE  detail'[k] \in EntryRows /\ (detail'[k] = missed[k] \/ ~detail'[k].has)
  BY <1>2, <1>3, <1>4
<1>6. detail' \in [Keys -> EntryRows]
  <2>1. detail' = [k \in Keys |-> detail'[k]]
    BY <1>1, <1>2
  <2>2. QED
    BY <1>5, <2>1
<1>7. ASSUME NEW k \in Keys, detail'[k].has, ~detail'[k].excused
      PROVE  /\ detail[k].has /\ ~detail[k].excused /\ k \notin keys \union moved
             /\ detail'[k].value = detail[k].value
  BY <1>3, <1>5, <1>7
<1>8. QED
  BY <1>6, <1>7

\* The cache keys are deleted, or excused; then the call is over or updates the index.
LEMMA InvalidateKeeps ==
  ASSUME CatalogueInv, NEW a \in Editors, Invalidate(a)
  PROVE  CatalogueInv'
<1>1. /\ CatalogueKept /\ Named /\ CacheAgrees /\ Indexed
      /\ \A o \in Editors : Working(o) /\ Alone(o)
      /\ \A r \in Readers : Reading(r)
  BY DEF CatalogueInv
<1>2. /\ editor[a].at = "committed"
      /\ UNCHANGED <<problem, tags, versions, index, reader, scene, drifted, judged, judging>>
  BY DEF Invalidate, At, judgeVars
<1>3. PICK e : e = editor[a]
  OBVIOUS
<1>4. e \in EditorRows /\ e.at = "committed" /\ (e.p = 0 \/ e.p \in Problems)
  BY <1>1, <1>2, <1>3 DEF CatalogueKept, EditorRows
<1>5. /\ editor' \in [Editors -> EditorRows] /\ \A o \in Editors : Working(o)' /\ Alone(o)'
      /\ \A o \in Editors \ {a} : editor'[o] = editor[o]
      /\ \A r \in Readers : Reading(r)'
      /\ "rag" \in scene /\ e.p # 0 => editor'[a].at = "invalidated" /\ editor'[a].p = e.p
  <2>1. CASE e.p = 0 \/ "rag" \notin scene
    <3>1. editor' = [editor EXCEPT ![a] = NoEditor]
      BY <1>3, <2>1 DEF Invalidate
    <3>2. QED
      BY <1>2, <2>1, <3>1, EndsKeeps
  <2>2. CASE e.p # 0 /\ "rag" \in scene
    <3>1. PICK n : n = [[[e EXCEPT !.at = "invalidated"] EXCEPT !.keys = {}] EXCEPT !.moved = {}]
      OBVIOUS
    <3>2. editor' = [editor EXCEPT ![a] = n]
      BY <1>3, <2>2, <3>1 DEF Invalidate
    <3>3. /\ n \in EditorRows /\ n.at = "invalidated" /\ n.p = e.p /\ n.new = e.new
          /\ n.met = e.met
      BY <1>4, <3>1 DEF EditorRows
    <3>4. /\ editor'[a] = n /\ editor' \in [Editors -> EditorRows]
          /\ \A o \in Editors \ {a} : editor'[o] = editor[o]
      BY <1>1, <3>2, <3>3 DEF CatalogueKept
    <3>5. ASSUME NEW o \in Editors PROVE Working(o)' /\ Alone(o)'
      <4>1. Working(o)'
        <5>1. CASE o = a
          BY <1>1, <1>2, <1>3, <1>4, <2>2, <3>3, <3>4, <5>1 DEF Working
        <5>2. CASE o # a
          BY <1>1, <1>2, <3>4, <5>2 DEF Working, Stored
        <5>3. QED
          BY <5>1, <5>2
      <4>2. Alone(o)'
        <5>1. \A u \in Editors : /\ editor'[u].at # "idle" <=> editor[u].at # "idle"
                                 /\ editor'[u].p = editor[u].p
          BY <1>2, <1>3, <3>3, <3>4
        <5>2. CASE o = a
          BY <1>1, <1>2, <1>3, <3>3, <3>4, <5>1, <5>2 DEF Alone
        <5>3. CASE o # a
          BY <1>1, <1>2, <3>4, <5>1, <5>3 DEF Alone
        <5>4. QED
          BY <5>2, <5>3
      <4>3. QED
        BY <4>1, <4>2
    <3>6. QED
      BY <1>1, <1>2, <3>3, <3>4, <3>5, ReadingStays
  <2>3. QED
    BY <2>1, <2>2
<1>6. Deletes(e.keys, e.moved)
  BY <1>3 DEF Invalidate
<1>7. /\ detail' \in [Keys -> EntryRows]
      /\ \A k \in Keys : detail'[k].has /\ ~detail'[k].excused =>
           /\ detail[k].has /\ ~detail[k].excused /\ k \notin e.keys \union e.moved
           /\ detail'[k].value = detail[k].value
  BY <1>1, <1>6, Deleting DEF CatalogueKept
<1>11. CatalogueKept'
  BY <1>1, <1>2, <1>5, <1>7 DEF CatalogueKept, JudgesKept
<1>12. Named'
  BY <1>1, <1>2 DEF Named, Stored
<1>13. CacheAgrees'
  <2>1. SUFFICES ASSUME NEW k \in Keys, detail'[k].has, ~detail'[k].excused,
                          detail'[k].value # Current(k)', ~JudgeTends(k)'
                 PROVE  \E o \in Editors : editor'[o].at = "committed" /\
                          k \in editor'[o].keys \union editor'[o].moved
    BY DEF CacheAgrees, At, JudgeTends
  <2>3. /\ detail[k].has /\ ~detail[k].excused /\ k \notin e.keys \union e.moved
        /\ detail[k].value # Current(k)
    BY <1>2, <1>7, <2>1, SameAnswers
  <2>4. PICK o \in Editors : editor[o].at = "committed" /\
               k \in editor[o].keys \union editor[o].moved
    BY <1>1, <1>2, <2>1, <2>3 DEF CacheAgrees, At, JudgeTends
  <2>5. QED
    BY <1>3, <1>5, <2>3, <2>4
<1>14. Indexed'
  <2>1. SUFFICES ASSUME "rag" \in scene, NEW p \in Problems \ drifted
                 PROVE  \/ index[p] = Wanted(p)
                        \/ \E o \in Editors : editor'[o].at \in {"committed",
                             "invalidated"} /\ editor'[o].p = p
    BY <1>2 DEF Indexed, Wanted, Shown
  <2>2. p # 0
    BY CatalogueConstants
  <2>3. QED
    BY <1>1, <1>3, <1>5, <2>1, <2>2 DEF Indexed
<1>15. QED
  BY <1>5, <1>11, <1>12, <1>13, <1>14 DEF CatalogueInv

\* The index is updated with what the call wrote, or that fails.
LEMMA ReindexKeeps ==
  ASSUME CatalogueInv, NEW a \in Editors, Reindex(a)
  PROVE  CatalogueInv'
<1>1. /\ CatalogueKept /\ Named /\ CacheAgrees /\ Indexed
      /\ \A o \in Editors : Working(o) /\ Alone(o)
  BY DEF CatalogueInv
<1>2. /\ editor' = [editor EXCEPT ![a] = NoEditor] /\ editor[a].at = "invalidated"
      /\ UNCHANGED <<problem, tags, versions, detail, reader, scene, judged, judging>>
  BY DEF Reindex, At, judgeVars
<1>3. /\ editor' \in [Editors -> EditorRows] /\ \A o \in Editors : Working(o)' /\ Alone(o)'
      /\ \A o \in Editors \ {a} : editor'[o] = editor[o]
      /\ \A r \in Readers : Reading(r)'
  BY <1>2, EndsKeeps
<1>4. PICK e, p, v : /\ e = editor[a] /\ p = e.p
                     /\ v = IF Shown(e.new) THEN e.new.version ELSE 0
  OBVIOUS
<1>5. e \in EditorRows /\ p \in Problems /\ p # 0 /\ e.new.version \in 1 .. versions[p]
  BY <1>1, <1>2, <1>4, CatalogueConstants DEF CatalogueKept, Working
<1>6. /\ versions[p] \in Nat /\ v \in 0 .. versions[p]
  <2>1. versions[p] \in Nat
    BY <1>1, <1>5, CatalogueConstants DEF CatalogueKept
  <2>2. QED
    BY <1>4, <1>5, <2>1
<1>7. \/ /\ index' = [index EXCEPT ![p] = v]
         /\ e.met => drifted' = drifted \union {p}
         /\ ~e.met => drifted' = drifted \ {p}
      \/ drifted' = drifted \union {p} /\ index' = index
  BY <1>4 DEF Reindex
<1>8. /\ index \in [Problems -> Nat] /\ drifted \in SUBSET Problems
      /\ \A q \in Problems : index[q] \in 0 .. versions[q]
  BY <1>1 DEF CatalogueKept, Named
<1>9. /\ index' \in [Problems -> Nat] /\ drifted' \in SUBSET Problems
      /\ \A q \in Problems : index'[q] \in 0 .. versions[q]
      /\ \A q \in Problems \ {p} : index'[q] = index[q] /\ (q \in drifted' <=> q \in drifted)
  BY <1>5, <1>6, <1>7, <1>8
<1>10. CatalogueKept'
  BY <1>1, <1>2, <1>3, <1>9 DEF CatalogueKept, JudgesKept
<1>11. Named'
  BY <1>1, <1>2, <1>9 DEF Named, Stored
<1>12. CacheAgrees'
  BY <1>1, <1>2, <1>3, SameAnswers DEF CacheAgrees, At
<1>13. p \notin drifted' => index'[p] = Wanted(p)
  <2>1. SUFFICES ASSUME p \notin drifted' PROVE index'[p] = Wanted(p)
    OBVIOUS
  <2>2. ~e.met /\ index'[p] = v
    BY <1>5, <1>7, <1>8, <2>1
  <2>3. problem[p] = e.new
    BY <1>1, <1>2, <1>4, <1>5, <2>2 DEF Alone
  <2>4. QED
    BY <1>4, <2>2, <2>3 DEF Wanted
<1>14. Indexed'
  <2>1. SUFFICES ASSUME "rag" \in scene, NEW q \in Problems, q \notin drifted'
                 PROVE  \/ index'[q] = Wanted(q)
                        \/ \E o \in Editors : editor'[o].at \in {"committed",
                             "invalidated"} /\ editor'[o].p = q
    BY <1>2 DEF Indexed, Wanted, Shown
  <2>2. CASE q = p
    BY <1>13, <2>1, <2>2
  <2>3. CASE q # p
    BY <1>1, <1>3, <1>4, <1>9, <2>1, <2>3 DEF Indexed
  <2>4. QED
    BY <2>2, <2>3
<1>15. QED
  BY <1>3, <1>10, <1>11, <1>12, <1>14 DEF CatalogueInv

\* Readers and judges touch neither the contents of problems nor the admins' calls.
LEMMA OthersKeep ==
  ASSUME CatalogueInv, UNCHANGED <<problem, tags, versions, index, editor, scene, drifted>>,
         detail' \in [Keys -> EntryRows], reader' \in [Readers -> ReaderRows],
         JudgesKept', \A r \in Readers : Reading(r)', CacheAgrees'
  PROVE  CatalogueInv'
<1>1. /\ CatalogueKept /\ Named /\ Indexed
      /\ \A o \in Editors : Working(o) /\ Alone(o)
  BY DEF CatalogueInv
<1>2. CatalogueKept'
  BY <1>1 DEF CatalogueKept
<1>3. Named'
  BY <1>1 DEF Named, Stored
<1>4. \A o \in Editors : Working(o)' /\ Alone(o)'
  BY <1>1 DEF Working, Alone, Stored
<1>5. Indexed'
  BY <1>1 DEF Indexed, Wanted, Shown
<1>6. QED
  BY <1>2, <1>3, <1>4, <1>5 DEF CatalogueInv

\* What readers are told is made of ids, contents and numbers of tags.
LEMMA AnswersAre == ASSUME CatalogueKept, NEW k PROVE Current(k) \in Lookups
<1>1. /\ tags \in Nat
      /\ \A p \in Problems : p \in Nat /\ problem[p].version \in Nat /\ judged[p] \in Nat
  <2>1. \A p \in Problems : problem[p] \in ProblemRows
    BY DEF CatalogueKept
  <2>2. tags \in Nat
    <3>1. MaxTags \in Nat /\ tags \in 0 .. MaxTags
      BY CatalogueConstants DEF CatalogueKept
    <3>2. QED
      BY <3>1
  <2>3. QED
    BY <2>1, <2>2, CatalogueConstants DEF CatalogueKept, JudgesKept, ProblemRows
<1>2. CASE k = "tags"
  BY <1>1, <1>2 DEF Current, Lookups
<1>3. CASE k # "tags"
  BY <1>1, <1>3 DEF Current, Lookups
<1>4. QED
  BY <1>2, <1>3

\* A reader that misses the cache holds what the database says now.
LEMMA ReadRowsKeeps ==
  ASSUME CatalogueInv, NEW r \in Readers, NEW k \in Keys, ReadRows(r, k)
  PROVE  CatalogueInv'
<1>1. /\ CatalogueKept /\ CacheAgrees /\ \A o \in Readers : Reading(o)
  BY DEF CatalogueInv
<1>2. PICK n, v : v = Current(k) /\ n = [key |-> k, value |-> v, excused |-> FALSE]
  OBVIOUS
<1>3. /\ reader' = [reader EXCEPT ![r] = n]
      /\ UNCHANGED <<problem, tags, versions, detail, index, editor, scene, drifted, judged,
                     judging>>
  BY <1>2 DEF ReadRows, judgeVars
<1>4. v \in Lookups
  BY <1>1, <1>2, AnswersAre
<1>5. n \in ReaderRows /\ n.key = k /\ n.value = v
  BY <1>2, <1>4 DEF ReaderRows
<1>6. /\ reader' \in [Readers -> ReaderRows] /\ reader'[r] = n
      /\ \A o \in Readers \ {r} : reader'[o] = reader[o]
  BY <1>1, <1>3, <1>5 DEF CatalogueKept
<1>7. ASSUME NEW o \in Readers PROVE Reading(o)'
  <2>1. \A x : Current(x)' = Current(x)
    BY <1>3, SameAnswers
  <2>2. CASE o = r
    BY <1>2, <1>5, <1>6, <2>1, <2>2 DEF Reading, UpToDate
  <2>3. CASE o # r
    BY <1>1, <1>6, <2>1, <2>3 DEF Reading, UpToDate
  <2>4. QED
    BY <2>2, <2>3
<1>8. CacheAgrees'
  BY <1>1, <1>3, SameAnswers DEF CacheAgrees, At
<1>9. detail' \in [Keys -> EntryRows] /\ JudgesKept'
  BY <1>1, <1>3 DEF CatalogueKept, JudgesKept
<1>10. QED
  BY <1>3, <1>6, <1>7, <1>8, <1>9, OthersKeep

\* What a reader writes into the cache is current, or a commit has excused the entry.
LEMMA FillCacheKeeps ==
  ASSUME CatalogueInv, NEW r \in Readers, FillCache(r)
  PROVE  CatalogueInv'
<1>1. /\ CatalogueKept /\ CacheAgrees /\ \A o \in Readers : Reading(o)
  BY DEF CatalogueInv
<1>2. PICK e, k, n : /\ e = reader[r] /\ k = e.key
                     /\ n = [has |-> TRUE, value |-> e.value, excused |-> e.excused]
  OBVIOUS
<1>3. /\ reader' = [reader EXCEPT ![r] = NoReader] /\ e # NoReader
      /\ detail' \in {detail, [detail EXCEPT ![k] = n]}
      /\ UNCHANGED <<problem, tags, versions, index, editor, scene, drifted, judged, judging>>
  BY <1>2 DEF FillCache, judgeVars
<1>4. e \in ReaderRows /\ k \in Keys /\ (~e.excused => e.value = Current(k))
  BY <1>1, <1>2, <1>3 DEF CatalogueKept, Reading, UpToDate
<1>5. n \in EntryRows /\ n.value = e.value /\ n.excused = e.excused
  BY <1>2, <1>4 DEF EntryRows, ReaderRows
<1>6. NoReader \in ReaderRows
  BY DEF NoReader, ReaderRows, Lookups
<1>7. /\ detail' \in [Keys -> EntryRows] /\ reader' \in [Readers -> ReaderRows]
      /\ detail'[k] = detail[k] \/ detail'[k] = n
      /\ \A x \in Keys \ {k} : detail'[x] = detail[x]
      /\ reader'[r] = NoReader /\ \A o \in Readers \ {r} : reader'[o] = reader[o]
  BY <1>1, <1>3, <1>4, <1>5, <1>6 DEF CatalogueKept
<1>8. \A x : Current(x)' = Current(x)
  BY <1>3, SameAnswers
<1>9. \A o \in Readers : Reading(o)'
  BY <1>1, <1>7, <1>8 DEF Reading, UpToDate
<1>10. CacheAgrees'
  <2>1. SUFFICES ASSUME NEW x \in Keys, detail'[x].has, ~detail'[x].excused,
                          detail'[x].value # Current(x)', ~JudgeTends(x)'
                 PROVE  \E o \in Editors : editor'[o].at = "committed" /\
                          x \in editor'[o].keys \union editor'[o].moved
    BY DEF CacheAgrees, At, JudgeTends
  <2>2. detail'[x] = detail[x]
    BY <1>4, <1>5, <1>7, <1>8, <2>1
  <2>3. QED
    BY <1>1, <1>3, <1>8, <2>1, <2>2 DEF CacheAgrees, At, JudgeTends
<1>11. JudgesKept'
  BY <1>1, <1>3 DEF CatalogueKept, JudgesKept
<1>12. QED
  BY <1>3, <1>7, <1>9, <1>10, <1>11, OthersKeep

\* An entry that expires is gone.
LEMMA EntryExpiresKeeps ==
  ASSUME CatalogueInv, NEW k \in Keys, EntryExpires(k)
  PROVE  CatalogueInv'
<1>1. /\ CatalogueKept /\ CacheAgrees /\ \A o \in Readers : Reading(o)
  BY DEF CatalogueInv
<1>2. /\ detail' = [detail EXCEPT ![k] = Nothing]
      /\ UNCHANGED <<problem, tags, versions, index, editor, reader, scene, drifted, judged,
                     judging>>
  BY DEF EntryExpires, judgeVars
<1>3. Nothing \in EntryRows /\ ~Nothing.has
  BY DEF Nothing, EntryRows, Lookups
<1>4. /\ detail' \in [Keys -> EntryRows] /\ detail'[k] = Nothing
      /\ \A x \in Keys \ {k} : detail'[x] = detail[x]
  BY <1>1, <1>2, <1>3 DEF CatalogueKept
<1>5. \A o \in Readers : Reading(o)'
  BY <1>1, <1>2, ReadingStays
<1>6. CacheAgrees'
  BY <1>1, <1>2, <1>3, <1>4, SameAnswers DEF CacheAgrees, At
<1>7. reader' \in [Readers -> ReaderRows] /\ JudgesKept'
  BY <1>1, <1>2 DEF CatalogueKept, JudgesKept
<1>8. QED
  BY <1>2, <1>4, <1>5, <1>6, <1>7, OthersKeep

-----------------------------------------------------------------------------
\* What is written to a row: what the call changed, over what the row is by now.
LEMMA MergedIs ==
  ASSUME NEW row \in ProblemRows, NEW seen \in ProblemRows, NEW new \in ProblemRows
  PROVE  /\ Merged(row, seen, new) \in ProblemRows
         /\ Merged(row, seen, new).slug = IF new.slug = seen.slug THEN row.slug ELSE new.slug
         /\ Merged(row, seen, new).version =
              IF new.version = seen.version THEN row.version ELSE new.version
         /\ row = seen => Merged(row, seen, new) = new
<1>1. PICK m : m = Merged(row, seen, new)
  OBVIOUS
<1>2. DOMAIN row = {"version", "slug", "published", "archived"}
  BY DEF ProblemRows
<1>3. m = [f \in {"version", "slug", "published", "archived"} |->
             IF new[f] = seen[f] THEN row[f] ELSE new[f]]
  BY <1>1, <1>2 DEF Merged
<1>4. /\ m.version = IF new.version = seen.version THEN row.version ELSE new.version
      /\ m.slug = IF new.slug = seen.slug THEN row.slug ELSE new.slug
      /\ m.published = IF new.published = seen.published THEN row.published ELSE new.published
      /\ m.archived = IF new.archived = seen.archived THEN row.archived ELSE new.archived
  BY <1>3
<1>5. m = [version |-> m.version, slug |-> m.slug, published |-> m.published,
        archived |-> m.archived]
  BY <1>3
<1>6. m \in ProblemRows
  <2>1. /\ m.version \in Nat /\ m.slug \in Slugs \union {""}
        /\ m.published \in BOOLEAN /\ m.archived \in BOOLEAN
    BY <1>4 DEF ProblemRows
  <2>2. QED
    BY <1>5, <2>1 DEF ProblemRows
<1>7. ASSUME row = seen PROVE m = new
  <2>1. \A f \in {"version", "slug", "published", "archived"} : m[f] = new[f]
    BY <1>3, <1>7
  <2>2. new = [f \in {"version", "slug", "published", "archived"} |-> new[f]]
    BY DEF ProblemRows
  <2>3. QED
    BY <1>3, <2>1, <2>2
<1>8. QED
  BY <1>1, <1>4, <1>6, <1>7

\* A commit changes the answers about the tags and about two slugs at most: the one that the
\* problem had and the one that it has now.
LEMMA CommitAnswers ==
  ASSUME NEW p \in Problems, NEW row \in ProblemRows, problem \in [Problems -> ProblemRows],
         problem' = [problem EXCEPT ![p] = row], tags' = tags, judged' = judged, NEW k \in Keys,
         k \notin {"tags", problem[p].slug, row.slug}
  PROVE  Current(k)' = Current(k)
<1>1. PICK old, new : /\ old = {q \in Problems : problem[q].slug = k /\ Shown(problem[q])}
                      /\ new = {q \in Problems : problem'[q].slug = k /\ Shown(problem'[q])}
  OBVIOUS
<1>2. /\ problem'[p] = row
      /\ \A q \in Problems \ {p} : problem'[q] = problem[q]
  OBVIOUS
<1>3. old = new /\ p \notin old
  BY <1>1, <1>2
<1>4. Current(k) = {<<q, problem[q].version, judged[q]>> : q \in old}
  BY <1>1 DEF Current
<1>5. Current(k)' = {<<q, problem'[q].version, judged'[q]>> : q \in new}
  BY <1>1 DEF Current
<1>6. \A q \in old : problem'[q].version = problem[q].version
  BY <1>1, <1>2, <1>3
<1>7. QED
  BY <1>3, <1>4, <1>5, <1>6

\* What a reader holds is outdated by a commit, or is current as before.
LEMMA Outdating ==
  ASSUME reader \in [Readers -> ReaderRows], ReadersOutdated, \A r \in Readers : Reading(r)
  PROVE  reader' \in [Readers -> ReaderRows] /\ \A r \in Readers : Reading(r)'
<1>1. ASSUME NEW r \in Readers PROVE reader'[r] \in ReaderRows /\ Reading(r)'
  <2>1. PICK k : k = reader[r].key
    OBVIOUS
  <2>2. PICK b : b = (reader[r].excused \/ k \in {x \in Keys : Current(x)' # Current(x)})
    OBVIOUS
  <2>3. reader[r] \in ReaderRows
    OBVIOUS
  <2>4. b \in BOOLEAN /\ (~b => ~reader[r].excused /\ (k \in Keys => Current(k)' = Current(k)))
    BY <2>2, <2>3 DEF ReaderRows
  <2>5. reader'[r] = [reader[r] EXCEPT !.excused = b]
    BY <2>1, <2>2 DEF ReadersOutdated
  <2>6. /\ reader'[r] \in ReaderRows /\ reader'[r].excused = b
        /\ reader'[r].key = reader[r].key /\ reader'[r].value = reader[r].value
    BY <2>3, <2>4, <2>5 DEF ReaderRows
  <2>7. ASSUME reader[r] = NoReader PROVE reader'[r] = NoReader
    <3>1. NoReader.excused = FALSE /\ NoReader.key = ""
      BY DEF NoReader
    <3>2. k \notin Keys
      BY <2>1, <2>7, <3>1, CatalogueConstants DEF Keys
    <3>3. reader[r].excused = FALSE
      BY <2>7, <3>1
    <3>4. b = FALSE
      BY <2>2, <3>2, <3>3
    <3>5. [reader[r] EXCEPT !.excused = FALSE] = reader[r]
      BY <2>3, <3>3 DEF ReaderRows
    <3>6. QED
      BY <2>5, <2>7, <3>4, <3>5
  <2>8. reader[r] # NoReader => k \in Keys /\ (~reader[r].excused => reader[r].value = Current(k))
    BY <2>1 DEF Reading, UpToDate
  <2>9. reader'[r] # NoReader => k \in Keys /\ (~reader'[r].excused =>
          reader'[r].value = Current(k)')
    BY <2>4, <2>6, <2>7, <2>8
  <2>10. QED
    BY <2>1, <2>6, <2>9 DEF Reading, UpToDate
<1>2. reader' \in [Readers -> ReaderRows]
  <2>1. reader' = [r \in Readers |-> reader'[r]]
    BY DEF ReadersOutdated
  <2>2. QED
    BY <1>1, <2>1
<1>3. QED
  BY <1>1, <1>2

\* A commit outdates entries of the keys that its call holds, and those of no other.
LEMMA CommitKeeps ==
  ASSUME CatalogueInv, NEW a \in Editors, CommitEdit(a)
  PROVE  CatalogueInv'
<1>1. /\ CatalogueKept /\ Named /\ CacheAgrees /\ Indexed
      /\ \A o \in Editors : Working(o) /\ Alone(o)
      /\ \A r \in Readers : Reading(r)
  BY DEF CatalogueInv
<1>2. PICK e, p, row : e = editor[a] /\ p = e.p /\ row = Merged(problem[p], e.seen, e.new)
  OBVIOUS
<1>3. /\ e.at = "read" /\ SlugFree(row.slug, p)
      /\ UNCHANGED <<tags, versions, detail, index, scene, drifted, judged, judging>>
      /\ problem' = [problem EXCEPT ![p] = row]
  BY <1>2 DEF CommitEdit, At, judgeVars
<1>4. /\ e \in EditorRows /\ p \in Problems /\ p # 0 /\ problem[p] \in ProblemRows
      /\ e.seen \in ProblemRows /\ e.new \in ProblemRows /\ e.keys \in SUBSET Keys
  <2>1. e \in EditorRows /\ p \in Problems
    BY <1>1, <1>2, <1>3 DEF CatalogueKept, Working
  <2>2. QED
    BY <1>1, <2>1, CatalogueConstants DEF CatalogueKept, EditorRows
<1>5. /\ {"tags", e.new.slug} \subseteq e.keys /\ e.new.slug \in Slugs
      /\ e.new.version \in 1 .. versions[p]
      /\ e.seen.version # 0 => Stored(p) /\ e.seen.slug \in e.keys
      /\ e.seen.version = 0 => e.seen.slug = ""
  BY <1>1, <1>2, <1>3, <1>4 DEF Working
<1>6. /\ row \in ProblemRows
      /\ row.slug = IF e.new.slug = e.seen.slug THEN problem[p].slug ELSE e.new.slug
      /\ row.version = IF e.new.version = e.seen.version THEN problem[p].version ELSE e.new.version
      /\ problem[p] = e.seen => row = e.new
  BY <1>2, <1>4, MergedIs
<1>7. versions[p] \in Nat /\ problem[p].version \in 0 .. versions[p]
  BY <1>1, <1>4, CatalogueConstants DEF CatalogueKept, Named
<1>8. row.slug \in Slugs /\ row.version \in 1 .. versions[p]
  <2>1. row.slug \in Slugs
    <3>1. CASE e.new.slug # e.seen.slug
      BY <1>5, <1>6, <3>1
    <3>2. CASE e.new.slug = e.seen.slug
      <4>1. e.seen.version # 0
        BY <1>5, <3>2, CatalogueConstants
      <4>2. problem[p].slug # ""
        BY <1>1, <1>4, <1>5, <4>1 DEF Named, Stored
      <4>3. QED
        BY <1>4, <1>6, <3>2, <4>2 DEF ProblemRows
    <3>3. QED
      BY <3>1, <3>2
  <2>2. PICK v, w, x, y : /\ v = row.version /\ w = e.new.version /\ x = versions[p]
                          /\ y = problem[p].version
    OBVIOUS
  <2>3. x \in Nat /\ w \in 1 .. x /\ y \in 0 .. x /\ (v = w \/ v = y)
    BY <1>5, <1>6, <1>7, <2>2
  <2>4. ASSUME v # w PROVE y # 0
    <3>1. e.new.version = e.seen.version
      BY <1>6, <2>2, <2>4
    <3>2. e.seen.version # 0
      BY <2>2, <2>3, <3>1
    <3>3. QED
      BY <1>5, <2>2, <3>2 DEF Stored
  <2>5. v \in 1 .. x
    BY <2>3, <2>4
  <2>6. QED
    BY <2>1, <2>2, <2>5
<1>9. /\ problem' \in [Problems -> ProblemRows] /\ problem'[p] = row
      /\ \A q \in Problems \ {p} : problem'[q] = problem[q]
  BY <1>1, <1>3, <1>4, <1>6 DEF CatalogueKept
<1>10. PICK lost : lost = {problem[p].slug} \ {e.seen.slug}
  OBVIOUS
<1>11. PICK n : n = [[[e EXCEPT !.at = "committed"] EXCEPT !.seen = NoRow] EXCEPT !.moved = lost]
  OBVIOUS
<1>12. editor' = [editor EXCEPT ![a] = n]
  BY <1>2, <1>10, <1>11 DEF CommitEdit
<1>13. /\ n \in EditorRows /\ n.at = "committed" /\ n.p = p /\ n.new = e.new /\ n.keys = e.keys
       /\ n.moved = lost /\ n.met = e.met
  <2>1. NoRow \in ProblemRows
    BY DEF NoRow, ProblemRows
  <2>2. lost \in SUBSET (Slugs \union {""})
    BY <1>4, <1>10 DEF ProblemRows
  <2>3. QED
    BY <1>2, <1>4, <1>11, <2>1, <2>2 DEF EditorRows
<1>14. /\ editor' \in [Editors -> EditorRows] /\ editor'[a] = n
       /\ \A o \in Editors \ {a} : editor'[o] = editor[o]
  BY <1>1, <1>12, <1>13 DEF CatalogueKept
<1>15. \A k \in Keys : k \notin e.keys \union lost => Current(k)' = Current(k)
  <2>1. TAKE k \in Keys
  <2>2. HAVE k \notin e.keys \union lost
  <2>3. k # ""
    BY CatalogueConstants DEF Keys
  <2>4. k # "tags" /\ k # problem[p].slug /\ k # row.slug
    BY <1>5, <1>6, <1>10, <2>2, <2>3
  <2>5. QED
    BY <1>1, <1>3, <1>4, <1>6, <2>4, CommitAnswers DEF CatalogueKept
<1>16. reader' \in [Readers -> ReaderRows] /\ \A r \in Readers : Reading(r)'
  <2>1. ReadersOutdated
    BY DEF CommitEdit
  <2>2. QED
    BY <1>1, <2>1, Outdating DEF CatalogueKept
<1>17. CatalogueKept'
  BY <1>1, <1>3, <1>9, <1>14, <1>16 DEF CatalogueKept, JudgesKept
<1>18. Named'
  <2>1. \A q \in Problems : problem'[q].version \in 0 .. versions[q] /\
          index[q] \in 0 .. versions[q]
    <3>1. row.version \in 0 .. versions[p]
      BY <1>7, <1>8
    <3>2. QED
      BY <1>1, <1>9, <3>1 DEF Named
  <2>2. row.version # 0 /\ row.slug # ""
    <3>1. row.slug # ""
      BY <1>8, CatalogueConstants
    <3>2. row.version # 0
      BY <1>7, <1>8
    <3>3. QED
      BY <3>1, <3>2
  <2>3. \A q \in Problems : problem'[q].slug = "" <=> problem'[q].version = 0
    BY <1>1, <1>9, <2>2 DEF Named
  <2>4. \A q, x \in Problems : problem'[q].version # 0 /\ problem'[q].slug = problem'[x].slug =>
          q = x
    BY <1>1, <1>3, <1>9 DEF Named, Stored, SlugFree
  <2>5. QED
    BY <1>3, <2>1, <2>3, <2>4 DEF Named, Stored
<1>19. ASSUME NEW o \in Editors PROVE Working(o)' /\ Alone(o)'
  <2>1. CASE o = a
    <3>1. Working(a)'
      BY <1>3, <1>5, <1>13, <1>14 DEF Working
    <3>2. Alone(a)'
      <4>1. ASSUME ~e.met
            PROVE  /\ \A u \in Editors : editor[u].at # "idle" /\ editor[u].p = p => u = a
                   /\ problem[p] = e.seen
        BY <1>1, <1>2, <1>3, <1>4, <4>1 DEF Alone
      <4>2. QED
        BY <1>6, <1>9, <1>13, <1>14, <4>1 DEF Alone
    <3>3. QED
      BY <2>1, <3>1, <3>2
  <2>2. CASE o # a
    <3>1. editor'[o] = editor[o] /\ Working(o) /\ Alone(o)
      BY <1>1, <1>14, <2>2
    <3>2. Alike(o)
      BY <3>1 DEF Alike
    <3>3. Working(o)'
      <4>1. \A q \in Problems : Stored(q) => Stored(q)'
        BY <1>7, <1>8, <1>9 DEF Stored
      <4>2. \A q \in Problems : versions[q] <= versions'[q]
        <5>1. versions \in [Problems -> 0 .. MaxVersion] /\ 0 .. MaxVersion \subseteq Nat
          BY <1>1, CatalogueConstants DEF CatalogueKept
        <5>2. \A q \in Problems : versions[q] \in Nat
          BY <5>1
        <5>3. QED
          BY <1>3, <5>2
      <4>3. QED
        BY <1>1, <1>17, <3>1, <3>2, <4>1, <4>2, WorkingStays
    <3>4. Alone(o)'
      <4>1. SUFFICES ASSUME editor[o].at # "idle", editor[o].p # 0, ~editor[o].met
                     PROVE  /\ \A u \in Editors : editor'[u].at # "idle" /\
                                 editor'[u].p = editor[o].p => u = o
                            /\ problem'[editor[o].p] = IF editor[o].at =
                                 "read" THEN editor[o].seen ELSE editor[o].new
        BY <3>1 DEF Alone
      <4>2. /\ \A u \in Editors : editor[u].at # "idle" /\ editor[u].p = editor[o].p => u = o
            /\ problem[editor[o].p] = IF editor[o].at = "read" THEN editor[o].seen
                 ELSE editor[o].new
        BY <3>1, <4>1 DEF Alone
      <4>3. editor[o].p # p
        BY <1>2, <1>3, <2>2, <4>2
      <4>4. problem'[editor[o].p] = problem[editor[o].p]
        BY <1>1, <1>9, <4>1, <4>3 DEF CatalogueKept, EditorRows
      <4>5. QED
        BY <1>13, <1>14, <4>2, <4>3, <4>4
    <3>5. QED
      BY <3>3, <3>4
  <2>3. QED
    BY <2>1, <2>2
<1>20. CacheAgrees'
  <2>1. SUFFICES ASSUME NEW k \in Keys, detail'[k].has, ~detail'[k].excused,
                          detail'[k].value # Current(k)', ~JudgeTends(k)'
                 PROVE  \E o \in Editors : editor'[o].at = "committed" /\
                          k \in editor'[o].keys \union editor'[o].moved
    BY DEF CacheAgrees, At, JudgeTends
  <2>2. CASE k \in e.keys \union lost
    BY <1>13, <1>14, <2>2
  <2>3. CASE k \notin e.keys \union lost
    <3>1. PICK o \in Editors : editor[o].at = "committed" /\
                 k \in editor[o].keys \union editor[o].moved
      BY <1>1, <1>3, <1>15, <2>1, <2>3 DEF CacheAgrees, At, JudgeTends
    <3>2. QED
      BY <1>2, <1>3, <1>14, <3>1
  <2>4. QED
    BY <2>2, <2>3
<1>21. Indexed'
  <2>1. SUFFICES ASSUME "rag" \in scene, NEW q \in Problems \ drifted
                 PROVE  \/ index[q] = Wanted(q)'
                        \/ \E o \in Editors : editor'[o].at \in {"committed",
                             "invalidated"} /\ editor'[o].p = q
    BY <1>3 DEF Indexed
  <2>2. CASE q = p
    BY <1>13, <1>14, <2>2
  <2>3. CASE q # p
    <3>1. Wanted(q)' = Wanted(q)
      BY <1>9, <2>3 DEF Wanted, Shown
    <3>2. QED
      BY <1>1, <1>2, <1>3, <1>14, <2>1, <3>1 DEF Indexed
  <2>4. QED
    BY <2>2, <2>3
<1>22. QED
  BY <1>16, <1>17, <1>18, <1>19, <1>20, <1>21 DEF CatalogueInv

-----------------------------------------------------------------------------
\* A judge that reads the slug of its problem changes nothing that readers are told.
LEMMA JudgeLoadsKeeps ==
  ASSUME CatalogueInv, NEW j \in Judgings, NEW p \in Problems, JudgeLoads(j, p)
  PROVE  CatalogueInv'
<1>1. /\ CatalogueKept /\ JudgesKept /\ CacheAgrees /\ \A r \in Readers : Reading(r)
  BY DEF CatalogueInv, CatalogueKept
<1>2. PICK n : n = [at |-> "loaded", p |-> p, slug |-> problem[p].slug, moved |-> {}]
  OBVIOUS
<1>3. /\ judging' = [judging EXCEPT ![j] = n] /\ judging[j].at = "none"
      /\ UNCHANGED <<problem, tags, versions, detail, index, editor, reader, scene, drifted>>
      /\ judged' = judged
  BY <1>2 DEF JudgeLoads
<1>4. n \in JudgingRows /\ n.p = p
  <2>1. problem[p].slug \in Slugs \union {""}
    BY <1>1 DEF CatalogueKept, ProblemRows
  <2>2. QED
    BY <1>2, <2>1 DEF JudgingRows
<1>5. judging'[j] = n /\ \A o \in Judgings \ {j} : judging'[o] = judging[o]
  BY <1>1, <1>3 DEF JudgesKept
<1>6. JudgesKept'
  BY <1>1, <1>3, <1>4, <1>5 DEF JudgesKept
<1>7. \A k : JudgeTends(k) => JudgeTends(k)'
  BY <1>3, <1>5 DEF JudgeTends
<1>8. CacheAgrees'
  <2>1. SUFFICES ASSUME NEW k \in Keys, detail'[k].has, ~detail'[k].excused,
                          detail'[k].value # Current(k)', ~JudgeTends(k)'
                 PROVE  \E o \in Editors : editor'[o].at = "committed" /\
                          k \in editor'[o].keys \union editor'[o].moved
    BY DEF CacheAgrees, At, JudgeTends
  <2>2. detail[k].value # Current(k) /\ ~JudgeTends(k)
    BY <1>3, <1>7, <2>1, SameAnswers
  <2>3. QED
    BY <1>1, <1>3, <2>1, <2>2 DEF CacheAgrees, At, JudgeTends
<1>9. \A r \in Readers : Reading(r)'
  BY <1>1, <1>3, ReadingStays
<1>10. detail' \in [Keys -> EntryRows] /\ reader' \in [Readers -> ReaderRows]
  BY <1>1, <1>3 DEF CatalogueKept
<1>11. QED
  BY <1>3, <1>6, <1>8, <1>9, <1>10, OthersKeep

\* The statistics of a problem are told under its slug and nowhere else.
LEMMA CountAnswers ==
  ASSUME NEW p \in Problems, NEW n, judged \in [Problems -> Nat],
         judged' = [judged EXCEPT ![p] = n], problem' = problem, tags' = tags,
         NEW k, k # problem[p].slug
  PROVE  Current(k)' = Current(k)
<1>1. PICK shown : shown = {q \in Problems : problem[q].slug = k /\ Shown(problem[q])}
  OBVIOUS
<1>2. \A q \in shown : judged'[q] = judged[q]
  BY <1>1
<1>3. k # "tags" => /\ Current(k) = {<<q, problem[q].version, judged[q]>> : q \in shown}
                    /\ Current(k)' = {<<q, problem[q].version, judged'[q]>> : q \in shown}
  BY <1>1 DEF Current, Shown
<1>4. CASE k = "tags"
  BY <1>4 DEF Current, Shown
<1>5. CASE k # "tags"
  BY <1>2, <1>3, <1>5
<1>6. QED
  BY <1>4, <1>5

\* The commit of a judge outdates the entry of the slug that its problem has by now.
LEMMA JudgeCountsKeeps ==
  ASSUME CatalogueInv, NEW j \in Judgings, JudgeCounts(j)
  PROVE  CatalogueInv'
<1>1. /\ CatalogueKept /\ JudgesKept /\ CacheAgrees /\ \A r \in Readers : Reading(r)
  BY DEF CatalogueInv, CatalogueKept
<1>2. PICK g, p, lost, n :
        /\ g = judging[j] /\ p = g.p /\ lost = {problem[p].slug} \ {g.slug}
        /\ n = [[g EXCEPT !.at = "counted"] EXCEPT !.moved = lost]
  OBVIOUS
<1>3. /\ g.at = "loaded" /\ judged' = [judged EXCEPT ![p] = @ + 1]
      /\ judging' = [judging EXCEPT ![j] = n] /\ ReadersOutdated
      /\ UNCHANGED <<problem, tags, versions, detail, index, editor, scene, drifted>>
  BY <1>2 DEF JudgeCounts
<1>4. g \in JudgingRows /\ p \in Problems /\ judged[p] \in Nat
  BY <1>1, <1>2, <1>3 DEF JudgesKept
<1>5. n \in JudgingRows /\ n.at = "counted" /\ n.slug = g.slug /\ n.moved = lost
  <2>1. problem[p] \in ProblemRows
    BY <1>1, <1>4 DEF CatalogueKept
  <2>2. problem[p].slug \in Slugs \union {""}
    BY <2>1 DEF ProblemRows
  <2>3. lost \in SUBSET (Slugs \union {""})
    BY <1>2, <2>2
  <2>4. QED
    BY <1>2, <1>4, <2>3 DEF JudgingRows
<1>6. judging'[j] = n /\ \A o \in Judgings \ {j} : judging'[o] = judging[o]
  BY <1>1, <1>3 DEF JudgesKept
<1>7. JudgesKept'
  <2>1. judged' \in [Problems -> Nat]
    BY <1>1, <1>3, <1>4 DEF JudgesKept
  <2>2. judging' \in [Judgings -> JudgingRows]
    BY <1>1, <1>3, <1>5 DEF JudgesKept
  <2>3. QED
    BY <1>1, <1>5, <1>6, <2>1, <2>2 DEF JudgesKept
<1>8. CacheAgrees'
  <2>1. SUFFICES ASSUME NEW k \in Keys, detail'[k].has, ~detail'[k].excused,
                          detail'[k].value # Current(k)', ~JudgeTends(k)'
                 PROVE  \E o \in Editors : editor'[o].at = "committed" /\
                          k \in editor'[o].keys \union editor'[o].moved
    BY DEF CacheAgrees, At, JudgeTends
  <2>2. k \notin {g.slug} \union lost
    BY <1>5, <1>6, <2>1 DEF JudgeTends
  <2>3. k # problem[p].slug
    BY <1>2, <2>2
  <2>4. Current(k)' = Current(k)
    BY <1>1, <1>3, <1>4, <2>3, CountAnswers DEF JudgesKept
  <2>5. ~JudgeTends(k)
    BY <1>2, <1>3, <1>6, <2>1 DEF JudgeTends
  <2>6. QED
    BY <1>1, <1>3, <2>1, <2>4, <2>5 DEF CacheAgrees, At, JudgeTends
<1>9. reader' \in [Readers -> ReaderRows] /\ \A r \in Readers : Reading(r)'
  BY <1>1, <1>3, Outdating DEF CatalogueKept
<1>10. detail' \in [Keys -> EntryRows]
  BY <1>1, <1>3 DEF CatalogueKept
<1>11. QED
  BY <1>3, <1>7, <1>8, <1>9, <1>10, OthersKeep

\* The entry of the slug that the judge read is deleted, or excused with that of the slug that
\* an admin gave the problem meanwhile.
LEMMA JudgeDeletesKeeps ==
  ASSUME CatalogueInv, NEW j \in Judgings, JudgeDeletes(j)
  PROVE  CatalogueInv'
<1>1. /\ CatalogueKept /\ JudgesKept /\ CacheAgrees /\ \A r \in Readers : Reading(r)
  BY DEF CatalogueInv, CatalogueKept
<1>2. PICK g, n : g = judging[j] /\ n = [g EXCEPT !.at = "over"]
  OBVIOUS
<1>3. /\ g.at = "counted" /\ Deletes({g.slug}, g.moved) /\ judging' = [judging EXCEPT ![j] = n]
      /\ UNCHANGED <<problem, tags, versions, index, editor, reader, scene, drifted, judged>>
  BY <1>2 DEF JudgeDeletes
<1>4. n \in JudgingRows /\ n.at = "over"
  BY <1>1, <1>2 DEF JudgesKept, JudgingRows
<1>5. judging'[j] = n /\ \A o \in Judgings \ {j} : judging'[o] = judging[o]
  BY <1>1, <1>3 DEF JudgesKept
<1>6. JudgesKept'
  BY <1>1, <1>3, <1>4, <1>5 DEF JudgesKept
<1>7. /\ detail' \in [Keys -> EntryRows]
      /\ \A k \in Keys : detail'[k].has /\ ~detail'[k].excused =>
           /\ detail[k].has /\ ~detail[k].excused /\ k \notin {g.slug} \union g.moved
           /\ detail'[k].value = detail[k].value
  BY <1>1, <1>3, Deleting DEF CatalogueKept
<1>8. CacheAgrees'
  <2>1. SUFFICES ASSUME NEW k \in Keys, detail'[k].has, ~detail'[k].excused,
                          detail'[k].value # Current(k)', ~JudgeTends(k)'
                 PROVE  \E o \in Editors : editor'[o].at = "committed" /\
                          k \in editor'[o].keys \union editor'[o].moved
    BY DEF CacheAgrees, At, JudgeTends
  <2>2. /\ detail[k].has /\ ~detail[k].excused /\ k \notin {g.slug} \union g.moved
        /\ detail[k].value # Current(k)
    BY <1>3, <1>7, <2>1, SameAnswers
  <2>3. ~JudgeTends(k)
    BY <1>2, <1>5, <2>1, <2>2 DEF JudgeTends
  <2>4. QED
    BY <1>1, <1>3, <2>2, <2>3 DEF CacheAgrees, At, JudgeTends
<1>9. \A r \in Readers : Reading(r)'
  BY <1>1, <1>3, ReadingStays
<1>10. reader' \in [Readers -> ReaderRows]
  BY <1>1, <1>3 DEF CatalogueKept
<1>11. QED
  BY <1>3, <1>6, <1>7, <1>8, <1>9, <1>10, OthersKeep

-----------------------------------------------------------------------------
\* In the beginning nothing is cached, and the index has what is shown.
LEMMA CatalogueBegins == CatalogueInit => CatalogueInv
<1> SUFFICES ASSUME CatalogueInit PROVE CatalogueInv
  OBVIOUS
<1>1. PICK s \in Slugs, b \in BOOLEAN :
        problem = [p \in Problems |->
          IF p = 1 THEN [NoRow EXCEPT !.version = 1, !.slug = s, !.published = b] ELSE NoRow]
  BY DEF CatalogueInit
<1>2. PICK n : n = [[[NoRow EXCEPT !.version = 1] EXCEPT !.slug = s] EXCEPT !.published = b]
  OBVIOUS
<1>3. NoRow \in ProblemRows /\ NoRow.version = 0 /\ NoRow.slug = "" /\ ~NoRow.published
  BY DEF NoRow, ProblemRows
<1>4. n \in ProblemRows /\ n.version = 1 /\ n.slug = s
  BY <1>2, <1>3 DEF ProblemRows
<1>5. 1 \in Problems /\ s # ""
  BY CatalogueAssumption, CatalogueConstants
<1>6. /\ problem \in [Problems -> ProblemRows] /\ problem[1] = n
      /\ \A q \in Problems \ {1} : problem[q] = NoRow
  BY <1>1, <1>2, <1>3, <1>4, <1>5
<1>7. MaxVersion \in Nat \ {0} /\ MaxTags \in Nat
  <2>1. MaxVersion \in Nat \ {0}
    BY CatalogueAssumption
  <2>2. QED
    BY <2>1, CatalogueConstants
<1>8. \A q \in Problems : problem[q].version \in {0, 1} /\ problem[q].version \in 0 .. MaxVersion
  <2>1. TAKE q \in Problems
  <2>2. problem[q] = n \/ problem[q] = NoRow
    BY <1>6
  <2>3. problem[q].version \in {0, 1}
    BY <1>3, <1>4, <2>2
  <2>4. 0 \in 0 .. MaxVersion /\ 1 \in 0 .. MaxVersion
    BY <1>7
  <2>5. QED
    BY <2>3, <2>4
<1>9. /\ versions = [p \in Problems |-> problem[p].version]
      /\ index = [p \in Problems |-> IF Shown(problem[p]) THEN 1 ELSE 0]
      /\ tags = 0 /\ detail = [k \in Keys |-> Nothing] /\ editor = [a \in Editors |-> NoEditor]
      /\ reader = [r \in Readers |-> NoReader] /\ scene \in Scenes /\ drifted = {}
      /\ judged = [p \in Problems |-> 0] /\ judging = [j \in Judgings |-> NoJudging]
  BY DEF CatalogueInit
<1>10. /\ NoEditor \in EditorRows /\ NoEditor.at = "idle"
       /\ Nothing \in EntryRows /\ ~Nothing.has /\ NoReader \in ReaderRows
  BY DEF NoEditor, NoRow, Nothing, NoReader, EditorRows, ProblemRows, EntryRows, ReaderRows, Keys,
         Lookups
<1>11. CatalogueKept
  <2>1. versions \in [Problems -> 0 .. MaxVersion] /\ index \in [Problems -> Nat]
    BY <1>8, <1>9
  <2>2. tags \in 0 .. MaxTags
    BY <1>7, <1>9
  <2>3. JudgesKept
    <3>1. NoJudging \in JudgingRows /\ NoJudging.at = "none"
      BY DEF NoJudging, JudgingRows
    <3>2. QED
      BY <1>9, <3>1 DEF JudgesKept
  <2>4. QED
    BY <1>6, <1>9, <1>10, <2>1, <2>2, <2>3 DEF CatalogueKept
<1>12. \A q \in Problems : Shown(problem[q]) => q = 1
  BY <1>3, <1>6 DEF Shown
<1>13. \A q \in Problems : index[q] = Wanted(q)
  BY <1>4, <1>6, <1>9, <1>12 DEF Wanted
<1>14. Named
  <2>1. \A q \in Problems : problem[q].version \in 0 .. versions[q] /\ index[q] \in 0 .. versions[q]
    <3>1. TAKE q \in Problems
    <3>2. PICK v, w, i : v = problem[q].version /\ w = versions[q] /\ i = index[q]
      OBVIOUS
    <3>3. v \in {0, 1} /\ w = v /\ (i = 0 \/ i = v)
      BY <1>8, <1>9, <1>13, <3>2 DEF Wanted
    <3>4. v \in 0 .. w /\ i \in 0 .. w
      BY <3>3
    <3>5. QED
      BY <3>2, <3>4
  <2>2. \A q \in Problems : problem[q].version # 0 <=> q = 1
    <3>1. TAKE q \in Problems
    <3>2. CASE q = 1
      BY <1>4, <1>6, <3>2
    <3>3. CASE q # 1
      <4>1. problem[q] = NoRow
        BY <1>6, <3>3
      <4>2. QED
        BY <1>3, <3>3, <4>1
    <3>4. QED
      BY <3>2, <3>3
  <2>3. \A q \in Problems : problem[q].slug # "" <=> q = 1
    BY <1>3, <1>4, <1>5, <1>6
  <2>4. QED
    BY <2>1, <2>2, <2>3, <1>5 DEF Named, Stored
<1>15. \A a \in Editors : Working(a) /\ Alone(a)
  BY <1>9, <1>10 DEF Working, Alone
<1>16. \A r \in Readers : Reading(r)
  BY <1>9 DEF Reading, UpToDate
<1>17. CacheAgrees /\ Indexed
  BY <1>9, <1>10, <1>13 DEF CacheAgrees, Indexed
<1>18. QED
  BY <1>11, <1>14, <1>15, <1>16, <1>17 DEF CatalogueInv

\* Cache and index follow the admins' calls, from one state to the next.
THEOREM CatalogueInvariant == CatalogueSpec => []CatalogueInv
<1>1. ASSUME CatalogueInv, CatalogueNext PROVE CatalogueInv'
  BY <1>1, WriteContentKeeps, ChangeStateKeeps, CreateTagKeeps, CommitKeeps, ConflictsKeep,
     InvalidateKeeps, ReindexKeeps, ReadRowsKeeps, FillCacheKeeps, EntryExpiresKeeps,
     JudgeLoadsKeeps, JudgeCountsKeeps, JudgeDeletesKeeps
  DEF CatalogueNext, Create, Update
<1>2. ASSUME CatalogueInv, UNCHANGED catalogueVars PROVE CatalogueInv'
  <2>1. UNCHANGED <<problem, tags, versions, detail, index, editor, reader, scene, drifted, judged,
                    judging>>
    BY <1>2 DEF catalogueVars, judgeVars
  <2>2. CatalogueKept /\ CacheAgrees /\ \A o \in Readers : Reading(o)
    BY <1>2 DEF CatalogueInv
  <2>3. detail' \in [Keys -> EntryRows] /\ reader' \in [Readers -> ReaderRows] /\ JudgesKept'
    BY <2>1, <2>2 DEF CatalogueKept, JudgesKept
  <2>4. \A r \in Readers : Reading(r)'
    BY <2>1, <2>2, ReadingStays
  <2>5. CacheAgrees'
    BY <2>1, <2>2, SameAnswers DEF CacheAgrees, At
  <2>6. QED
    BY <1>2, <2>1, <2>3, <2>4, <2>5, OthersKeep
<1>3. QED
  BY <1>1, <1>2, CatalogueBegins, PTL DEF CatalogueSpec

\* Readers get from the cache what the database would tell them, but for the entries excused.
THEOREM CacheFollows == CatalogueSpec => []CacheAgrees
<1>1. CatalogueInv => CacheAgrees
  BY DEF CatalogueInv
<1>2. QED
  BY <1>1, CatalogueInvariant, PTL

\* When nobody is at work on a problem and nothing failed, the index holds what readers see.
THEOREM IndexIsCurrent == CatalogueSpec => []IndexFollows
<1>1. ASSUME CatalogueInv PROVE IndexFollows
  <2>1. SUFFICES ASSUME NEW p \in Problems \ drifted, "rag" \in scene, ~Meets(p)
                 PROVE  index[p] = Wanted(p)
    BY DEF IndexFollows, Wanted
  <2>2. \A a \in Editors : editor[a].p = p => editor[a].at = "idle"
    <3>1. NoEditor.at = "idle"
      BY DEF NoEditor
    <3>2. QED
      BY <2>1, <3>1 DEF Meets
  <2>3. QED
    BY <1>1, <2>1, <2>2 DEF CatalogueInv, Indexed
<1>2. QED
  BY <1>1, CatalogueInvariant, PTL

\* The types, and that no two problems share a slug.
THEOREM CatalogueTyped == CatalogueSpec => []CatalogueTypeOK
<1>1. ASSUME CatalogueInv PROVE CatalogueTypeOK
  <2>1. CatalogueKept /\ Named
    BY <1>1 DEF CatalogueInv
  <2>2. \A p \in Problems :
          /\ versions[p] \in 0 .. MaxVersion /\ problem[p].version \in 0 .. versions[p]
          /\ problem[p].slug \in Slugs \union {""} /\ index[p] \in 0 .. versions[p]
          /\ problem[p].published \in BOOLEAN /\ problem[p].archived \in BOOLEAN
    BY <2>1 DEF CatalogueKept, Named, ProblemRows
  <2>3. \A k \in Keys : detail[k].has \in BOOLEAN /\ detail[k].excused \in BOOLEAN
    BY <2>1 DEF CatalogueKept, EntryRows
  <2>4. \A a \in Editors : /\ editor[a].at \in {"idle", "read", "committed", "invalidated"}
                           /\ editor[a].keys \subseteq Keys
    BY <2>1 DEF CatalogueKept, EditorRows
  <2>5. \A r \in Readers : reader[r].key \in Keys \union {""}
    BY <2>1 DEF CatalogueKept, ReaderRows
  <2>6. /\ judged \in [Problems -> Nat]
        /\ \A j \in Judgings : judging[j].at \in {"none", "loaded", "counted", "over"}
    BY <2>1 DEF CatalogueKept, JudgesKept, JudgingRows
  <2>7. QED
    BY <2>1, <2>2, <2>3, <2>4, <2>5, <2>6 DEF CatalogueTypeOK, CatalogueKept, Named
<1>2. QED
  BY <1>1, CatalogueInvariant, PTL

-----------------------------------------------------------------------------
(* The rate limiter                                                         *)

\* What is known of a request.
HitRows == [at : States, stamp : 0 .. MaxTime, crowded : BOOLEAN, overtaken : BOOLEAN,
            forgotten : BOOLEAN, retryAfter : 0 .. 2 * Window]

\* The requests that are in hand, and those that have counted themselves.
Pending == {"stamped", "over", "removed"}
Counting == States \ {"new", "stamped"}

\* No stamp is of the future, and what is in hand was stamped within the window.
Stamped ==
  \A h \in Hits : /\ hit[h].stamp <= time
                  /\ hit[h].at \in Pending => time < hit[h].stamp + Window

\* In the set is nobody who has not counted or has taken itself out.
Present == \A h \in window : hit[h].at \in {"over", "allowed", "unlimited"}

\* Who was admitted is in the set until one counts whose window it has left, or the set goes.
Remembered ==
  \A h \in Hits : hit[h].at = "allowed" /\ ~hit[h].forgotten =>
    h \in window \/ \E o \in Hits : hit[o].at \in Counting /\ hit[o].stamp >= hit[h].stamp + Window

\* No window, whenever it ends, has admitted too many.
Admitted(t) ==
  {h \in Hits : /\ hit[h].at = "allowed" /\ ~hit[h].overtaken /\ ~hit[h].forgotten
                /\ hit[h].stamp \in t - Window + 1 .. t}
Bounded == \A t \in Nat : Cardinality(Admitted(t)) <= MaxHits

\* Who was refused, though no other that was refused stood in the set, has met that many.
Ahead(h) == Since(h, (Told("allowed") \union Told("unlimited")) \ {h})
Full ==
  \A h \in Hits : hit[h].at \in {"over", "removed", "rejected"} /\ ~hit[h].crowded =>
    Cardinality(Ahead(h)) >= MaxHits

LimiterInv == LimiterTypeOK /\ Stamped /\ Present /\ Remembered /\ Bounded /\ Full

-----------------------------------------------------------------------------
\* What the constants are.
LEMMA LimiterConstants ==
  /\ MaxHits \in Nat \ {0} /\ Window \in Nat \ {0} /\ MaxTime \in Nat /\ IsFiniteSet(Hits)
<1>1. MaxHits \in Nat \ {0} /\ Window \in Nat \ {0} /\ MaxTime \in Nat
  BY RateLimiterAssumption
<1>2. IsFiniteSet(Hits)
  BY RateLimiterAssumption
<1>3. QED
  BY <1>1, <1>2

\* A set of numbers has a least one.
LEMMA LeastNumber ==
  ASSUME NEW T, T \subseteq Nat, T # {}
  PROVE  \E x \in T : \A y \in T : x <= y
<1>1. PICK R : R = OpToRel(<, Nat)
  OBVIOUS
<1>2. IsWellFoundedOn(R, Nat)
  BY <1>1, NatLessThanWellFounded
<1>3. PICK x \in T : \A y \in T : ~ (<<y, x>> \in R)
  BY <1>2, WFMin
<1>4. ASSUME NEW y \in T
      PROVE  x <= y
  <2>1. <<y, x>> \notin OpToRel(<, Nat)
    BY <1>1, <1>3
  <2>2. ~ (y < x)
    BY <2>1 DEF OpToRel
  <2>3. QED
    BY <2>2
<1>5. QED
  BY <1>4

\* A step changes one request.
LEMMA OthersStay ==
  ASSUME hit \in [Hits -> HitRows], NEW h \in Hits, NEW n \in HitRows,
         hit' = [hit EXCEPT ![h] = n]
  PROVE  /\ hit' \in [Hits -> HitRows] /\ hit'[h] = n
         /\ \A o \in Hits \ {h} : hit'[o] = hit[o]
OBVIOUS

\* A step that admits nobody admits nobody too many.
LEMMA BoundedStays ==
  ASSUME hit \in [Hits -> HitRows], NEW h \in Hits, NEW n \in HitRows,
         hit' = [hit EXCEPT ![h] = n], hit[h].at # "allowed", n.at # "allowed", Bounded
  PROVE  Bounded'
<1>1. /\ hit'[h] = n /\ \A o \in Hits \ {h} : hit'[o] = hit[o]
  BY OthersStay
<1>2. ASSUME NEW t \in Nat PROVE Admitted(t)' = Admitted(t)
  BY <1>1 DEF Admitted
<1>3. QED
  BY <1>2 DEF Bounded

\* Who is ahead of a request that was refused remains so.
LEMMA FullStays ==
  ASSUME hit \in [Hits -> HitRows], NEW h \in Hits, NEW n \in HitRows,
         hit' = [hit EXCEPT ![h] = n], hit[h].at \notin {"allowed", "unlimited"}, Full,
         NEW o \in Hits, hit'[o].at \in {"over", "removed", "rejected"}, ~hit'[o].crowded,
         o = h => hit[h].at \in {"over", "removed"} /\ n.stamp = hit[h].stamp /\
           n.crowded = hit[h].crowded
  PROVE  Cardinality(Ahead(o)') >= MaxHits
<1>1. /\ hit'[h] = n /\ \A x \in Hits \ {h} : hit'[x] = hit[x]
  BY OthersStay
<1>2. /\ hit[o].at \in {"over", "removed", "rejected"} /\ ~hit[o].crowded
      /\ hit'[o].stamp = hit[o].stamp
  BY <1>1
<1>3. Ahead(o) \subseteq Ahead(o)' /\ Ahead(o)' \subseteq Hits
  BY <1>1, <1>2 DEF Ahead, Since, Told
<1>4. Cardinality(Ahead(o)) >= MaxHits
  BY <1>2 DEF Full
<1>5. /\ Cardinality(Ahead(o)) \in Nat /\ Cardinality(Ahead(o)') \in Nat
      /\ Cardinality(Ahead(o)) <= Cardinality(Ahead(o)')
  <2>1. PICK A, B : A = Ahead(o) /\ B = Ahead(o)'
    OBVIOUS
  <2>2. IsFiniteSet(B) /\ A \in SUBSET B
    BY <1>3, <2>1, LimiterConstants, FS_Subset
  <2>3. IsFiniteSet(A) /\ Cardinality(A) <= Cardinality(B)
    BY <2>2, FS_Subset
  <2>4. Cardinality(A) \in Nat /\ Cardinality(B) \in Nat
    BY <2>2, <2>3, FS_CardinalityType
  <2>5. QED
    BY <2>1, <2>3, <2>4
<1>6. QED
  BY <1>4, <1>5, LimiterConstants

\* Who was admitted stays in the set, as long as only one that was not is taken out.
LEMMA RememberedStays ==
  ASSUME hit \in [Hits -> HitRows], NEW h \in Hits, NEW n \in HitRows,
         hit' = [hit EXCEPT ![h] = n], hit[h].at # "allowed", n.at # "allowed",
         hit[h].at \in Counting => n.at \in Counting /\ n.stamp = hit[h].stamp,
         window \ {h} \subseteq window', Remembered
  PROVE  Remembered'
<1>1. /\ hit'[h] = n /\ \A o \in Hits \ {h} : hit'[o] = hit[o]
  BY OthersStay
<1>2. SUFFICES ASSUME NEW e \in Hits, hit'[e].at = "allowed", ~hit'[e].forgotten
               PROVE  e \in window' \/ \E o \in Hits : hit'[o].at \in Counting /\
                        hit'[o].stamp >= hit'[e].stamp + Window
  BY DEF Remembered
<1>3. e # h /\ hit'[e] = hit[e] /\ hit[e].at = "allowed" /\ ~hit[e].forgotten
  BY <1>1, <1>2
<1>4. CASE e \in window
  BY <1>3, <1>4
<1>5. CASE \E o \in Hits : hit[o].at \in Counting /\ hit[o].stamp >= hit[e].stamp + Window
  <2>1. PICK o \in Hits : hit[o].at \in Counting /\ hit[o].stamp >= hit[e].stamp + Window
    BY <1>5
  <2>2. hit'[o].at \in Counting /\ hit'[o].stamp = hit[o].stamp
    BY <1>1, <2>1
  <2>3. QED
    BY <1>3, <2>1, <2>2
<1>6. QED
  BY <1>3, <1>4, <1>5 DEF Remembered

\* A stamp is the time at which the request began; a request that goes on keeps it.
LEMMA StampedStays ==
  ASSUME hit \in [Hits -> HitRows], NEW h \in Hits, NEW n \in HitRows, time' = time, time \in Nat,
         hit' = [hit EXCEPT ![h] = n],
         \/ n.stamp = hit[h].stamp /\ (n.at \in Pending => hit[h].at \in Pending)
         \/ n.stamp = time,
         Stamped
  PROVE  Stamped'
<1>1. /\ hit'[h] = n /\ \A o \in Hits \ {h} : hit'[o] = hit[o]
  BY OthersStay
<1>2. ASSUME NEW o \in Hits
      PROVE  hit'[o].stamp <= time /\ (hit'[o].at \in Pending => time < hit'[o].stamp + Window)
  <2>1. hit[o].stamp <= time /\ (hit[o].at \in Pending => time < hit[o].stamp + Window)
    BY DEF Stamped
  <2>2. CASE o # h
    BY <1>1, <2>1, <2>2
  <2>3. CASE o = h /\ n.stamp = time
    BY <1>1, <2>3, LimiterConstants
  <2>4. CASE o = h /\ n.stamp = hit[h].stamp /\ (n.at \in Pending => hit[h].at \in Pending)
    BY <1>1, <2>1, <2>4
  <2>5. QED
    BY <2>2, <2>3, <2>4
<1>3. QED
  BY <1>2 DEF Stamped

\* A request that counts itself forgets only those whose window it has left.
LEMMA CountRemembers ==
  ASSUME hit \in [Hits -> HitRows], NEW h \in Hits, NEW n \in HitRows,
         hit' = [hit EXCEPT ![h] = n], hit[h].at = "stamped", n.at \in Counting,
         n.stamp = hit[h].stamp, window' = Since(h, window) \union {h}, Remembered
  PROVE  Remembered'
<1>1. /\ hit'[h] = n /\ \A o \in Hits \ {h} : hit'[o] = hit[o]
  BY OthersStay
<1>2. SUFFICES ASSUME NEW e \in Hits, hit'[e].at = "allowed", ~hit'[e].forgotten
               PROVE  e \in window' \/ \E o \in Hits : hit'[o].at \in Counting /\
                        hit'[o].stamp >= hit'[e].stamp + Window
  BY DEF Remembered
<1>3. CASE e = h
  BY <1>3
<1>4. CASE e # h
  <2>1. hit'[e] = hit[e] /\ hit[e].at = "allowed" /\ ~hit[e].forgotten
    BY <1>1, <1>2, <1>4
  <2>2. CASE e \in window
    <3>1. PICK x, y : x = hit[e].stamp /\ y = hit[h].stamp
      OBVIOUS
    <3>2. x \in Nat /\ y \in Nat /\ Window \in Nat
      BY <3>1, LimiterConstants DEF HitRows
    <3>3. x > y - Window \/ y >= x + Window
      BY <3>2
    <3>4. CASE x > y - Window
      BY <2>2, <3>1, <3>4 DEF Since
    <3>5. CASE y >= x + Window
      BY <1>1, <2>1, <3>1, <3>5
    <3>6. QED
      BY <3>3, <3>4, <3>5
  <2>3. CASE \E o \in Hits : hit[o].at \in Counting /\ hit[o].stamp >= hit[e].stamp + Window
    <3>1. PICK o \in Hits : hit[o].at \in Counting /\ hit[o].stamp >= hit[e].stamp + Window
      BY <2>3
    <3>2. o # h
      BY <3>1 DEF Counting
    <3>3. QED
      BY <1>1, <2>1, <3>1, <3>2
  <2>4. QED
    BY <2>1, <2>2, <2>3 DEF Remembered
<1>5. QED
  BY <1>3, <1>4

\* A request is stamped with the present time.
LEMMA StampKeeps ==
  ASSUME LimiterInv, NEW h \in Hits, Stamp(h)
  PROVE  LimiterInv'
<1>1. /\ time \in 0 .. MaxTime /\ window \in SUBSET Hits /\ hit \in [Hits -> HitRows]
      /\ Stamped /\ Present /\ Remembered /\ Bounded /\ Full
  BY DEF LimiterInv, LimiterTypeOK, HitRows
<1>2. PICK n : n = [[hit[h] EXCEPT !.at = "stamped"] EXCEPT !.stamp = time]
  OBVIOUS
<1>3. n \in HitRows /\ n.at = "stamped" /\ n.stamp = time
  BY <1>1, <1>2 DEF HitRows, States
<1>4. hit' = [hit EXCEPT ![h] = n] /\ hit[h].at = "new" /\ time' = time /\ window' = window
  BY <1>2 DEF Stamp
<1>5. /\ hit' \in [Hits -> HitRows] /\ hit'[h] = n /\ \A o \in Hits \ {h} : hit'[o] = hit[o]
  BY <1>1, <1>3, <1>4, OthersStay
<1>6. LimiterTypeOK'
  BY <1>1, <1>4, <1>5 DEF LimiterTypeOK, HitRows
<1>7. Stamped'
  <2>1. time \in Nat
    BY <1>1, LimiterConstants
  <2>2. QED
    BY <1>1, <1>3, <1>4, <2>1, StampedStays
<1>8. Present'
  BY <1>1, <1>4, <1>5 DEF Present
<1>9. Remembered'
  <2>1. hit[h].at \notin Counting
    BY <1>4 DEF Counting
  <2>2. QED
    BY <1>1, <1>3, <1>4, <2>1, RememberedStays
<1>10. Bounded'
  BY <1>1, <1>3, <1>4, BoundedStays
<1>11. Full'
  <2>1. SUFFICES ASSUME NEW o \in Hits, hit'[o].at \in {"over", "removed", "rejected"},
                          ~hit'[o].crowded
                 PROVE  Cardinality(Ahead(o)') >= MaxHits
    BY DEF Full
  <2>2. o # h
    BY <1>3, <1>5, <2>1
  <2>3. QED
    BY <1>1, <1>3, <1>4, <2>1, <2>2, FullStays
<1>12. QED
  BY <1>6, <1>7, <1>8, <1>9, <1>10, <1>11 DEF LimiterInv

\* A request that was counted goes on to its answer: it may be taken out of the set.
LEMMA AnswerKeeps ==
  ASSUME LimiterInv, NEW h \in Hits, NEW n \in HitRows, hit' = [hit EXCEPT ![h] = n],
         hit[h].at \in {"over", "removed"}, n.at \in {"removed", "rejected", "unlimited"},
         n.stamp = hit[h].stamp, n.crowded = hit[h].crowded, time' = time,
         window' \in {window, window \ {h}}, n.at # "unlimited" => h \notin window'
  PROVE  LimiterInv'
<1>1. /\ time \in 0 .. MaxTime /\ window \in SUBSET Hits /\ hit \in [Hits -> HitRows]
      /\ Stamped /\ Present /\ Remembered /\ Bounded /\ Full
  BY DEF LimiterInv, LimiterTypeOK, HitRows
<1>2. /\ hit' \in [Hits -> HitRows] /\ hit'[h] = n /\ \A o \in Hits \ {h} : hit'[o] = hit[o]
  BY <1>1, OthersStay
<1>3. LimiterTypeOK'
  BY <1>1, <1>2 DEF LimiterTypeOK, HitRows
<1>4. Stamped'
  <2>1. time \in Nat /\ hit[h].at \in Pending
    BY <1>1, LimiterConstants DEF Pending
  <2>2. QED
    BY <1>1, <2>1, StampedStays
<1>5. Present'
  BY <1>1, <1>2 DEF Present
<1>6. Remembered'
  <2>1. n.at \in Counting
    BY DEF Counting, States
  <2>2. QED
    BY <1>1, <2>1, RememberedStays
<1>7. Bounded'
  BY <1>1, BoundedStays
<1>8. Full'
  <2>1. SUFFICES ASSUME NEW o \in Hits, hit'[o].at \in {"over", "removed", "rejected"},
                          ~hit'[o].crowded
                 PROVE  Cardinality(Ahead(o)') >= MaxHits
    BY DEF Full
  <2>2. QED
    BY <1>1, <2>1, FullStays
<1>9. QED
  BY <1>3, <1>4, <1>5, <1>6, <1>7, <1>8 DEF LimiterInv

\* Retry-After names a moment within two windows.
LEMMA RejectKeeps ==
  ASSUME LimiterInv, NEW h \in Hits, Reject(h)
  PROVE  LimiterInv'
<1>1. /\ time \in 0 .. MaxTime /\ window \in SUBSET Hits /\ hit \in [Hits -> HitRows]
      /\ Stamped /\ Present
  BY DEF LimiterInv, LimiterTypeOK, HitRows
<1>2. PICK stamps, y : stamps = {hit[e].stamp : e \in window} /\ y = hit[h].stamp
  OBVIOUS
<1>3. PICK oldest : oldest = CHOOSE s \in stamps : \A o \in stamps : s <= o
  OBVIOUS
<1>4. PICK wait : wait = IF stamps = {} THEN Window ELSE oldest + Window - y
  OBVIOUS
<1>5. PICK again : again = IF wait < 1 THEN 1 ELSE wait
  OBVIOUS
<1>6. /\ hit[h].at = "removed" /\ time' = time /\ window' = window
      /\ hit' = [hit EXCEPT ![h].at = "rejected", ![h].retryAfter = again]
  BY <1>2, <1>3, <1>4, <1>5 DEF Reject
<1>7. hit[h] \in HitRows /\ time \in Nat /\ y \in Nat /\ Window \in Nat \ {0}
  BY <1>1, <1>2, LimiterConstants DEF HitRows
<1>8. time < y + Window
  BY <1>1, <1>2, <1>6 DEF Stamped, Pending
<1>9. wait \in Int /\ wait <= 2 * Window
  <2>1. CASE stamps = {}
    <3>1. wait = Window /\ Window \in Nat
      BY <1>4, <1>7, <2>1
    <3>2. QED
      BY <3>1
  <2>2. CASE stamps # {}
    <3>1. stamps \subseteq Nat
      BY <1>1, <1>2, LimiterConstants DEF HitRows
    <3>2. oldest \in stamps
      BY <1>3, <2>2, <3>1, LeastNumber
    <3>3. oldest \in Nat /\ oldest <= time
      <4>1. PICK e \in window : oldest = hit[e].stamp
        BY <1>2, <3>2
      <4>2. QED
        BY <1>1, <3>1, <3>2, <4>1 DEF Stamped
    <3>4. QED
      BY <1>4, <1>7, <1>8, <2>2, <3>3
  <2>3. QED
    BY <2>1, <2>2
<1>10. again \in 0 .. 2 * Window
  BY <1>5, <1>7, <1>9
<1>11. PICK n : n = [[hit[h] EXCEPT !.at = "rejected"] EXCEPT !.retryAfter = again]
  OBVIOUS
<1>12. /\ n \in HitRows /\ n.at = "rejected" /\ n.stamp = hit[h].stamp /\ n.crowded = hit[h].crowded
  BY <1>7, <1>10, <1>11 DEF HitRows, States
<1>13. hit' = [hit EXCEPT ![h] = n]
  BY <1>6, <1>11
<1>14. h \notin window'
  BY <1>1, <1>6 DEF Present
<1>15. QED
  BY <1>6, <1>12, <1>13, <1>14, AnswerKeeps

\* A request that is over takes itself out of the set.
LEMMA RemoveHitKeeps ==
  ASSUME LimiterInv, NEW h \in Hits, RemoveHit(h)
  PROVE  LimiterInv'
<1>1. hit \in [Hits -> HitRows] /\ window \in SUBSET Hits
  BY DEF LimiterInv, LimiterTypeOK, HitRows
<1>2. PICK n : n = [hit[h] EXCEPT !.at = "removed"]
  OBVIOUS
<1>3. n \in HitRows /\ n.at = "removed" /\ n.stamp = hit[h].stamp /\ n.crowded = hit[h].crowded
  BY <1>1, <1>2 DEF HitRows, States
<1>4. /\ hit' = [hit EXCEPT ![h] = n] /\ hit[h].at = "over" /\ time' = time
      /\ window' = window \ {h}
  BY <1>2 DEF RemoveHit
<1>5. QED
  BY <1>1, <1>3, <1>4, AnswerKeeps

\* Redis fails: the request is let through, counted or not.
LEMMA OutageKeeps ==
  ASSUME LimiterInv, NEW h \in Hits, Outage(h)
  PROVE  LimiterInv'
<1>1. /\ time \in 0 .. MaxTime /\ window \in SUBSET Hits /\ hit \in [Hits -> HitRows]
      /\ Stamped /\ Present /\ Remembered /\ Bounded /\ Full
  BY DEF LimiterInv, LimiterTypeOK, HitRows
<1>2. PICK n : n = [hit[h] EXCEPT !.at = "unlimited"]
  OBVIOUS
<1>3. /\ n \in HitRows /\ n.at = "unlimited" /\ n.stamp = hit[h].stamp
      /\ n.crowded = hit[h].crowded
  BY <1>1, <1>2 DEF HitRows, States
<1>4. hit' = [hit EXCEPT ![h] = n] /\ time' = time
  BY <1>2 DEF Outage
<1>5. CASE hit[h].at = "over" /\ window' \in {window, window \ {h}}
  BY <1>1, <1>3, <1>4, <1>5, AnswerKeeps
<1>6. CASE hit[h].at = "removed" /\ window' = window
  BY <1>1, <1>3, <1>4, <1>6, AnswerKeeps
<1>7. CASE hit[h].at = "stamped" /\ window' \in {window, Since(h, window) \union {h}}
  <2>1. /\ hit' \in [Hits -> HitRows] /\ hit'[h] = n /\ \A o \in Hits \ {h} : hit'[o] = hit[o]
    BY <1>1, <1>3, <1>4, OthersStay
  <2>2. window' \in SUBSET Hits /\ window' \subseteq window \union {h}
    BY <1>1, <1>7 DEF Since
  <2>3. LimiterTypeOK'
    BY <1>1, <1>4, <2>1, <2>2 DEF LimiterTypeOK, HitRows
  <2>4. Stamped'
    <3>1. time \in Nat /\ n.at \notin Pending
      BY <1>1, <1>3, LimiterConstants DEF Pending
    <3>2. QED
      BY <1>1, <1>3, <1>4, <3>1, StampedStays
  <2>5. Present'
    BY <1>1, <1>3, <2>1, <2>2 DEF Present
  <2>6. Remembered'
    <3>1. n.at \in Counting /\ hit[h].at \notin Counting
      BY <1>3, <1>7 DEF Counting, States
    <3>2. CASE window' = window
      BY <1>1, <1>3, <1>4, <1>7, <3>1, <3>2, RememberedStays
    <3>3. CASE window' = Since(h, window) \union {h}
      BY <1>1, <1>3, <1>4, <1>7, <3>1, <3>3, CountRemembers
    <3>4. QED
      BY <1>7, <3>2, <3>3
  <2>7. Bounded'
    BY <1>1, <1>3, <1>4, <1>7, BoundedStays
  <2>8. Full'
    <3>1. SUFFICES ASSUME NEW o \in Hits, hit'[o].at \in {"over", "removed", "rejected"},
                            ~hit'[o].crowded
                   PROVE  Cardinality(Ahead(o)') >= MaxHits
      BY DEF Full
    <3>2. o # h
      BY <1>3, <2>1, <3>1
    <3>3. QED
      BY <1>1, <1>3, <1>4, <1>7, <3>1, <3>2, FullStays
  <2>9. QED
    BY <2>3, <2>4, <2>5, <2>6, <2>7, <2>8 DEF LimiterInv
<1>8. QED
  BY <1>5, <1>6, <1>7 DEF Outage

\* The set is deleted, and with it the memory of who was admitted; what they were told stays.
LEMMA ResetKeyKeeps ==
  ASSUME LimiterInv, NEW h \in Hits, ResetKey(h)
  PROVE  LimiterInv'
<1>1. /\ time \in 0 .. MaxTime /\ window \in SUBSET Hits /\ hit \in [Hits -> HitRows]
      /\ LimiterTypeOK /\ Stamped /\ Present /\ Remembered /\ Bounded /\ Full
  BY DEF LimiterInv, LimiterTypeOK, HitRows
<1>2. time' = time /\ window' = {}
  BY DEF ResetKey
<1>3. hit' = [e \in Hits |-> [hit[e] EXCEPT !.forgotten = @ \/ hit[e].at = "allowed"]]
  BY DEF ResetKey
<1>4. ASSUME NEW e \in Hits
      PROVE  /\ hit'[e] = [hit[e] EXCEPT !.forgotten = hit[e].forgotten \/ hit[e].at = "allowed"]
             /\ hit[e] \in HitRows
  BY <1>1, <1>3
<1>5. ASSUME NEW e \in Hits
      PROVE  /\ hit'[e] \in HitRows /\ hit'[e].at = hit[e].at /\ hit'[e].stamp = hit[e].stamp
             /\ hit'[e].crowded = hit[e].crowded /\ hit'[e].overtaken = hit[e].overtaken
             /\ hit'[e].at = "allowed" => hit'[e].forgotten
  <2>1. PICK f : f = (hit[e].forgotten \/ hit[e].at = "allowed")
    OBVIOUS
  <2>2. f \in BOOLEAN /\ (hit[e].at = "allowed" => f)
    BY <2>1
  <2>3. hit'[e] = [hit[e] EXCEPT !.forgotten = f] /\ hit[e] \in HitRows
    BY <1>4, <2>1
  <2>4. QED
    BY <2>2, <2>3 DEF HitRows
<1>6. LimiterTypeOK'
  <2>1. hit' \in [Hits -> HitRows]
    BY <1>3, <1>5
  <2>2. QED
    BY <1>1, <1>2, <2>1 DEF LimiterTypeOK, HitRows
<1>7. Stamped'
  BY <1>1, <1>2, <1>5 DEF Stamped
<1>8. Present' /\ Remembered'
  BY <1>2, <1>5 DEF Present, Remembered
<1>9. Bounded'
  <2>1. \A t \in Nat : Admitted(t)' = {}
    BY <1>5 DEF Admitted
  <2>2. QED
    BY <2>1, FS_EmptySet, LimiterConstants DEF Bounded
<1>10. Full'
  <2>1. ASSUME NEW e \in Hits PROVE Ahead(e)' = Ahead(e)
    BY <1>5, <2>1 DEF Ahead, Since, Told
  <2>2. QED
    BY <1>1, <1>5, <2>1 DEF Full
<1>11. QED
  BY <1>6, <1>7, <1>8, <1>9, <1>10 DEF LimiterInv

\* Time passes.
LEMMA TickKeeps ==
  ASSUME LimiterInv, Tick
  PROVE  LimiterInv'
<1>1. /\ time \in 0 .. MaxTime /\ window \in SUBSET Hits /\ hit \in [Hits -> HitRows]
      /\ LimiterTypeOK /\ Stamped /\ Present /\ Remembered /\ Bounded /\ Full
  BY DEF LimiterInv, LimiterTypeOK, HitRows
<1>2. /\ time < MaxTime /\ time' = time + 1 /\ window' = window /\ hit' = hit
      /\ \A h \in Hits : hit[h].at \in Pending => time + 1 < hit[h].stamp + Window
  BY DEF Tick, Pending
<1>3. time \in Nat /\ MaxTime \in Nat
  BY <1>1, LimiterConstants
<1>4. LimiterTypeOK'
  BY <1>1, <1>2, <1>3 DEF LimiterTypeOK
<1>5. Stamped'
  <2>1. \A h \in Hits : hit[h].stamp \in Nat
    BY <1>1, LimiterConstants DEF HitRows
  <2>2. QED
    BY <1>1, <1>2, <1>3, <2>1 DEF Stamped
<1>6. Present' /\ Remembered' /\ Bounded' /\ Full'
  BY <1>1, <1>2 DEF Present, Remembered, Bounded, Admitted, Full, Ahead, Since, Told
<1>7. QED
  BY <1>4, <1>5, <1>6 DEF LimiterInv

\* A request that counts itself: it is admitted if the set has room, and those that were
\* admitted in its window are all in the set, unless one with a later stamp came before.
LEMMA CountKeeps ==
  ASSUME LimiterInv, NEW h \in Hits, Count(h)
  PROVE  LimiterInv'
<1>1. /\ time \in 0 .. MaxTime /\ window \in SUBSET Hits /\ hit \in [Hits -> HitRows]
      /\ Stamped /\ Present /\ Remembered /\ Bounded /\ Full
  BY DEF LimiterInv, LimiterTypeOK, HitRows
<1>2. PICK others : others = Since(h, window)
  OBVIOUS
<1>3. PICK verdict : verdict = IF Cardinality(others \union {h}) <= MaxHits THEN "allowed"
             ELSE "over"
  OBVIOUS
<1>4. PICK c : c = (\E o \in others : hit[o].at = "over")
  OBVIOUS
<1>5. PICK l : l = (\E o \in Hits : hit[o].at \notin {"new",
             "stamped"} /\ hit[o].stamp > hit[h].stamp)
  OBVIOUS
<1>6. c \in BOOLEAN /\ l \in BOOLEAN
  BY <1>4, <1>5
<1>7. PICK n : n = [[[hit[h] EXCEPT !.at = verdict] EXCEPT !.crowded = c] EXCEPT !.overtaken = l]
  OBVIOUS
<1>8. /\ n \in HitRows /\ n.at = verdict /\ n.stamp = hit[h].stamp /\ n.crowded = c
      /\ n.overtaken = l
  BY <1>1, <1>3, <1>6, <1>7 DEF HitRows, States
<1>9. /\ hit[h].at = "stamped" /\ time' = time /\ window' = others \union {h}
      /\ hit' = [hit EXCEPT ![h] = n]
  BY <1>2, <1>3, <1>4, <1>5, <1>7 DEF Count
<1>10. /\ hit' \in [Hits -> HitRows] /\ hit'[h] = n /\ \A o \in Hits \ {h} : hit'[o] = hit[o]
  BY <1>1, <1>8, <1>9, OthersStay
<1>11. /\ others \subseteq window /\ h \notin others /\ IsFiniteSet(others) /\
            window' \in SUBSET Hits
  <2>1. others \in SUBSET Hits /\ h \notin others /\ others \subseteq window
    BY <1>1, <1>2, <1>9 DEF Since, Present
  <2>2. QED
    BY <1>9, <2>1, LimiterConstants, FS_Subset
<1>12. /\ Cardinality(others) \in Nat /\ Cardinality(others \union {h}) = Cardinality(others) + 1
       /\ IsFiniteSet(others \union {h})
  BY <1>11, FS_CardinalityType, FS_AddElement
<1>13. LimiterTypeOK'
  BY <1>1, <1>9, <1>10, <1>11 DEF LimiterTypeOK, HitRows
<1>14. Stamped'
  <2>1. time \in Nat /\ hit[h].at \in Pending
    BY <1>1, <1>9, LimiterConstants DEF Pending
  <2>2. QED
    BY <1>1, <1>8, <1>9, <2>1, StampedStays
<1>15. Present'
  BY <1>1, <1>3, <1>8, <1>9, <1>10, <1>11 DEF Present
<1>16. Remembered'
  <2>1. n.at \in Counting
    BY <1>3, <1>8 DEF Counting, States
  <2>2. QED
    BY <1>1, <1>2, <1>8, <1>9, <2>1, CountRemembers
<1>17. Bounded'
  <2>1. CASE verdict = "over"
    BY <1>1, <1>8, <1>9, <2>1, BoundedStays
  <2>2. CASE verdict = "allowed"
    <3>1. SUFFICES ASSUME NEW t \in Nat PROVE Cardinality(Admitted(t)') <= MaxHits
      BY DEF Bounded
    <3>2. Admitted(t)' \subseteq Admitted(t) \union {h}
      BY <1>10 DEF Admitted
    <3>3. CASE h \notin Admitted(t)'
      <4>1. Admitted(t)' = Admitted(t)
        BY <1>9, <1>10, <3>2, <3>3 DEF Admitted
      <4>2. QED
        BY <1>1, <4>1 DEF Bounded
    <3>4. CASE h \in Admitted(t)'
      <4>1. ~l /\ hit[h].stamp \in t - Window + 1 .. t
        BY <1>8, <1>10, <3>4 DEF Admitted
      <4>2. ASSUME NEW e \in Admitted(t) PROVE e \in others
        <5>1. /\ e \in Hits /\ hit[e].at = "allowed" /\ ~hit[e].forgotten
              /\ hit[e].stamp \in t - Window + 1 .. t
          BY <4>2 DEF Admitted
        <5>2. PICK x, y : x = hit[e].stamp /\ y = hit[h].stamp
          OBVIOUS
        <5>3. /\ x \in Nat /\ y \in Nat /\ Window \in Nat \ {0}
              /\ x \in t - Window + 1 .. t /\ y \in t - Window + 1 .. t
          BY <1>1, <4>1, <5>1, <5>2, LimiterConstants DEF HitRows
        <5>4. \A o \in Hits : hit[o].at \in Counting => hit[o].stamp \in Nat /\ ~(hit[o].stamp > y)
          BY <1>1, <1>5, <4>1, <5>2, LimiterConstants DEF Counting, HitRows
        <5>5. \A o \in Hits : hit[o].at \in Counting => ~(hit[o].stamp >= x + Window)
          BY <5>3, <5>4
        <5>6. e \in window
          BY <1>1, <5>1, <5>2, <5>5 DEF Remembered
        <5>7. x > y - Window
          BY <5>3
        <5>8. QED
          BY <1>2, <5>2, <5>6, <5>7 DEF Since
      <4>3. Admitted(t)' \in SUBSET (others \union {h})
        BY <3>2, <4>2
      <4>4. Cardinality(Admitted(t)') <= Cardinality(others \union {h})
        BY <1>12, <4>3, FS_Subset
      <4>5. Cardinality(others \union {h}) <= MaxHits
        BY <1>3, <2>2
      <4>6. Cardinality(Admitted(t)') \in Nat
        BY <1>12, <4>3, FS_Subset, FS_CardinalityType
      <4>7. QED
        BY <1>12, <4>4, <4>5, <4>6, LimiterConstants
    <3>5. QED
      BY <3>3, <3>4
  <2>3. QED
    BY <1>3, <2>1, <2>2
<1>18. Full'
  <2>1. SUFFICES ASSUME NEW o \in Hits, hit'[o].at \in {"over", "removed", "rejected"},
                          ~hit'[o].crowded
                 PROVE  Cardinality(Ahead(o)') >= MaxHits
    BY DEF Full
  <2>2. CASE o # h
    BY <1>1, <1>8, <1>9, <2>1, <2>2, FullStays
  <2>3. CASE o = h
    <3>1. verdict = "over" /\ ~c
      BY <1>3, <1>8, <1>10, <2>1, <2>3
    <3>2. ASSUME NEW e \in others PROVE e \in Ahead(h)'
      <4>1. /\ e \in Hits /\ e # h /\ hit[e].stamp > hit[h].stamp - Window
            /\ hit[e].at \in {"over", "allowed", "unlimited"} /\ hit[e].at # "over"
        BY <1>1, <1>2, <1>4, <1>11, <3>1, <3>2 DEF Since, Present
      <4>2. hit'[e] = hit[e] /\ hit'[h].stamp = hit[h].stamp
        BY <1>8, <1>10, <4>1
      <4>3. QED
        BY <4>1, <4>2 DEF Ahead, Since, Told
    <3>3. PICK A : A = Ahead(h)'
      OBVIOUS
    <3>4. A \in SUBSET Hits /\ others \in SUBSET A
      BY <3>2, <3>3 DEF Ahead, Since, Told
    <3>5. IsFiniteSet(A)
      BY <3>4, LimiterConstants, FS_Subset
    <3>6. Cardinality(others) <= Cardinality(A) /\ Cardinality(A) \in Nat
      BY <3>4, <3>5, FS_Subset, FS_CardinalityType
    <3>7. Cardinality(others) >= MaxHits
      <4>1. ~(Cardinality(others) + 1 <= MaxHits)
        BY <1>3, <1>12, <3>1
      <4>2. QED
        BY <1>12, <4>1, LimiterConstants
    <3>8. QED
      BY <1>12, <2>3, <3>3, <3>6, <3>7, LimiterConstants
  <2>4. QED
    BY <2>2, <2>3
<1>19. QED
  BY <1>13, <1>14, <1>15, <1>16, <1>17, <1>18 DEF LimiterInv

-----------------------------------------------------------------------------
\* In the beginning nobody has asked.
LEMMA LimiterBegins == LimiterInit => LimiterInv
<1> SUFFICES ASSUME LimiterInit PROVE LimiterInv
  OBVIOUS
<1>1. PICK n : n = [at |-> "new", stamp |-> 0, crowded |-> FALSE, overtaken |-> FALSE,
             forgotten |-> FALSE, retryAfter |-> 0]
  OBVIOUS
<1>2. /\ time = 0 /\ window = {} /\ hit = [h \in Hits |-> n]
  BY <1>1 DEF LimiterInit
<1>3. n \in HitRows /\ n.at = "new" /\ n.stamp = 0
  <2>1. 0 \in 0 .. MaxTime /\ 0 \in 0 .. 2 * Window
    BY LimiterConstants
  <2>2. QED
    BY <1>1, <2>1 DEF HitRows, States
<1>4. LimiterTypeOK
  BY <1>2, <1>3, LimiterConstants DEF LimiterTypeOK, HitRows
<1>5. Stamped /\ Present /\ Remembered /\ Full
  BY <1>2, <1>3 DEF Stamped, Present, Remembered, Full, Pending
<1>6. Bounded
  <2>1. \A t \in Nat : Admitted(t) = {}
    BY <1>2, <1>3 DEF Admitted
  <2>2. QED
    BY <2>1, FS_EmptySet, LimiterConstants DEF Bounded
<1>7. QED
  BY <1>4, <1>5, <1>6 DEF LimiterInv

\* The sorted set and what the requests were told agree, from one state to the next.
THEOREM LimiterInvariant == LimiterSpec => []LimiterInv
<1>1. ASSUME LimiterInv, LimiterNext PROVE LimiterInv'
  BY <1>1, StampKeeps, CountKeeps, RemoveHitKeeps, RejectKeeps, OutageKeeps, ResetKeyKeeps,
     TickKeeps
  DEF LimiterNext
<1>2. ASSUME LimiterInv, UNCHANGED limiterVars PROVE LimiterInv'
  BY <1>2 DEF limiterVars, LimiterInv, LimiterTypeOK, Stamped, Present, Remembered, Bounded,
              Admitted, Full, Ahead, Since, Told
<1>3. QED
  BY <1>1, <1>2, LimiterBegins, PTL DEF LimiterSpec

\* The limiter admits what it promises in every window, and refuses only when that many were
\* admitted or let through.
THEOREM AdmitsWhatItPromises == LimiterSpec => []LimitIsExact
<1>1. ASSUME LimiterInv PROVE LimitIsExact
  <2>1. ASSUME NEW h \in Told("allowed")
        PROVE  Cardinality({e \in InWindow(h, Told("allowed")) :
                              ~hit[e].overtaken /\ ~hit[e].forgotten}) <= MaxHits
    <3>1. PICK t : t = hit[h].stamp
      OBVIOUS
    <3>2. h \in Hits /\ hit \in [Hits -> HitRows]
      BY <1>1 DEF Told, LimiterInv, LimiterTypeOK, HitRows
    <3>3. t \in Nat
      BY <3>1, <3>2, LimiterConstants DEF HitRows
    <3>4. {e \in InWindow(h, Told("allowed")) : ~hit[e].overtaken /\ ~hit[e].forgotten}
            = Admitted(t)
      BY <3>1 DEF InWindow, Told, Admitted
    <3>5. QED
      BY <1>1, <3>3, <3>4 DEF LimiterInv, Bounded
  <2>2. ASSUME NEW h \in Told("rejected"), ~hit[h].crowded
        PROVE  Cardinality(Since(h, (Told("allowed") \union Told("unlimited")) \ {h})) >= MaxHits
    BY <1>1, <2>2 DEF LimiterInv, Full, Ahead, Told
  <2>3. QED
    BY <2>1, <2>2 DEF LimitIsExact
<1>2. QED
  BY <1>1, LimiterInvariant, PTL

\* The types of the limiter; Retry-After stays within two windows.
THEOREM LimiterTyped == LimiterSpec => []LimiterTypeOK
<1>1. LimiterInv => LimiterTypeOK
  BY DEF LimiterInv
<1>2. QED
  BY <1>1, LimiterInvariant, PTL

-----------------------------------------------------------------------------
(* The problem list                                                         *)

\* The statistics of the problems and the client's walk.
StatRows == [total : Nat, accepted : Nat]
WalkRows == [at : {"idle", "count", "rows", "done"}, sort : Sorts, filter : Filters,
             page : Nat \ {0}, total : Nat, shown : Seq(Listed), matching : SUBSET Listed,
             undisturbed : BOOLEAN]

ListingKept ==
  /\ stats \in [Listed -> StatRows] /\ progress \in [Listed -> {"none", "ATTEMPTED", "SOLVED"}]
  /\ walk \in WalkRows /\ tries \in 0 .. MaxTries
  /\ \A p \in Listed : stats[p].accepted <= stats[p].total /\ stats[p].total <= tries

\* A walk that nothing disturbed has shown the beginning of every answer that the database may
\* give, in full pages; its total counts what matched when it began, and still does.
Undisturbed == walk.at \in {"count", "rows"} /\ walk.undisturbed
Walked ==
  Undisturbed =>
    /\ walk.matching = Found(walk.filter)
    /\ Len(walk.shown) = (walk.page - 1) * PageLimit
    /\ Len(walk.shown) <= Cardinality(walk.matching)
    /\ \A s \in Answers(walk.matching, walk.sort) :
         \A i \in 1 .. Len(walk.shown) : walk.shown[i] = s[i]
    /\ walk.at = "rows" => walk.total = Cardinality(walk.matching)

ListingInv == ListingKept /\ Walked /\ PagesCoverList

-----------------------------------------------------------------------------
\* What the constants are.
LEMMA ListingConstants ==
  /\ IsFiniteSet(Listed) /\ Listed \subseteq Nat /\ PageLimit \in Nat \ {0} /\ MaxTries \in Nat
  /\ \A p \in Listed : difficulty[p] \in Nat /\ title[p] \in Nat /\ since[p] \in Nat
<1>1. IsFiniteSet(Listed) /\ Listed \subseteq Nat
  BY ListingAssumption
<1>2. PageLimit \in Nat \ {0} /\ MaxTries \in Nat
  BY ListingAssumption
<1>3. \A p \in Listed : difficulty[p] \in 1 .. 3 /\ title[p] \in Nat /\ since[p] \in Nat
  BY ListingAssumption
<1>4. QED
  BY <1>1, <1>2, <1>3

\* A sequence as long as a finite set, of its elements and none of them twice, has them all.
LEMMA HasThemAll ==
  ASSUME NEW S, IsFiniteSet(S), NEW f \in [1 .. Cardinality(S) -> S],
         \A i, j \in 1 .. Cardinality(S) : i # j => f[i] # f[j]
  PROVE  \A x \in S : \E i \in 1 .. Cardinality(S) : f[i] = x
<1>1. PICK n : n = Cardinality(S)
  OBVIOUS
<1>2. n \in Nat
  BY <1>1, FS_CardinalityType
<1>3. IsFiniteSet(1 .. n) /\ Cardinality(1 .. n) = n
  BY <1>2, FS_Interval
<1>4. f \in Injection(1 .. n, S)
  BY <1>1 DEF Injection, IsInjective
<1>5. f \in Surjection(1 .. n, S)
  BY <1>1, <1>3, <1>4, FS_Injection
<1>6. QED
  BY <1>1, <1>5 DEF Surjection

\* Of two sequences of numbers that end differently, one precedes the other.
LEMMA TwoKeys ==
  ASSUME NEW k, NEW l, Len(k) = 2, Len(l) = 2, k[2] # l[2],
         k[1] \in Int, k[2] \in Int, l[1] \in Int, l[2] \in Int
  PROVE  \/ \E i \in 1 .. Len(k) : k[i] < l[i] /\ \A j \in 1 .. i - 1 : k[j] = l[j]
         \/ \E i \in 1 .. Len(l) : l[i] < k[i] /\ \A j \in 1 .. i - 1 : l[j] = k[j]
<1>1. CASE k[1] # l[1]
  <2>1. 1 \in 1 .. 2 /\ \A j \in 1 .. 1 - 1 : FALSE
    OBVIOUS
  <2>2. k[1] < l[1] \/ l[1] < k[1]
    BY <1>1
  <2>3. QED
    BY <2>1, <2>2
<1>2. CASE k[1] = l[1]
  <2>1. 2 \in 1 .. 2 /\ \A j \in 1 .. 2 - 1 : j = 1
    OBVIOUS
  <2>2. k[2] < l[2] \/ l[2] < k[2]
    OBVIOUS
  <2>3. QED
    BY <1>2, <2>1, <2>2
<1>3. QED
  BY <1>1, <1>2

\* The same with three keys.
LEMMA ThreeKeys ==
  ASSUME NEW k, NEW l, Len(k) = 3, Len(l) = 3, k[3] # l[3],
         k[1] \in Int, k[2] \in Int, k[3] \in Int, l[1] \in Int, l[2] \in Int, l[3] \in Int
  PROVE  \/ \E i \in 1 .. Len(k) : k[i] < l[i] /\ \A j \in 1 .. i - 1 : k[j] = l[j]
         \/ \E i \in 1 .. Len(l) : l[i] < k[i] /\ \A j \in 1 .. i - 1 : l[j] = k[j]
<1>1. CASE k[1] # l[1]
  <2>1. 1 \in 1 .. 3 /\ \A j \in 1 .. 1 - 1 : FALSE
    OBVIOUS
  <2>2. k[1] < l[1] \/ l[1] < k[1]
    BY <1>1
  <2>3. QED
    BY <2>1, <2>2
<1>2. CASE k[1] = l[1] /\ k[2] # l[2]
  <2>1. 2 \in 1 .. 3 /\ \A j \in 1 .. 2 - 1 : j = 1
    OBVIOUS
  <2>2. k[2] < l[2] \/ l[2] < k[2]
    BY <1>2
  <2>3. QED
    BY <1>2, <2>1, <2>2
<1>3. CASE k[1] = l[1] /\ k[2] = l[2]
  <2>1. 3 \in 1 .. 3 /\ \A j \in 1 .. 3 - 1 : j = 1 \/ j = 2
    OBVIOUS
  <2>2. k[3] < l[3] \/ l[3] < k[3]
    OBVIOUS
  <2>3. QED
    BY <1>3, <2>1, <2>2
<1>4. QED
  BY <1>1, <1>2, <1>3

\* Every order tells any two problems apart, because the id is its last key.
LEMMA OrdersAreTotal ==
  ASSUME ListingKept, NEW p \in Listed, NEW q \in Listed, p # q, NEW sort \in Sorts
  PROVE  Precedes(p, q, sort) \/ Precedes(q, p, sort)
<1>1. /\ p \in Int /\ q \in Int /\ title[p] \in Int /\ title[q] \in Int
      /\ difficulty[p] \in Int /\ difficulty[q] \in Int /\ -since[p] \in Int /\ -since[q] \in Int
  BY ListingConstants
<1>2. ASSUME NEW x \in Listed PROVE ByRate(x) \in Int
  <2>1. PICK t, a : t = stats[x].total /\ a = stats[x].accepted
    OBVIOUS
  <2>2. t \in Nat /\ a \in Nat
    BY <2>1 DEF ListingKept, StatRows
  <2>3. t > 0 => -((a * 100) \div t) \in Int
    BY <2>2
  <2>4. QED
    BY <2>1, <2>3 DEF ByRate, Rated, Rate
<1>3. ByRate(p) \in Int /\ ByRate(q) \in Int
  BY <1>2
<1>4. PICK k, l : k = KeysOf(p, sort) /\ l = KeysOf(q, sort)
  OBVIOUS
<1>5. \/ \E i \in 1 .. Len(k) : k[i] < l[i] /\ \A j \in 1 .. i - 1 : k[j] = l[j]
      \/ \E i \in 1 .. Len(l) : l[i] < k[i] /\ \A j \in 1 .. i - 1 : l[j] = k[j]
  <2>1. CASE sort = "newest"
    <3>1. k = <<-since[p], title[p], p>> /\ l = <<-since[q], title[q], q>>
      BY <1>4, <2>1 DEF KeysOf
    <3>2. /\ Len(k) = 3 /\ Len(l) = 3 /\ k[1] = -since[p] /\ l[1] = -since[q]
          /\ k[2] = title[p] /\ l[2] = title[q] /\ k[3] = p /\ l[3] = q
      BY <3>1
    <3>3. QED
      BY <1>1, <3>2, ThreeKeys
  <2>2. CASE sort = "title"
    <3>1. k = <<title[p], p>> /\ l = <<title[q], q>>
      BY <1>4, <2>2 DEF KeysOf
    <3>2. /\ Len(k) = 2 /\ Len(l) = 2 /\ k[1] = title[p] /\ l[1] = title[q]
          /\ k[2] = p /\ l[2] = q
      BY <3>1
    <3>3. QED
      BY <1>1, <3>2, TwoKeys
  <2>3. CASE sort = "difficulty"
    <3>1. k = <<difficulty[p], title[p], p>> /\ l = <<difficulty[q], title[q], q>>
      BY <1>4, <2>3 DEF KeysOf
    <3>2. /\ Len(k) = 3 /\ Len(l) = 3 /\ k[1] = difficulty[p] /\ l[1] = difficulty[q]
          /\ k[2] = title[p] /\ l[2] = title[q] /\ k[3] = p /\ l[3] = q
      BY <3>1
    <3>3. QED
      BY <1>1, <3>2, ThreeKeys
  <2>4. CASE sort = "acceptance"
    <3>1. k = <<ByRate(p), title[p], p>> /\ l = <<ByRate(q), title[q], q>>
      BY <1>4, <2>4 DEF KeysOf
    <3>2. /\ Len(k) = 3 /\ Len(l) = 3 /\ k[1] = ByRate(p) /\ l[1] = ByRate(q)
          /\ k[2] = title[p] /\ l[2] = title[q] /\ k[3] = p /\ l[3] = q
      BY <3>1
    <3>3. QED
      BY <1>1, <1>3, <3>2, ThreeKeys
  <2>5. QED
    BY <2>1, <2>2, <2>3, <2>4 DEF Sorts
<1>6. QED
  BY <1>4, <1>5 DEF Precedes

\* There is but one way to put a set of problems in order.
LEMMA OneAnswer ==
  ASSUME ListingKept, NEW S \in SUBSET Listed, NEW sort \in Sorts,
         NEW s \in Answers(S, sort), NEW t \in Answers(S, sort)
  PROVE  s = t
<1>1. PICK n : n = Cardinality(S)
  OBVIOUS
<1>2. IsFiniteSet(S) /\ n \in Nat
  BY <1>1, ListingConstants, FS_Subset, FS_CardinalityType
<1>3. /\ s \in [1 .. n -> S] /\ \A i, j \in 1 .. n : i # j => s[i] # s[j]
      /\ t \in [1 .. n -> S] /\ \A i, j \in 1 .. n : i # j => t[i] # t[j]
  BY <1>1 DEF Answers, SetToSeqs
<1>4. /\ \A i, j \in 1 .. n : i < j => ~Precedes(s[j], s[i], sort)
      /\ \A i, j \in 1 .. n : i < j => ~Precedes(t[j], t[i], sort)
  BY <1>3 DEF Answers
<1>5. \A x \in S : (\E i \in 1 .. n : s[i] = x) /\ (\E i \in 1 .. n : t[i] = x)
  BY <1>1, <1>2, <1>3, HasThemAll
<1>6. SUFFICES ASSUME {i \in 1 .. n : s[i] # t[i]} # {} PROVE FALSE
  <2>1. CASE \A i \in 1 .. n : s[i] = t[i]
    <3>1. s = [i \in 1 .. n |-> s[i]] /\ t = [i \in 1 .. n |-> t[i]]
      BY <1>3
    <3>2. [i \in 1 .. n |-> s[i]] = [i \in 1 .. n |-> t[i]]
      BY <2>1
    <3>3. QED
      BY <3>1, <3>2
  <2>2. CASE \E i \in 1 .. n : s[i] # t[i]
    BY <2>2
  <2>3. QED
    BY <2>1, <2>2
<1>7. PICK i \in 1 .. n : s[i] # t[i] /\ \A j \in 1 .. n : s[j] # t[j] => i <= j
  <2>1. PICK B : B = {i \in 1 .. n : s[i] # t[i]}
    OBVIOUS
  <2>2. B \subseteq Nat /\ B # {}
    BY <1>2, <1>6, <2>1
  <2>3. PICK i \in B : \A j \in B : i <= j
    BY <2>2, LeastNumber
  <2>4. QED
    BY <2>1, <2>3
<1>8. PICK j \in 1 .. n : t[j] = s[i]
  BY <1>3, <1>5
<1>9. PICK k \in 1 .. n : s[k] = t[i]
  BY <1>3, <1>5
<1>10. i < j /\ i < k
  <2>1. j # i /\ k # i
    BY <1>7, <1>8, <1>9
  <2>2. ~(j < i)
    BY <1>2, <1>3, <1>7, <1>8
  <2>3. ~(k < i)
    BY <1>2, <1>3, <1>7, <1>9
  <2>4. QED
    BY <1>2, <2>1, <2>2, <2>3
<1>11. ~Precedes(s[i], t[i], sort) /\ ~Precedes(t[i], s[i], sort)
  BY <1>4, <1>8, <1>9, <1>10
<1>12. s[i] \in Listed /\ t[i] \in Listed
  BY <1>3
<1>13. QED
  BY <1>7, <1>11, <1>12, OrdersAreTotal

\* The less of two numbers.
LEMMA LessOfTwo ==
  ASSUME NEW x \in Int, NEW y \in Int
  PROVE  Min({x, y}) = IF x <= y THEN x ELSE y
<1>1. \E m \in {x, y} : \A z \in {x, y} : m <= z
  OBVIOUS
<1>2. Min({x, y}) \in {x, y} /\ \A z \in {x, y} : Min({x, y}) <= z
  <2>1. Min({x, y}) = CHOOSE m \in {x, y} : \A z \in {x, y} : m <= z
    BY DEF Min
  <2>2. QED
    BY <1>1, <2>1
<1>3. QED
  BY <1>2

\* How many rows of an answer come before a page, and how many up to its end.
Before(page) == (page - 1) * PageLimit
UpTo(s, page) == IF page * PageLimit <= Len(s) THEN page * PageLimit ELSE Len(s)

\* Which rows a page of an answer has: the next ones, and no more than there are.
LEMMA RowsOfAPage ==
  ASSUME NEW s \in Seq(Listed), NEW page \in Nat \ {0}
  PROVE  /\ Before(page) \in Nat /\ UpTo(s, page) \in Nat
         /\ page * PageLimit = Before(page) + PageLimit
         /\ PageOf(s, page) \in Seq(Listed)
         /\ Len(PageOf(s, page)) = (IF Before(page) < UpTo(s, page)
                                   THEN UpTo(s, page) - Before(page) ELSE 0)
         /\ \A i \in 1 .. UpTo(s, page) - Before(page) :
              PageOf(s, page)[i] = s[Before(page) + i]
<1>1. PICK L : L = PageLimit
  OBVIOUS
<1>2. L \in Nat \ {0}
  BY <1>1, ListingConstants
<1>3. PICK a, e : a = Before(page) /\ e = UpTo(s, page)
  OBVIOUS
<1>4. a \in Nat /\ page * L = a + L
  BY <1>1, <1>2, <1>3 DEF Before
<1>5. Len(s) \in Nat /\ \A i \in 1 .. Len(s) : s[i] \in Listed
  OBVIOUS
<1>6. e \in Nat /\ e <= Len(s) /\ e = (IF a + L <= Len(s) THEN a + L ELSE Len(s))
  BY <1>1, <1>2, <1>4, <1>5, <1>3 DEF UpTo
<1>7. Min({page * PageLimit, Len(s)}) = e
  <2>1. PICK b : b = page * PageLimit
    OBVIOUS
  <2>2. b = a + L /\ b \in Int
    BY <1>1, <1>2, <1>4, <2>1
  <2>3. Min({b, Len(s)}) = IF b <= Len(s) THEN b ELSE Len(s)
    BY <1>5, <2>2, LessOfTwo
  <2>4. QED
    BY <1>1, <1>6, <2>1, <2>2, <2>3
<1>8. PICK m : m = a + 1
  OBVIOUS
<1>9. PageOf(s, page) = SubSeq(s, m, e)
  BY <1>7, <1>8, <1>3 DEF PageOf, Before
<1>10. m \in Int /\ \A i \in m .. e : s[i] \in Listed
  BY <1>4, <1>5, <1>6, <1>8
<1>11. /\ SubSeq(s, m, e) \in Seq(Listed)
       /\ Len(SubSeq(s, m, e)) = IF m <= e THEN e - m + 1 ELSE 0
       /\ \A i \in 1 .. e - m + 1 : SubSeq(s, m, e)[i] = s[m + i - 1]
  BY <1>6, <1>10, SubSeqProperties
<1>12. \A i \in 1 .. e - a : SubSeq(s, m, e)[i] = s[a + i]
  <2>1. e - m + 1 = e - a
    BY <1>4, <1>6, <1>8
  <2>2. ASSUME NEW i \in 1 .. e - a
        PROVE  SubSeq(s, m, e)[i] = s[a + i]
    <3>1. m + i - 1 = a + i /\ i \in 1 .. e - m + 1
      BY <1>4, <1>6, <1>8, <2>1
    <3>2. SubSeq(s, m, e)[i] = s[m + i - 1]
      BY <1>11, <3>1
    <3>3. QED
      BY <3>1, <3>2
  <2>3. QED
    BY <2>2
<1>13. Len(SubSeq(s, m, e)) = IF a < e THEN e - a ELSE 0
  <2>1. (m <= e) <=> (a < e)
    BY <1>4, <1>6, <1>8
  <2>2. e - m + 1 = e - a
    BY <1>4, <1>6, <1>8
  <2>3. QED
    BY <1>11, <2>1, <2>2
<1>14. QED
  BY <1>1, <1>4, <1>6, <1>9, <1>11, <1>12, <1>13, <1>3

\* The beginning of an answer, and then its next page, is a longer beginning of it.
LEMMA PagesJoin ==
  ASSUME NEW s \in Seq(Listed), NEW page \in Nat \ {0},
         NEW shown \in Seq(Listed), Len(shown) = Before(page), Before(page) <= Len(s),
         \A i \in 1 .. Len(shown) : shown[i] = s[i]
  PROVE  /\ Len(shown \o PageOf(s, page)) = UpTo(s, page)
         /\ \A i \in 1 .. UpTo(s, page) : (shown \o PageOf(s, page))[i] = s[i]
<1>1. PICK r : r = PageOf(s, page)
  OBVIOUS
<1>2. PICK L : L = PageLimit
  OBVIOUS
<1>3. L \in Nat \ {0}
  BY <1>2, ListingConstants
<1>4. PICK a, e : a = Before(page) /\ e = UpTo(s, page)
  OBVIOUS
<1>5. /\ a \in Nat /\ e \in Nat /\ r \in Seq(Listed) /\ Len(r) = (IF a < e THEN e - a ELSE 0)
      /\ \A i \in 1 .. e - a : r[i] = s[a + i]
  BY <1>1, <1>4, RowsOfAPage
<1>6. a <= e /\ Len(r) = e - a
  <2>1. Len(s) \in Nat
    OBVIOUS
  <2>2. page * L = a + L
    BY <1>2, <1>4, RowsOfAPage
  <2>3. a <= e
    BY <1>2, <1>3, <1>5, <1>4, <2>1, <2>2 DEF UpTo
  <2>4. QED
    BY <1>5, <2>3
<1>7. shown \o r \in Seq(Listed) /\ Len(shown \o r) = Len(shown) + Len(r)
  BY <1>5, ConcatProperties
<1>8. Len(shown \o r) = e
  BY <1>5, <1>6, <1>7, <1>4
<1>9. ASSUME NEW i \in 1 .. e
      PROVE  (shown \o r)[i] = s[i]
  <2>1. CASE i <= a
    <3>1. (shown \o r)[i] = shown[i]
      BY <1>5, <1>6, <1>4, <2>1, ConcatProperties
    <3>2. QED
      BY <1>5, <1>4, <2>1, <3>1
  <2>2. CASE i > a
    <3>1. PICK j : j = i - a
      OBVIOUS
    <3>2. j \in 1 .. e - a /\ i = a + j
      BY <1>5, <1>6, <1>4, <2>2, <3>1, SMTT(30)
    <3>3. (shown \o r)[i] = r[j]
      <4>1. i \in 1 .. Len(shown) + Len(r) /\ ~(i <= Len(shown)) /\ i - Len(shown) = j
        BY <1>5, <1>6, <1>4, <2>2, <3>1
      <4>2. QED
        BY <1>5, <4>1, ConcatProperties
    <3>4. QED
      BY <1>5, <3>2, <3>3
  <2>3. i <= a \/ i > a
    BY <1>5
  <2>4. QED
    BY <2>1, <2>2, <2>3
<1>10. QED
  BY <1>1, <1>8, <1>9, <1>4

-----------------------------------------------------------------------------
\* In the beginning nobody walks.
LEMMA ListingBegins ==
  ListingInit => ListingInv
<1>1. SUFFICES ASSUME ListingInit PROVE ListingInv
  OBVIOUS
<1>2. walk \in WalkRows /\ walk.at = "idle"
  <2>1. 1 \in Nat \ {0} /\ 0 \in Nat /\ << >> \in Seq(Listed) /\ {} \in SUBSET Listed
    OBVIOUS
  <2>2. QED
    BY <1>1, <2>1 DEF ListingInit, NoWalk, WalkRows, Sorts, Filters
<1>3. stats \in [Listed -> StatRows] /\ progress \in [Listed -> {"none", "ATTEMPTED", "SOLVED"}]
  BY <1>1 DEF ListingInit, StatRows
<1>4. \A p \in Listed : stats[p].accepted = 0 /\ stats[p].total = 0
  BY <1>1 DEF ListingInit
<1>5. tries = 0 /\ tries \in 0 .. MaxTries
  BY <1>1, ListingConstants DEF ListingInit
<1>6. ListingKept
  BY <1>2, <1>3, <1>4, <1>5 DEF ListingKept
<1>7. QED
  BY <1>2, <1>6 DEF ListingInv, Walked, Undisturbed, PagesCoverList

\* Opening the list notes what matches now.
LEMMA OpenListKeeps ==
  ListingInv /\ OpenList => ListingInv'
<1>1. SUFFICES ASSUME ListingInv, OpenList PROVE ListingInv'
  OBVIOUS
<1>2. PICK sort \in Sorts, filter \in Filters :
        walk' = [NoWalk EXCEPT !.at = "count", !.sort = sort, !.filter = filter,
                               !.matching = Found(filter)]
  BY <1>1 DEF OpenList
<1>3. stats' = stats /\ progress' = progress /\ tries' = tries
  BY <1>1 DEF OpenList
<1>4. PICK m : m = Found(filter)
  OBVIOUS
<1>5. m \in SUBSET Listed /\ (Found(filter))' = m
  <2>1. (Found(filter))' = Found(filter)
    BY <1>3 DEF Found, Matches, Rated, Rate
  <2>2. QED
    BY <1>4, <2>1 DEF Found
<1>6. walk' = [at |-> "count", sort |-> sort, filter |-> filter, page |-> 1, total |-> 0,
               shown |-> << >>, matching |-> m, undisturbed |-> TRUE]
  BY <1>2, <1>4 DEF NoWalk
<1>7. walk' \in WalkRows
  <2>1. 1 \in Nat \ {0} /\ 0 \in Nat /\ << >> \in Seq(Listed)
    OBVIOUS
  <2>2. QED
    BY <1>5, <1>6, <2>1 DEF WalkRows
<1>8. ListingKept'
  BY <1>1, <1>3, <1>7 DEF ListingInv, ListingKept
<1>9. Walked'
  <2>1. /\ walk'.at = "count" /\ walk'.matching = m /\ walk'.filter = filter
        /\ walk'.page = 1 /\ walk'.shown = << >>
    BY <1>6
  <2>2. (Found(walk.filter))' = m
    BY <1>5, <2>1 DEF Found
  <2>3. Len(walk'.shown) = 0
    BY <2>1
  <2>4. (walk'.page - 1) * PageLimit = 0
    BY <2>1, ListingConstants
  <2>5. 0 <= Cardinality(m)
    <3>1. IsFiniteSet(m)
      BY <1>5, ListingConstants, FS_Subset
    <3>2. QED
      BY <3>1, FS_CardinalityType
  <2>6. QED
    BY <2>1, <2>2, <2>3, <2>4, <2>5 DEF Walked
<1>10. PagesCoverList'
  BY <1>6 DEF PagesCoverList
<1>11. QED
  BY <1>8, <1>9, <1>10 DEF ListingInv

\* The order of the answers does not change while no problem's statistics do.
LEMMA SameOrder ==
  ASSUME stats' = stats
  PROVE  \A S, sort : Answers(S, sort)' = Answers(S, sort)
<1>1. \A p, sort : KeysOf(p, sort)' = KeysOf(p, sort)
  BY DEF KeysOf, ByRate, Rated, Rate
<1>2. \A p, q, sort : Precedes(p, q, sort)' = Precedes(p, q, sort)
  BY <1>1 DEF Precedes
<1>3. QED
  BY <1>2 DEF Answers

\* What matches does not change while neither statistics nor progress do.
LEMMA SameMatches ==
  ASSUME stats' = stats, progress' = progress
  PROVE  \A filter : Found(filter)' = Found(filter)
BY DEF Found, Matches, Rated, Rate

\* The count finds as many as matched in the beginning, if nothing was judged.
LEMMA CountRowsKeeps ==
  ListingInv /\ CountRows => ListingInv'
<1>1. SUFFICES ASSUME ListingInv, CountRows PROVE ListingInv'
  OBVIOUS
<1>2. /\ walk.at = "count" /\ stats' = stats /\ progress' = progress /\ tries' = tries
      /\ walk' = [walk EXCEPT !.at = "rows", !.total = Cardinality(Found(walk.filter))]
  BY <1>1 DEF CountRows
<1>3. PICK n : n = Cardinality(Found(walk.filter))
  OBVIOUS
<1>4. n \in Nat
  <2>1. Found(walk.filter) \subseteq Listed
    BY DEF Found
  <2>2. IsFiniteSet(Found(walk.filter))
    BY <2>1, ListingConstants, FS_Subset
  <2>3. QED
    BY <1>3, <2>2, FS_CardinalityType
<1>5. walk' = [[walk EXCEPT !.at = "rows"] EXCEPT !.total = n]
  BY <1>2, <1>3
<1>6. walk \in WalkRows
  BY <1>1 DEF ListingInv, ListingKept
<1>7. /\ walk' \in WalkRows /\ walk'.at = "rows" /\ walk'.total = n
      /\ walk'.filter = walk.filter /\ walk'.sort = walk.sort /\ walk'.page = walk.page
      /\ walk'.shown = walk.shown /\ walk'.matching = walk.matching
      /\ walk'.undisturbed = walk.undisturbed
  BY <1>4, <1>5, <1>6 DEF WalkRows
<1>8. ListingKept'
  BY <1>1, <1>2, <1>7 DEF ListingInv, ListingKept
<1>9. Walked'
  <2>1. SUFFICES ASSUME walk.undisturbed
                 PROVE  Walked'
    BY <1>7 DEF Walked, Undisturbed
  <2>2. /\ walk.matching = Found(walk.filter)
        /\ Len(walk.shown) = (walk.page - 1) * PageLimit
        /\ Len(walk.shown) <= Cardinality(walk.matching)
        /\ \A s \in Answers(walk.matching, walk.sort) :
             \A i \in 1 .. Len(walk.shown) : walk.shown[i] = s[i]
    BY <1>1, <1>2, <2>1 DEF ListingInv, Walked, Undisturbed
  <2>3. Found(walk.filter)' = Found(walk.filter)
    <3>1. PICK f : f = walk.filter
      OBVIOUS
    <3>2. Found(f)' = Found(f)
      BY <1>2, SameMatches
    <3>3. QED
      BY <1>7, <3>1, <3>2 DEF Found
  <2>4. Answers(walk.matching, walk.sort)' = Answers(walk.matching, walk.sort)
    <3>1. PICK m, sort : m = walk.matching /\ sort = walk.sort
      OBVIOUS
    <3>2. Answers(m, sort)' = Answers(m, sort)
      BY <1>2, SameOrder
    <3>3. QED
      BY <1>7, <3>1, <3>2 DEF Answers
  <2>5. n = Cardinality(walk.matching)
    BY <1>3, <2>2
  <2>6. QED
    BY <1>7, <2>2, <2>3, <2>4, <2>5 DEF Walked
<1>10. PagesCoverList'
  BY <1>7 DEF PagesCoverList
<1>11. QED
  BY <1>8, <1>9, <1>10 DEF ListingInv

\* A submission that is judged disturbs the walk that is on its way, and no other.
LEMMA JudgeOneKeeps ==
  ListingInv /\ JudgeOne => ListingInv'
<1>1. SUFFICES ASSUME ListingInv, JudgeOne PROVE ListingInv'
  OBVIOUS
<1>2. /\ tries < MaxTries /\ tries' = tries + 1
      /\ walk' = [walk EXCEPT !.undisturbed = walk.at \in {"idle", "done"} /\ walk.undisturbed]
  BY <1>1 DEF JudgeOne
<1>3. PICK p \in Listed, accepted \in BOOLEAN, mine \in BOOLEAN :
        /\ stats' = [stats EXCEPT ![p].total = @ + 1,
                                ![p].accepted = IF accepted THEN @ + 1 ELSE @]
        /\ progress' = IF ~mine \/ progress[p] = "SOLVED" THEN progress
                       ELSE [progress EXCEPT ![p] = IF accepted THEN "SOLVED" ELSE "ATTEMPTED"]
  BY <1>1 DEF JudgeOne
<1>4. /\ stats \in [Listed -> StatRows] /\ progress \in [Listed -> {"none", "ATTEMPTED", "SOLVED"}]
      /\ walk \in WalkRows /\ tries \in 0 .. MaxTries
      /\ \A q \in Listed : stats[q].accepted <= stats[q].total /\ stats[q].total <= tries
  BY <1>1 DEF ListingInv, ListingKept
<1>5. PICK b : b = (walk.at \in {"idle", "done"} /\ walk.undisturbed)
  OBVIOUS
<1>6. /\ walk' \in WalkRows /\ walk'.undisturbed = b /\ walk'.at = walk.at
      /\ walk'.shown = walk.shown /\ walk'.total = walk.total /\ walk'.matching = walk.matching
  <2>1. b \in BOOLEAN
    BY <1>5
  <2>2. walk' = [walk EXCEPT !.undisturbed = b]
    BY <1>2, <1>5
  <2>3. QED
    BY <1>4, <2>1, <2>2 DEF WalkRows
<1>7. PICK t, a : t = stats[p].total /\ a = stats[p].accepted
  OBVIOUS
<1>8. t \in Nat /\ a \in Nat /\ a <= t /\ t <= tries
  BY <1>4, <1>7 DEF StatRows
<1>9. PICK c : c = IF accepted THEN a + 1 ELSE a
  OBVIOUS
<1>10. c \in Nat /\ c <= t + 1
  BY <1>8, <1>9
<1>11. stats' = [stats EXCEPT ![p] = [total |-> t + 1, accepted |-> c]]
  <2>1. PICK r : r = stats[p]
    OBVIOUS
  <2>2. r \in StatRows /\ r = [total |-> t, accepted |-> a]
    BY <1>4, <1>7, <2>1 DEF StatRows
  <2>3. stats' = [[stats EXCEPT ![p] = [r EXCEPT !.total = t + 1]]
                         EXCEPT ![p] = [[r EXCEPT !.total = t + 1] EXCEPT !.accepted = c]]
    BY <1>3, <1>4, <1>7, <1>9, <2>1, <2>2
  <2>4. [[r EXCEPT !.total = t + 1] EXCEPT !.accepted = c] = [total |-> t + 1, accepted |-> c]
    <3>1. [r EXCEPT !.total = t + 1] = [total |-> t + 1, accepted |-> a]
      BY <2>2
    <3>2. [[total |-> t + 1, accepted |-> a] EXCEPT !.accepted = c]
            = [total |-> t + 1, accepted |-> c]
      OBVIOUS
    <3>3. QED
      BY <3>1, <3>2
  <2>5. QED
    BY <1>4, <2>3, <2>4
<1>12. ListingKept'
  <2>1. stats' \in [Listed -> StatRows]
    BY <1>4, <1>8, <1>10, <1>11 DEF StatRows
  <2>2. progress' \in [Listed -> {"none", "ATTEMPTED", "SOLVED"}]
    BY <1>3, <1>4
  <2>3. tries' \in 0 .. MaxTries
    BY <1>2, <1>4, ListingConstants
  <2>4. ASSUME NEW q \in Listed
        PROVE  stats'[q].accepted <= stats'[q].total /\ stats'[q].total <= tries'
    <3>1. CASE q = p
      BY <1>2, <1>4, <1>8, <1>10, <1>11, <3>1
    <3>2. CASE q # p
      <4>1. stats'[q] = stats[q] /\ stats[q] \in StatRows
        BY <1>4, <1>11, <3>2
      <4>2. PICK v, w : v = stats[q].total /\ w = stats[q].accepted
        OBVIOUS
      <4>3. v \in Nat /\ w \in Nat /\ w <= v /\ v <= tries
        BY <1>4, <4>1, <4>2 DEF StatRows
      <4>4. QED
        BY <1>2, <1>4, <4>1, <4>2, <4>3
    <3>3. QED
      BY <3>1, <3>2
  <2>5. QED
    BY <1>6, <2>1, <2>2, <2>3, <2>4 DEF ListingKept
<1>13. Walked'
  BY <1>5, <1>6 DEF Walked, Undisturbed
<1>14. PagesCoverList'
  <2>1. PagesCoverList
    BY <1>1 DEF ListingInv
  <2>2. QED
    BY <1>5, <1>6, <2>1, ZenonT(60) DEF PagesCoverList
<1>15. QED
  BY <1>12, <1>13, <1>14 DEF ListingInv

\* A page shows the next rows of the only answer there is; the last one ends with its end.
LEMMA ReadPageKeeps ==
  ListingInv /\ ReadPage => ListingInv'
<1>1. SUFFICES ASSUME ListingInv, ReadPage PROVE ListingInv'
  OBVIOUS
<1>2. /\ walk.at = "rows" /\ stats' = stats /\ progress' = progress /\ tries' = tries
      /\ \E s \in Answers(Found(walk.filter), walk.sort) :
           walk' = [walk EXCEPT !.shown = walk.shown \o PageOf(s, walk.page),
                                !.page = walk.page + 1,
                                !.at = IF walk.page * PageLimit < walk.total
                                       THEN "count" ELSE "done"]
  BY <1>1 DEF ReadPage
<1>3. PICK m, sort, page, shown, total, f :
        /\ m = Found(walk.filter) /\ sort = walk.sort /\ page = walk.page
        /\ shown = walk.shown /\ total = walk.total /\ f = walk.filter
  OBVIOUS
<1>4. PICK s \in Answers(m, sort) :
        walk' = [walk EXCEPT !.shown = shown \o PageOf(s, page), !.page = page + 1,
                             !.at = IF page * PageLimit < total THEN "count" ELSE "done"]
  BY <1>2, <1>3
<1>5. PICK at, longer : /\ longer = shown \o PageOf(s, page)
                        /\ at = IF page * PageLimit < total THEN "count" ELSE "done"
  OBVIOUS
<1>6. walk' = [[[walk EXCEPT !.shown = longer] EXCEPT !.page = page + 1] EXCEPT !.at = at]
  BY <1>4, <1>5
<1>7. walk \in WalkRows /\ ListingKept
  BY <1>1 DEF ListingInv, ListingKept
<1>8. page \in Nat \ {0} /\ shown \in Seq(Listed) /\ sort \in Sorts /\ total \in Nat
  BY <1>3, <1>7 DEF WalkRows
<1>9. m \subseteq Listed /\ IsFiniteSet(m)
  <2>1. m \subseteq Listed
    BY <1>3 DEF Found
  <2>2. QED
    BY <2>1, ListingConstants, FS_Subset
<1>10. PICK n : n = Cardinality(m)
  OBVIOUS
<1>11. n \in Nat /\ s \in [1 .. n -> m] /\ \A i, j \in 1 .. n : i # j => s[i] # s[j]
  <2>1. n \in Nat
    BY <1>9, <1>10, FS_CardinalityType
  <2>2. QED
    BY <1>4, <1>10, <2>1 DEF Answers, SetToSeqs
<1>12. s \in Seq(Listed) /\ Len(s) = n
  <2>1. s \in [1 .. n -> Listed]
    BY <1>9, <1>11
  <2>2. QED
    BY <1>11, <2>1
<1>13. longer \in Seq(Listed)
  BY <1>5, <1>8, <1>12, RowsOfAPage, ConcatProperties
<1>14. /\ walk' \in WalkRows /\ walk'.at = at /\ walk'.page = page + 1 /\ walk'.shown = longer
       /\ walk'.filter = f /\ walk'.sort = sort /\ walk'.total = total
       /\ walk'.matching = walk.matching /\ walk'.undisturbed = walk.undisturbed
  <2>1. page + 1 \in Nat \ {0} /\ at \in {"idle", "count", "rows", "done"}
    BY <1>5, <1>8
  <2>2. QED
    BY <1>3, <1>6, <1>7, <1>13, <2>1 DEF WalkRows
<1>15. ListingKept'
  BY <1>2, <1>7, <1>14 DEF ListingKept
<1>16. CASE ~walk.undisturbed
  BY <1>14, <1>15, <1>16 DEF ListingInv, Walked, Undisturbed, PagesCoverList
<1>17. CASE walk.undisturbed
  <2>1. /\ walk.matching = m /\ Len(shown) = Before(page) /\ Len(shown) <= n /\ total = n
        /\ \A t \in Answers(m, sort) : \A i \in 1 .. Len(shown) : shown[i] = t[i]
    BY <1>1, <1>2, <1>3, <1>10, <1>17 DEF ListingInv, Walked, Undisturbed, Before
  <2>2. \A i \in 1 .. Len(shown) : shown[i] = s[i]
    BY <2>1
  <2>3. Before(page) <= Len(s)
    BY <1>12, <2>1
  <2>4. Len(longer) = UpTo(s, page) /\ \A i \in 1 .. UpTo(s, page) : longer[i] = s[i]
    BY <1>5, <1>8, <1>12, <2>1, <2>2, <2>3, PagesJoin
  <2>5. PICK u : u = UpTo(s, page)
    OBVIOUS
  <2>6. PICK b : b = page * PageLimit
    OBVIOUS
  <2>7. b \in Nat
    BY <1>8, <2>6, ListingConstants
  <2>8. u = IF b <= n THEN b ELSE n
    BY <1>12, <2>5, <2>6 DEF UpTo
  <2>9. at = IF b < n THEN "count" ELSE "done"
    BY <1>5, <2>1, <2>6
  <2>10. Walked'
    <3>1. SUFFICES ASSUME b < n PROVE Walked'
      BY <1>14, <2>9 DEF Walked, Undisturbed
    <3>2. u = b /\ at = "count"
      BY <1>11, <2>7, <2>8, <2>9, <3>1
    <3>3. m = Found(walk.filter)'
      <4>1. Found(f)' = Found(f)
        BY <1>2, SameMatches
      <4>2. QED
        BY <1>3, <1>14, <4>1 DEF Found
    <3>4. Len(longer) = (walk'.page - 1) * PageLimit
      <4>1. walk'.page - 1 = page
        BY <1>8, <1>14
      <4>2. QED
        BY <2>4, <2>5, <2>6, <3>2, <4>1
    <3>5. Len(longer) <= n
      BY <1>11, <2>4, <2>5, <2>7, <3>1, <3>2
    <3>6. ASSUME NEW t \in Answers(m, sort), NEW i \in 1 .. Len(longer)
          PROVE  longer[i] = t[i]
      <4>1. t = s
        BY <1>4, <1>7, <1>8, <1>9, OneAnswer
      <4>2. QED
        BY <2>4, <4>1
    <3>7. Answers(walk.matching, walk.sort)' = Answers(m, sort)
      <4>1. Answers(m, sort)' = Answers(m, sort)
        BY <1>2, SameOrder
      <4>2. QED
        BY <1>14, <2>1, <4>1 DEF Answers
    <3>8. \A t \in Answers(walk.matching, walk.sort)' :
            \A i \in 1 .. Len(walk'.shown) : walk'.shown[i] = t[i]
      BY <1>14, <3>6, <3>7
    <3>9. /\ walk'.matching = Found(walk.filter)'
          /\ Len(walk'.shown) = (walk'.page - 1) * PageLimit
          /\ Len(walk'.shown) <= Cardinality(walk'.matching) /\ walk'.at # "rows"
      <4>1. walk'.matching = m /\ walk'.at = "count"
        BY <1>14, <2>1, <3>2
      <4>2. Len(walk'.shown) = (walk'.page - 1) * PageLimit
        BY <1>14, <3>4
      <4>3. Len(walk'.shown) <= Cardinality(walk'.matching)
        BY <1>10, <1>14, <3>5, <4>1
      <4>4. QED
        BY <3>3, <4>1, <4>2, <4>3
    <3>10. QED
      BY <3>8, <3>9 DEF Walked
  <2>11. PagesCoverList'
    <3>1. SUFFICES ASSUME ~(b < n) PROVE PagesCoverList'
      BY <1>14, <2>9 DEF PagesCoverList
    <3>2. u = n
      BY <1>11, <2>7, <2>8, <3>1
    <3>3. Len(longer) = n /\ \A i \in 1 .. n : longer[i] = s[i]
      BY <2>4, <2>5, <3>2
    <3>4. \A x \in m : \E i \in 1 .. n : s[i] = x
      BY <1>9, <1>10, <1>11, HasThemAll
    <3>5. {longer[i] : i \in 1 .. n} = m
      BY <1>11, <3>3, <3>4
    <3>6. DOMAIN longer = 1 .. n
      BY <1>13, <3>3
    <3>7. QED
      BY <1>14, <2>1, <3>3, <3>5, <3>6 DEF PagesCoverList
  <2>12. QED
    BY <1>15, <2>10, <2>11 DEF ListingInv
<1>18. QED
  BY <1>16, <1>17

-----------------------------------------------------------------------------
\* The invariant holds in the beginning and is kept by every step.
THEOREM ListingInvariant ==
  ListingSpec => []ListingInv
<1>1. ListingInit => ListingInv
  BY ListingBegins
<1>2. ListingInv /\ [ListingNext]_listingVars => ListingInv'
  <2>1. SUFFICES ASSUME ListingInv, [ListingNext]_listingVars PROVE ListingInv'
    OBVIOUS
  <2>2. CASE ListingNext
    BY <2>1, <2>2, OpenListKeeps, CountRowsKeeps, ReadPageKeeps, JudgeOneKeeps DEF ListingNext
  <2>3. CASE UNCHANGED listingVars
    <3>1. stats' = stats /\ progress' = progress /\ walk' = walk /\ tries' = tries
      BY <2>3 DEF listingVars
    <3>2. Found(walk.filter)' = Found(walk.filter)
      BY <3>1 DEF Found, Matches, Rated, Rate
    <3>3. Answers(walk.matching, walk.sort)' = Answers(walk.matching, walk.sort)
      BY <3>1 DEF Answers, Precedes, KeysOf, ByRate, Rated, Rate
    <3>4. ListingKept' /\ PagesCoverList'
      BY <2>1, <3>1 DEF ListingInv, ListingKept, PagesCoverList
    <3>5. Walked'
      BY <2>1, <3>1, <3>2, <3>3 DEF ListingInv, Walked, Undisturbed
    <3>6. QED
      BY <3>4, <3>5 DEF ListingInv
  <2>4. QED
    BY <2>1, <2>2, <2>3
<1>3. QED
  BY <1>1, <1>2, PTL DEF ListingSpec

\* A client that reads the whole list sees each match exactly once: list_problems, whatever
\* the filter, the order, the page size and the number of equal rows.
THEOREM EveryMatchIsShownOnce ==
  ListingSpec => []PagesCoverList
<1>1. ListingInv => PagesCoverList
  BY DEF ListingInv
<1>2. QED
  BY <1>1, ListingInvariant, PTL

\* The listing's variables have their types.
THEOREM ListingTyped ==
  ListingSpec => []ListingTypeOK
<1>1. ListingInv => ListingTypeOK
  <2>1. SUFFICES ASSUME ListingInv PROVE ListingTypeOK
    OBVIOUS
  <2>2. ListingKept
    BY <2>1 DEF ListingInv
  <2>3. ASSUME NEW p \in Listed
        PROVE  /\ stats[p].accepted \in 0 .. stats[p].total /\ stats[p].total <= tries
               /\ progress[p] \in {"none", "ATTEMPTED", "SOLVED"}
    <3>1. stats[p] \in StatRows /\ stats[p].accepted <= stats[p].total /\ stats[p].total <= tries
      BY <2>2 DEF ListingKept
    <3>2. stats[p].accepted \in Nat /\ stats[p].total \in Nat
      BY <3>1 DEF StatRows
    <3>3. QED
      BY <2>2, <3>1, <3>2 DEF ListingKept
  <2>4. walk \in WalkRows /\ tries \in 0 .. MaxTries
    BY <2>2 DEF ListingKept
  <2>5. QED
    BY <2>3, <2>4 DEF ListingTypeOK, WalkRows
<1>2. QED
  BY <1>1, ListingInvariant, PTL

-----------------------------------------------------------------------------
(* The whole platform                                                      *)

\* The components of the platform share no state: a behaviour of all of them is one of each.
THEOREM PlatformIsItsParts ==
  Spec => /\ SessionsSpec /\ LimiterSpec /\ CommunitySpec /\ CatalogueSpec /\ RequestsSpec
          /\ ListingSpec /\ AccountsSpec
<1>1. Init => /\ SessionsInit /\ LimiterInit /\ CommunityInit /\ CatalogueInit /\ RequestsInit
              /\ ListingInit /\ AccountsInit
  BY DEF Init
<1>2. [Next]_platformVars => [SessionsNext]_sessionVars
  BY DEF Next, platformVars
<1>3. [Next]_platformVars => [LimiterNext]_limiterVars
  BY DEF Next, platformVars
<1>4. [Next]_platformVars => [CommunityNext]_communityVars
  BY DEF Next, platformVars
<1>5. [Next]_platformVars => [CatalogueNext]_catalogueVars
  BY DEF Next, platformVars
<1>6. [Next]_platformVars => [RequestsNext]_requestVars
  BY DEF Next, platformVars
<1>7. [Next]_platformVars => [ListingNext]_listingVars
  BY DEF Next, platformVars
<1>8. [Next]_platformVars => [AccountsNext]_accountVars
  BY DEF Next, platformVars
<1>9. QED
  BY <1>1, <1>2, <1>3, <1>4, <1>5, <1>6, <1>7, <1>8, PTL
  DEF Spec, SessionsSpec, LimiterSpec, CommunitySpec, CatalogueSpec, RequestsSpec,
      ListingSpec, AccountsSpec

\* So whichever component is in focus keeps its types.
THEOREM PlatformTyped ==
  Spec => []PlatformTypeOK
<1>1. SessionsTypeOK /\ LimiterTypeOK /\ CommunityTypeOK /\ CatalogueTypeOK /\ RequestsTypeOK
      /\ ListingTypeOK /\ AccountsTypeOK => PlatformTypeOK
  BY DEF PlatformTypeOK
<1>2. QED
  BY <1>1, PlatformIsItsParts, SessionsTyped, LimiterTyped, CommunityTyped, CatalogueTyped,
     RequestsTyped, ListingTyped, AccountsTyped, PTL
=============================================================================
