------------------------------ MODULE Requests ------------------------------
(***************************************************************************)
(* One HTTP exchange through the middleware of the API, outermost first:     *)
(* the handler of unexpected errors, the request context with its metrics,   *)
(* the body size limit, the application.  The application is any ASGI        *)
(* application: it may read its body and answer from different tasks, go on  *)
(* after it was told of a disconnect, answer twice too late, return or raise.*)
(***************************************************************************)
EXTENDS Integers, Sequences

CONSTANTS
  MaxBody,         \* settings.max_request_bytes
  MaxAdminBody,    \* settings.admin_max_request_bytes
  Longest          \* bound: the longest body sent

ASSUME RequestsAssumption == {MaxBody, MaxAdminBody, Longest} \subseteq Nat

VARIABLES
  exchange,  \* the request: where it goes, a bearer token, a declared length, bytes not read yet
  gate,      \* BodySizeLimitMiddleware: received, rejected, response_started and where it is
  handler,   \* the application: still running or how it ended, bytes it was handed, whether it answered
  context,   \* RequestContextMiddleware: status_code, and the status it put into the metrics
  wire       \* the statuses that the client was sent

requestVars == <<exchange, gate, handler, context, wire>>

Statuses == {200, 400, 413, 500}

RequestsTypeOK ==
  /\ exchange.left \in 0 .. exchange.length /\ exchange.length \in 0 .. Longest
  /\ gate.at \in {"new", "open", "rejecting", "left"} /\ gate.received + exchange.left = exchange.length
  /\ handler.at \in {"running", "returned", "raised"} /\ handler.handed <= gate.received
  /\ {context.status, context.recorded} \subseteq Statuses \union {0}
  /\ wire \in Seq(Statuses)

RequestsInit ==
  /\ \E n \in 0 .. Longest :
       exchange \in [length : {n}, left : {n}, declared : BOOLEAN, bearer : BOOLEAN, admin : BOOLEAN]
  /\ gate = [at |-> "new", received |-> 0, rejected |-> FALSE, started |-> FALSE]
  /\ handler = [at |-> "running", handed |-> 0, answered |-> FALSE]
  /\ context = [status |-> 500, recorded |-> 0]
  /\ wire = << >>

-----------------------------------------------------------------------------
\* _limit_for: the larger limit only with a bearer token.
LimitFor(q) == IF q.bearer /\ q.admin THEN MaxAdminBody ELSE MaxBody

\* What passes the request context on its way out sets status_code.
SendStart(status) ==
  /\ wire' = Append(wire, status)
  /\ context' = [context EXCEPT !.status = status]

\* A declared length over the limit is answered without the application.
Enter ==
  /\ gate.at = "new"
  /\ IF exchange.declared /\ exchange.length > LimitFor(exchange)
     THEN /\ gate' = [gate EXCEPT !.at = "left", !.rejected = TRUE]
          /\ SendStart(413)
     ELSE gate' = [gate EXCEPT !.at = "open"] /\ UNCHANGED <<context, wire>>
  /\ UNCHANGED <<exchange, handler>>

\* A wrong Receive: what was read is handed on before it is counted.
ReceiveThenCount ==
  /\ gate.at = "open" /\ handler.at = "running" /\ exchange.left > 0
  /\ \E n \in 1 .. exchange.left :
       LET over == gate.received > LimitFor(exchange) IN
       /\ exchange' = [exchange EXCEPT !.left = exchange.left - n]
       /\ handler' = IF over THEN handler ELSE [handler EXCEPT !.handed = handler.handed + n]
       /\ IF over /\ ~gate.started /\ ~gate.rejected
          THEN /\ gate' = [gate EXCEPT !.received = gate.received + n, !.rejected = TRUE, !.at = "rejecting"]
               /\ SendStart(413)
          ELSE gate' = [gate EXCEPT !.received = gate.received + n] /\ UNCHANGED <<context, wire>>

\* limited_receive: over the limit the application is told of a disconnect, and if nobody has
\* answered yet the rejection starts at once.
Receive ==
  /\ gate.at = "open" /\ handler.at = "running" /\ exchange.left > 0
  /\ \E n \in 1 .. exchange.left :
       LET over == gate.received + n > LimitFor(exchange) IN
       /\ exchange' = [exchange EXCEPT !.left = exchange.left - n]
       /\ handler' = IF over THEN handler ELSE [handler EXCEPT !.handed = handler.handed + n]
       /\ IF over /\ ~gate.started /\ ~gate.rejected
          THEN /\ gate' = [gate EXCEPT !.received = gate.received + n, !.rejected = TRUE, !.at = "rejecting"]
               /\ SendStart(413)
          ELSE gate' = [gate EXCEPT !.received = gate.received + n] /\ UNCHANGED <<context, wire>>

\* The rest of the rejection is sent; other tasks of the application run meanwhile.
RejectEnds ==
  /\ gate.at = "rejecting"
  /\ gate' = [gate EXCEPT !.at = "open"]
  /\ UNCHANGED <<exchange, handler, context, wire>>

\* guarded_send: after a rejection the application's answer is dropped.
HandlerAnswers ==
  /\ gate.at \in {"open", "rejecting"} /\ handler.at = "running" /\ ~handler.answered
  /\ handler' = [handler EXCEPT !.answered = TRUE]
  /\ \E status \in {200, 400} :
       IF gate.rejected
       THEN UNCHANGED <<gate, context, wire>>
       ELSE gate' = [gate EXCEPT !.started = TRUE] /\ SendStart(status)
  /\ UNCHANGED exchange

HandlerEnds ==
  /\ gate.at \in {"open", "rejecting"} /\ handler.at = "running"
  /\ \E how \in {"returned", "raised"} : handler' = [handler EXCEPT !.at = how]
  /\ UNCHANGED <<exchange, gate, context, wire>>

\* An exception leaves the gate unless the exchange was rejected.
Leave ==
  /\ gate.at = "open" /\ handler.at # "running"
  /\ gate' = [gate EXCEPT !.at = "left"]
  /\ UNCHANGED <<exchange, handler, context, wire>>

\* The finally of the request context: one count in the metrics, with the status seen last.
Record ==
  /\ gate.at = "left" /\ context.recorded = 0
  /\ context' = [context EXCEPT !.recorded = context.status]
  /\ UNCHANGED <<exchange, gate, handler, wire>>

\* Outside of it: an unexpected error, or no answer at all, is a 500 if nothing was sent.
AnswerForIt ==
  /\ context.recorded # 0 /\ wire = << >>
  /\ wire' = <<500>>
  /\ UNCHANGED <<exchange, gate, handler, context>>

RequestsNext ==
  \/ Enter \/ Receive \/ RejectEnds \/ HandlerAnswers \/ HandlerEnds \/ Leave \/ Record \/ AnswerForIt

RequestsSpec == RequestsInit /\ [][RequestsNext]_requestVars

-----------------------------------------------------------------------------
\* Whatever the application does with a body that is too large, it is not handed more than the
\* limit, the client is answered once - with 413 unless the application was first - and the
\* metrics count the status that the client was sent.
AnsweredOnce ==
  /\ Len(wire) <= 1 /\ handler.handed <= LimitFor(exchange)
  /\ gate.received > LimitFor(exchange) /\ ~gate.started => wire = <<413>>
  /\ context.recorded # 0 /\ wire # << >> => wire[1] = context.recorded
=============================================================================
