------------------------------ MODULE LiveView ------------------------------
(***************************************************************************)
(* A page that watches one submission.  It asks the API for the row, again   *)
(* and again while the row is open, and listens to the events that the judge *)
(* and the reaper publish after they have changed it, over a WebSocket that  *)
(* is opened with a ticket and may close at any time.  An event only makes   *)
(* the page ask: what is shown always comes from the row.                    *)
(***************************************************************************)
EXTENDS Integers

CONSTANTS
  Pages,         \* "detail": listens while the row is open; "workspace": until it is left
  MaxReconnects,
  MaxRetries     \* of a request that fails for a transient reason

ASSUME LiveViewAssumption ==
  /\ Pages \subseteq {"detail", "workspace"}
  /\ MaxReconnects \in Nat /\ MaxRetries \in Nat

VARIABLES
  page,
  row,      \* the row's status, and for the properties whether it changed after it was closed
  worker,   \* how far the worker that claimed it is
  overdue,  \* the reaper has selected the row
  due,      \* a change of the row that is committed and not yet announced
  unheard,  \* history: the last change was announced, or was not, and no request followed
  shown,    \* what the page has: a status, or "none"; failed: its last request failed
  fetch,    \* the request that is in flight: what the API has read for it, and its retries
  socket,   \* the page's side: its state, its retries, and whether it has ever been open
  server,   \* event_socket, for this page
  ticket,   \* the ticket under its key in Redis
  frames    \* an event about the submission is on its way through the socket

liveVars ==
  <<page, row, worker, overdue, due, unheard, shown, fetch, socket, server, ticket, frames>>
rowSide == <<row, worker, overdue, due>>
pageSide == <<shown, fetch, socket>>
lineSide == <<server, ticket, frames>>

OpenRow == {"QUEUED", "RUNNING"}
ClosedRow == {"COMPLETED", "FAILED"}
NoFetch == [at |-> "idle", read |-> "none", tries |-> 0]
Asking == [at |-> "asked", read |-> "none", tries |-> 0]
NoSocket == [at |-> "off", retries |-> 0, opened |-> FALSE]
NewSocket == [at |-> "ticket", retries |-> 0, opened |-> FALSE]

LiveTypeOK ==
  /\ page \in Pages
  /\ row.status \in OpenRow \union ClosedRow /\ row.late \in BOOLEAN
  /\ worker \in {"idle", "judging", "failing", "done"}
  /\ {overdue, due, unheard, ticket, frames, shown.failed} \subseteq BOOLEAN
  /\ shown.status \in OpenRow \union ClosedRow \union {"none"}
  /\ fetch.at \in {"idle", "asked", "read"} /\ fetch.tries \in 0 .. MaxRetries
  /\ (fetch.at = "read") = (fetch.read # "none")
  /\ socket.at \in {"off", "ticket", "opening", "open", "waiting", "unavailable"}
  /\ socket.retries \in 0 .. MaxReconnects
  /\ server \in {"none", "accepted", "subscribed"}
  /\ frames => server = "subscribed"

\* The page is opened, or the workspace has just been told the submission's id.
LiveInit ==
  /\ page \in Pages
  /\ row = [status |-> "QUEUED", late |-> FALSE]
  /\ worker = "idle" /\ overdue = FALSE /\ due = FALSE /\ unheard = FALSE
  /\ shown = [status |-> "none", failed |-> FALSE]
  /\ fetch = Asking /\ socket = NewSocket
  /\ server = "none" /\ ticket = FALSE /\ frames = FALSE

-----------------------------------------------------------------------------
(* The row, as the judge and the reaper change it                          *)

\* A commit, and whether whoever made it goes on to announce it.
Changes(status, announced) ==
  /\ row' = [status |-> status, late |-> row.status \in ClosedRow /\ status # row.status]
  /\ due' = (due \/ announced) /\ unheard' = ~announced
  /\ UNCHANGED <<page, pageSide, lineSide>>

ClaimRow ==
  /\ worker = "idle" /\ row.status = "QUEUED"
  /\ worker' = "judging"
  /\ Changes("RUNNING", TRUE) /\ UNCHANGED overdue

\* _persist, whatever the row says by now; when its reply is lost the worker fails after all.
CompleteRow ==
  /\ worker = "judging"
  /\ worker' \in {"done", "failing"}
  /\ Changes("COMPLETED", worker' = "done") /\ UNCHANGED overdue

\* _fail
FailRow ==
  /\ worker \in {"judging", "failing"}
  /\ worker' = "done"
  /\ Changes("FAILED", TRUE) /\ UNCHANGED overdue

\* The reaper selects rows that are open for too long, ...
SweepSelects ==
  /\ row.status \in OpenRow /\ ~overdue
  /\ overdue' = TRUE
  /\ UNCHANGED <<page, row, worker, due, unheard, pageSide, lineSide>>

\* ... closes those that still are, and announces all it has selected.
SweepCloses ==
  /\ overdue
  /\ overdue' = FALSE
  /\ IF row.status \in OpenRow
     THEN Changes("FAILED", TRUE)
     ELSE due' = TRUE /\ UNCHANGED <<page, row, unheard, pageSide, lineSide>>
  /\ UNCHANGED worker

-----------------------------------------------------------------------------
(* Events                                                                  *)

\* publish_event: it reaches whoever is subscribed.  A change that is not announced yet when
\* the next one is committed is announced with it: an event says no more than "ask".
PublishEvent ==
  /\ due
  /\ due' = FALSE
  /\ frames' = (server = "subscribed")
  /\ unheard' = (server # "subscribed")
  /\ UNCHANGED <<page, row, worker, overdue, pageSide, server, ticket>>

\* Redis does not answer, or the process dies before it has published.
EventIsLost ==
  /\ due
  /\ due' = FALSE /\ unheard' = TRUE
  /\ UNCHANGED <<page, row, worker, overdue, pageSide, lineSide>>

-----------------------------------------------------------------------------
(* The socket                                                              *)

SocketAt(at) == socket.at = at
SocketGoes(at) == socket' = [socket EXCEPT !.at = at]

\* The connection ends: what was on its way is gone.
LineCut ==
  /\ server' = "none" /\ frames' = FALSE
  /\ unheard' = (unheard \/ frames)

\* connect: a ticket, and a WebSocket that carries it.
TakeTicket ==
  /\ SocketAt("ticket")
  /\ \/ SocketGoes("opening") /\ ticket' = TRUE
     \/ SocketGoes("unavailable") /\ UNCHANGED ticket
  /\ UNCHANGED <<page, rowSide, unheard, shown, fetch, server, frames>>

TicketExpires ==
  /\ ticket
  /\ ticket' = FALSE
  /\ UNCHANGED <<page, rowSide, unheard, pageSide, server, frames>>

\* redeem_ticket takes it away; then accept ...
Redeem ==
  /\ SocketAt("opening") /\ server = "none" /\ ticket
  /\ ticket' = FALSE /\ server' = "accepted"
  /\ UNCHANGED <<page, rowSide, unheard, pageSide, frames>>

\* ... and subscribe, in either order with the page's onopen.
Subscribe ==
  /\ server = "accepted"
  /\ server' = "subscribed"
  /\ UNCHANGED <<page, rowSide, unheard, pageSide, ticket, frames>>

OnOpen ==
  /\ SocketAt("opening") /\ server # "none"
  /\ socket' = [at |-> "open", retries |-> 0, opened |-> TRUE]
  /\ UNCHANGED <<page, rowSide, unheard, shown, fetch, lineSide>>

\* onclose: refused without a ticket, cut off, past the deadline, or Redis failed.  Only a
\* socket that has been open is tried again, a few times.
OnClose ==
  /\ SocketAt("opening") \/ SocketAt("open")
  /\ IF socket.opened /\ socket.retries < MaxReconnects
     THEN socket' = [socket EXCEPT !.at = "waiting", !.retries = @ + 1]
     ELSE SocketGoes("unavailable")
  /\ LineCut
  /\ UNCHANGED <<page, rowSide, shown, fetch, ticket>>

Reconnect ==
  /\ SocketAt("waiting")
  /\ SocketGoes("ticket")
  /\ UNCHANGED <<page, rowSide, unheard, shown, fetch, lineSide>>

-----------------------------------------------------------------------------
(* Requests                                                                *)

\* A wrong OnMessage: the request that is in flight will do.
OnMessageJoins ==
  /\ SocketAt("open") /\ frames
  /\ frames' = FALSE
  /\ fetch' = IF fetch = NoFetch THEN Asking ELSE fetch
  /\ unheard' = unheard
  /\ UNCHANGED <<page, rowSide, shown, socket, server, ticket>>

\* The handler invalidates the query: a request in flight is given up and another one is
\* made, except that a page that has nothing to show yet waits for the first.
OnMessage ==
  /\ SocketAt("open") /\ frames
  /\ frames' = FALSE
  /\ fetch' = IF shown.status = "none" /\ fetch # NoFetch THEN fetch ELSE Asking
  /\ unheard' = (unheard \/ fetch' # Asking)
  /\ UNCHANGED <<page, rowSide, shown, socket, server, ticket>>

\* refetchInterval: isPending(data.status); nothing happens while a request is in flight.
Poll ==
  /\ shown.status \in OpenRow /\ fetch = NoFetch
  /\ fetch' = Asking
  /\ UNCHANGED <<page, rowSide, unheard, shown, socket, lineSide>>

\* GET /submissions/{id}
ReadRow ==
  /\ fetch.at = "asked"
  /\ fetch' = [fetch EXCEPT !.at = "read", !.read = row.status]
  /\ UNCHANGED <<page, rowSide, unheard, shown, socket, lineSide>>

\* What the page has now; the detail page opens or closes its socket by it.
Shows(status, fails) ==
  LET watching == page = "workspace" \/ (status = "none" /\ ~fails) \/ status \in OpenRow IN
  /\ shown' = [status |-> status, failed |-> fails]
  /\ IF ~watching /\ ~SocketAt("off")
     THEN socket' = NoSocket /\ LineCut
     ELSE /\ socket' = IF watching /\ SocketAt("off") THEN NewSocket ELSE socket
          /\ UNCHANGED <<unheard, server, frames>>
  /\ UNCHANGED <<page, rowSide, ticket>>

FetchAnswers ==
  /\ fetch.at = "read"
  /\ fetch' = NoFetch
  /\ Shows(fetch.read, FALSE)

\* Transient failures are retried a few times, client errors never.
FetchRetries ==
  /\ fetch # NoFetch /\ fetch.tries < MaxRetries
  /\ fetch' = [Asking EXCEPT !.tries = fetch.tries + 1]
  /\ UNCHANGED <<page, rowSide, unheard, shown, socket, lineSide>>

FetchFails ==
  /\ fetch # NoFetch
  /\ fetch' = NoFetch
  /\ Shows(shown.status, TRUE)

LiveNext ==
  \/ ClaimRow \/ CompleteRow \/ FailRow \/ SweepSelects \/ SweepCloses
  \/ PublishEvent \/ EventIsLost
  \/ TakeTicket \/ TicketExpires \/ Redeem \/ Subscribe \/ OnOpen \/ OnClose \/ Reconnect
  \/ OnMessage \/ Poll \/ ReadRow \/ FetchAnswers \/ FetchRetries \/ FetchFails

LiveSpec == LiveInit /\ [][LiveNext]_liveVars

-----------------------------------------------------------------------------
(* Properties                                                              *)

\* The page will not ask again, unless the row changes or is announced once more.
Quiet == fetch = NoFetch /\ shown.status \notin OpenRow /\ ~due /\ ~frames

\* Whatever becomes of socket, tickets, events and requests, a page that has come to rest
\* shows the row, or its last request has failed for good.  The exception is a row that changed
\* after it was closed - a verdict after the reaper gave up, or a failure after a lost reply -
\* when no request followed its last event; whoever heard that event asks the row after it.
RestsOnTheRow ==
  Quiet => \/ shown.status = row.status
           \/ shown.failed
           \/ row.late /\ unheard
=============================================================================
