------------------------------ MODULE Assistant ------------------------------
(***************************************************************************)
(* The AI assistant for one user: single generations, and conversations     *)
(* whose replies are streamed.  A request checks a limit, stores the user's  *)
(* message, calls the model and, when the stream has ended in whatever way,  *)
(* stores the reply together with a usage row.  The user may stop a stream,  *)
(* send again before it ends and delete the conversation meanwhile.          *)
(***************************************************************************)
EXTENDS Integers, FiniteSets

CONSTANTS
  Asks,              \* bound: requests, used in ascending order
  Conversations,     \* bound: conversations that are ever created, in ascending order
  MaxConversations,  \* settings.ai_max_conversations
  MaxMessages        \* settings.ai_max_messages_per_conversation

ASSUME AssistantAssumption ==
  /\ Asks \subseteq Nat /\ IsFiniteSet(Asks)
  /\ Conversations \subseteq Nat \ {0} /\ IsFiniteSet(Conversations)
  /\ {MaxConversations, MaxMessages} \subseteq Nat \ {0}

VARIABLES
  conversation,  \* conversation[c]: its row is absent, open or deleted
  messages,      \* messages[c]: the messages of c, each with its request and role
  usage,         \* requests with a row in ai_usage
  ask            \* ask[r]: a request, from its checks until it is over

assistantVars == <<conversation, messages, usage, ask>>

None == 0  \* no conversation: a single generation, or one that is yet to be created
NewAsk == [at |-> "new", c |-> None, text |-> FALSE, failed |-> FALSE]
Busy == {"counted", "loaded", "staged", "streaming", "ended"}
Over == {"done", "lost", "refused", "gone", "crashed"}
Stored == {c \in Conversations : conversation[c] = "open"}

AssistantTypeOK ==
  /\ conversation \in [Conversations -> {"absent", "open", "deleted"}]
  /\ \A c \in Conversations : /\ messages[c] \subseteq Asks \X {"user", "assistant"}
                              /\ conversation[c] # "open" => messages[c] = {}
  /\ usage \subseteq Asks
  /\ \A r \in Asks : /\ ask[r].at \in {"new"} \union Busy \union Over
                     /\ ask[r].c \in Conversations \union {None}
                     /\ ask[r].text \in BOOLEAN /\ ask[r].failed \in BOOLEAN

AssistantInit ==
  /\ conversation = [c \in Conversations |-> "absent"]
  /\ messages = [c \in Conversations |-> {}]
  /\ usage = {}
  /\ ask = [r \in Asks |-> NewAsk]

-----------------------------------------------------------------------------
New(r) == ask[r] = NewAsk /\ \A o \in Asks : o < r => ask[o] # NewAsk
At(r, stage) == ask[r].at = stage

Goes(r, stage) == ask' = [ask EXCEPT ![r].at = stage]

\* A wrong Inserted: rows do not refer to their conversation.
InsertedAnyhow(c) == c \in Conversations \union {None}

\* The foreign key: what refers to a conversation that is gone is not stored.
Inserted(c) == IF c = None THEN TRUE ELSE conversation[c] = "open"

\* _generate: hints, explanations and reviews, in one request with the model called at once.
Generate(r) ==
  /\ New(r)
  /\ ask' = [ask EXCEPT ![r].at = "streaming"]
  /\ UNCHANGED <<conversation, messages, usage>>

\* create_conversation: the rows are counted ...
Count(r) ==
  /\ New(r)
  /\ Goes(r, IF Cardinality(Stored) < MaxConversations THEN "counted" ELSE "refused")
  /\ UNCHANGED <<conversation, messages, usage>>

\* ... and the conversation is inserted with its first message.
Create(r) ==
  /\ At(r, "counted")
  /\ \E c \in Conversations :
       /\ conversation[c] = "absent" /\ \A d \in Conversations : d < c => conversation[d] # "absent"
       /\ conversation' = [conversation EXCEPT ![c] = "open"]
       /\ messages' = [messages EXCEPT ![c] = {<<r, "user">>}]
       /\ ask' = [ask EXCEPT ![r].at = "staged", ![r].c = c]
  /\ UNCHANGED usage

\* prepare_reply: the conversation is loaded and its messages are counted; the problem and
\* related problems are looked up ...
Load(r, c) ==
  /\ New(r)
  /\ conversation[c] = "open"
  /\ ask' = [ask EXCEPT ![r].c = c,
       ![r].at = IF Cardinality(messages[c]) < MaxMessages THEN "loaded" ELSE "refused"]
  /\ UNCHANGED <<conversation, messages, usage>>

\* ... and the message is inserted, which fails when the conversation is gone.
Stage(r) ==
  LET c == ask[r].c IN
  /\ At(r, "loaded")
  /\ IF Inserted(c)
     THEN /\ messages' = [messages EXCEPT ![c] = @ \union {<<r, "user">>}]
          /\ Goes(r, "staged")
     ELSE UNCHANGED messages /\ Goes(r, "refused")
  /\ UNCHANGED <<conversation, usage>>

\* The client leaves before the stream has begun: the model is not called.
LeaveEarly(r) ==
  /\ At(r, "staged")
  /\ Goes(r, "gone")
  /\ UNCHANGED <<conversation, messages, usage>>

\* stream_reply
CallModel(r) ==
  /\ At(r, "staged")
  /\ Goes(r, "streaming")
  /\ UNCHANGED <<conversation, messages, usage>>

Token(r) ==
  /\ At(r, "streaming") /\ ~ask[r].text
  /\ ask' = [ask EXCEPT ![r].text = TRUE]
  /\ UNCHANGED <<conversation, messages, usage>>

ModelEnds(r) ==
  /\ At(r, "streaming")
  /\ \E f \in BOOLEAN :
       /\ f /\ ask[r].c = None => ~ask[r].text
       /\ ask' = [ask EXCEPT ![r].at = "ended", ![r].failed = f]
  /\ UNCHANGED <<conversation, messages, usage>>

\* A wrong Stop: nothing protects what follows the stream from the cancellation.
StopUnshielded(r) ==
  /\ At(r, "streaming") /\ ask[r].c # None
  /\ Goes(r, "done")
  /\ UNCHANGED <<conversation, messages, usage>>

\* The user presses Stop or closes the tab.
Stop(r) ==
  /\ At(r, "streaming") /\ ask[r].c # None
  /\ Goes(r, "ended")
  /\ UNCHANGED <<conversation, messages, usage>>

\* _persist_reply, _record_usage: one transaction with the reply, if any, and the usage
\* row; both refer to the conversation, and neither is stored when it is gone.
Persist(r) ==
  LET c == ask[r].c IN
  /\ At(r, "ended")
  /\ IF Inserted(c)
     THEN /\ usage' = usage \union {r}
          /\ messages' = IF c # None /\ ask[r].text
                         THEN [messages EXCEPT ![c] = @ \union {<<r, "assistant">>}]
                         ELSE messages
          /\ Goes(r, "done")
     ELSE UNCHANGED <<usage, messages>> /\ Goes(r, "lost")
  /\ UNCHANGED <<conversation>>

\* delete_conversation: its messages go with it, its usage rows stay.
Delete(c) ==
  /\ conversation[c] = "open"
  /\ conversation' = [conversation EXCEPT ![c] = "deleted"]
  /\ messages' = [messages EXCEPT ![c] = {}]
  /\ UNCHANGED <<usage, ask>>

\* The server stops: what is in memory is gone.
Crash ==
  /\ \E r \in Asks : ask[r].at \in Busy
  /\ ask' = [r \in Asks |-> IF ask[r].at \in Busy THEN [ask[r] EXCEPT !.at = "crashed"] ELSE ask[r]]
  /\ UNCHANGED <<conversation, messages, usage>>

AssistantNext ==
  \/ \E r \in Asks :
       \/ Generate(r) \/ Count(r) \/ Create(r) \/ Stage(r) \/ LeaveEarly(r)
       \/ CallModel(r) \/ Token(r) \/ ModelEnds(r) \/ Stop(r) \/ Persist(r)
       \/ \E c \in Conversations : Load(r, c)
  \/ \E c \in Conversations : Delete(c)
  \/ Crash

AssistantSpec == AssistantInit /\ [][AssistantNext]_assistantVars

-----------------------------------------------------------------------------
(* Properties                                                              *)

\* A request that called the model is metered when it is over, and what the model had said
\* is kept, stopped and failed streams included; a conversation that is deleted before the
\* end takes both with it.
OverIsMetered ==
  \A r \in Asks : ask[r].at \in {"done", "lost"} =>
    \/ /\ r \in usage
       /\ ask[r].text /\ ask[r].c \in Stored => <<r, "assistant">> \in messages[ask[r].c]
    \/ ask[r].c # None /\ conversation[ask[r].c] = "deleted"

\* "One row per AI request, win or lose" (ai/models.py).
EveryRequestMetered ==
  \A r \in Asks : ask[r].at \in {"done", "lost"} => r \in usage
=============================================================================
