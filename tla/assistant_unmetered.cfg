SPECIFICATION AssistantSpec
CONSTANTS
  Asks = {1, 2}
  Conversations = {1, 2}
  MaxConversations = 1
  MaxMessages = 2
INVARIANT EveryRequestMetered
CHECK_DEADLOCK FALSE
