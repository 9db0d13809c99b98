SPECIFICATION ChatSpec
CONSTANTS
  ConversationIds = {c1, c2}
  Times <- MCTimes
  Interval = 1
  MaxStored = 4
  Limit = 3
  Viewport = 2
  MaxRows = 5
  MaxInputs = 2
  MaxTimers = 2
  Near = 1
  Follow = 0
INVARIANTS RowsAreConversation ViewIsTold
PROPERTIES DeletesItsOwn OwnMessageIsShown
CHECK_DEADLOCK FALSE
