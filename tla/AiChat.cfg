SPECIFICATION FairSpec
CONSTANTS
  c1 = c1
  c2 = c2
  Conversations = {c1, c2}
  NoConversation = NoConversation
  MaxItems = 2
  MaxSends = 2
  MaxPieces = 2
  MaxStarts = 2
INVARIANTS RequestsAreSound HistoryAgrees
PROPERTIES RequestSettles
CHECK_DEADLOCK FALSE
