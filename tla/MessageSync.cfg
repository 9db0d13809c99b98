SPECIFICATION FairSpec
CONSTANTS
  friend = friend
  group = group
  NoChat = NoChat
  Conversations = {friend, group}
  Groups = {group}
  ConversationOf <- InTurn
  Texts <- AllButOne
  PageSize = 2
  ReadLimit = 1
  MaxFaults = 1
  MaxMessages = 4
  MaxHeld = 4
  MaxLogins = 2
  MaxCopies = 2
INVARIANTS ScreenFollowsStore NoneLost OneCopyPerLogin
PROPERTIES AllSynced
CHECK_DEADLOCK FALSE
