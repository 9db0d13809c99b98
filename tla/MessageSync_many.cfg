SPECIFICATION FairSpec
CONSTANTS
  friend = friend
  group = group
  NoChat = NoChat
  Conversations = {friend, group}
  Groups = {group}
  ConversationOf <- InTurn
  Texts <- AllTexts
  PageSize = 2
  ReadLimit = 2
  MaxFaults = 0
  MaxMessages = 5
  MaxHeld = 5
  MaxLogins = 1
  MaxCopies = 2
PROPERTIES AllSynced
CHECK_DEADLOCK FALSE
