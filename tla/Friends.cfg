SPECIFICATION FriendsSpec
CONSTANTS
  People <- MCPeople
  GroupCount = 2
  Members <- MCMembers
  Membership <- MCMembership
  MaxGets = 2
  MaxRevisions = 1
  MaxLeavers = 1
  MaxFaults = 1
  Keywords <- MCKeywords
  MaxSearches = 2
  MaxWindows = 2
  MaxSends = 2
INVARIANTS ContactsAgree RepliesFindTheirPlace
PROPERTIES AcceptedIsListed
CHECK_DEADLOCK FALSE
