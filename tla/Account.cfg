SPECIFICATION AccountSpec
CONSTANTS
  Accounts <- MCAccounts
  MaxAttempts = 2
  MaxFaults = 2
  Drafts <- MCDrafts
  MaxRequests = 2
  MaxCodes = 2
  MaxUploads = 2
  MaxNotices = 3
INVARIANTS AccountsAreApart FormIsSound NoticesAreApart
PROPERTIES LoginEndsInMainWindow EveryNoticeIsShown
CHECK_DEADLOCK FALSE
