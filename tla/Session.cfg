SPECIFICATION FairSpec
CONSTANTS
  Users = {a, b}
  Passwords = {x, y}
  None = None
  MaxStarts = 3
  MaxClicks = 3
INVARIANTS PublishedKeyIsKept ChatsAreTheAccounts OneLoginAtATime StoredLoginIsGood
PROPERTY LoadingEnds
CHECK_DEADLOCK FALSE
