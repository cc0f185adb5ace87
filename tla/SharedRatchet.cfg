SPECIFICATION Spec
CONSTANTS
  PrevLimit = 2
  MaxSkip = 3
  MaxSends = 2
  MaxPeerSends = 2
  MaxRestarts = 1
INVARIANTS ChainFollowsIndex EveryMessageIsRead PeerCanRead  KeysAreFresh
CONSTRAINT Followed
CHECK_DEADLOCK FALSE
