SPECIFICATION Spec
CONSTANTS
  MaxRequests = 2
  MaxPackets = 3
  MaxCuts = 1
INVARIANTS RequestsAreUnderstood PacketsArrive FetchedAreGenuine
CHECK_DEADLOCK FALSE
