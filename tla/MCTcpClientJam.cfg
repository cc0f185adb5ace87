SPECIFICATION FairSpec
CONSTANTS
  Callers = {ui}
  Listener = Listener
  MsgIds = {m1, m2}
  NoId = NoId
  Free = Free
  MaxInbox = 1
PROPERTY TimedOutCallsReturn
CHECK_DEADLOCK FALSE
