SPECIFICATION Spec
CONSTANTS
  Callers = {ui, loader}
  Listener = Listener
  MsgIds = {m1, m2, m3}
  NoId = NoId
  Free = Free
  MaxInbox = 2
SYMMETRY Symmetry
INVARIANTS TypeOK WaitersAreRegistered HandOverHasReceiver HandlerRequestNeverAnswered
PROPERTIES JamIsPermanent ImplementsRequestReply
CHECK_DEADLOCK FALSE
