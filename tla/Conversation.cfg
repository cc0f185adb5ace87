SPECIFICATION Spec
CONSTANTS
  Peers = {alice, bob}
  NoContact = NoContact
  TurnTaking = TRUE
  AcksArrive = TRUE
  PrevLimit = 1
  MaxSkip = 1
  MaxSends = 3
  MaxLogins = 2
INVARIANTS TypeOK NextIsReadable KeysAreFresh
PROPERTY DeliveredIsRead
CHECK_DEADLOCK FALSE
