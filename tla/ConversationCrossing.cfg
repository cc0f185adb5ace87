SPECIFICATION Spec
CONSTANTS
  Peers = {alice, bob}
  NoContact = NoContact
  TurnTaking = FALSE
  AcksArrive = TRUE
  PrevLimit = 6
  MaxSkip = 9
  MaxSends = 2
  MaxLogins = 1
PROPERTY DeliveredIsRead
CHECK_DEADLOCK FALSE
