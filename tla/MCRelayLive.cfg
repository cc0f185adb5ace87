SPECIFICATION FairSpec
CONSTANTS
  Leavers = {phone}
  Impatient = {}
  a = a
  b = b
  sender = sender
  phone = phone
  laptop = laptop
  m1 = m1
  m2 = m2
  Nobody = Nobody
  Conns <- OneReceiver
  Owner <- OneReceiverOwner
  Users = {a, b}
  Newcomers = {}
  Msgs = {m1, m2}
  SentBy <- TwoMessagesFrom
  To <- TwoMessagesTo
  Quota <- OneReceiverQuota
INVARIANTS TypeOK PushesInOrder
PROPERTIES HandlersFinish OnlineDelivery KnownAreAnswered
CHECK_DEADLOCK FALSE
