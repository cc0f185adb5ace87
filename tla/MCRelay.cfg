SPECIFICATION Spec
CONSTANTS
  Leavers = {phone}
  Impatient = {phone}
  a = a
  b = b
  sender = sender
  phone = phone
  laptop = laptop
  m1 = m1
  m2 = m2
  Nobody = Nobody
  Conns <- TwoDevices
  Owner <- TwoDevicesOwner
  Users = {a, b}
  Newcomers = {a, b}
  Msgs = {m1}
  SentBy <- OneMessageFrom
  To <- OneMessageTo
  Quota <- TwoDevicesQuota
INVARIANTS RegistryNeverCrashes AckedIsStored NoMessageGap
CHECK_DEADLOCK FALSE
