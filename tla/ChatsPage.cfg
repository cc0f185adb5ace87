SPECIFICATION Spec
CONSTANTS
  Friends = {f, g}
  Me = me
  None = None
  MaxMessages = 3
  MaxIndex = 1
  MaxNext = 1
INVARIANTS HistoryKeepsMessages SelectionIsAChat SentWhereTyped
PROPERTY DraftIsKept
CHECK_DEADLOCK FALSE
