SPECIFICATION FairSpec
CONSTANTS
  EventId = {e1, e2}
  Client = {c1, c2}
  MaxPosts = 2
  ResetToLatest = TRUE
  MaxStarts = 2
  MaxRejoins = 1
  None = None
INVARIANTS
  TypeOK
  LossIsBounded
  RepeatsAreBounded
PROPERTIES
  AcceptedIsPublishedOnce
  DeliversInOrder
  RecordsAreReached
CHECK_DEADLOCK FALSE
