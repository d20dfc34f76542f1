SPECIFICATION FairSpec
CONSTANTS
  N = 2
  QUEUE_SIZE = 3
  PosMod = 8
  Skip = 4
  HasPress <- FirstHasPress
  QueueLen = 2
  MaxOthers = 1
  MaxEdges <- MostOfFirst
  Phases <- AtRest
  MaxSetups = 2
INVARIANTS
  PreviousIsKept
  FinalStatusDelivered
  PressesConserved
  QueuedMeansPosted
  PositionIsExact
PROPERTIES
  EventuallyDelivered
CHECK_DEADLOCK FALSE
