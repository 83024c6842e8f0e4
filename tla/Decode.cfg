SPECIFICATION Spec
CONSTANTS
  Scripts <- Streams
  ReadSize = 9
INVARIANT TypeOK
INVARIANT DeliveredWhenComplete
INVARIANT FragmentationIrrelevant
INVARIANT OnlyUnfinishedTokenBuffered
CHECK_DEADLOCK FALSE
