CONSTANTS
  MaxNum = 5
  Instructions <- AnyInstruction
  Malformed <- BadDiffs
  RECEIVED_QUEUE_CAP = 2
  QUENCH_WINDOW_MS = 2
  MaxTime = 6
SPECIFICATION Spec
CHECK_DEADLOCK FALSE
INVARIANTS HeldStatesSorted QuenchBoundsQueue
PROPERTIES LatestNeverRegresses
