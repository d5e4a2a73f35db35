CONSTANTS
  small = small
  large = large
  MaxNum = 3
  Paints = {1, 3}
  HostSize <- ServerResizes
  InitialSize = small
  Sizes = {small, large}
  MaxResizes = 1
  RECEIVED_QUEUE_CAP = 2
  QUENCH_WINDOW_MS = 1
SPECIFICATION Spec
CHECK_DEADLOCK FALSE
INVARIANTS DisplayShowsLatest NoStaleFrame ConsumerFollowsUntilBranch
PROPERTIES NewestIsDrawn
