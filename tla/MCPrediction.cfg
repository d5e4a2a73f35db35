CONSTANTS
  Sizes <- ScreenSizes
  PASTE_THRESHOLD = 2
  MaxBurst = 3
  MaxTyped = 4
  MaxNum = 2
SPECIFICATION Spec
CHECK_DEADLOCK FALSE
INVARIANTS NoGuessOutlivesEcho
PROPERTIES NoEmptySlot
