CONSTANTS
  TS_MOD = 9
  TS_FRESH_MS = 2
  RTT_MAX_SAMPLE = 3
  SEQ_MASK = 1
  BLOCK_LIMIT = 4
  BlockCounts = {1, 2}
  Origin <- Clocks
  MaxDelay = 2
  MaxBlocks = 4
  MaxTime = 4
SPECIFICATION Spec
CHECK_DEADLOCK FALSE
INVARIANTS NoncesUnique RttIsNetworkDelay EchoedOnce
