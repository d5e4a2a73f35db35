CONSTANTS
  hop_interval_ms = 1
  MAX_PORTS_OPEN = 3
  MAX_OLD_SOCKET_AGE_MS = 2
  OLD_SOCKET_DRAIN_CAP = 2
  MaxInbox = 1
  MaxDeaths = 2
SPECIFICATION RoamingSpec
INVARIANTS DrainBounded
PROPERTIES RoamsOut LingersForReplies
