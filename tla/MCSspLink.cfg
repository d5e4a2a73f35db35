CONSTANTS
  Events = {k1, k2}
  ACK_INTERVAL_MS = 3
  ACK_DELAY_MS = 1
  ACTIVE_RETRY_TIMEOUT_MS = 4
  SHUTDOWN_RETRIES = 2
  SENT_QUEUE_CAP = 3
  CULL_FROM_END = 3
  SEND_MINDELAY = 0
  RESEND_LIMIT = 2
  RESEND_SLACK = 1
  SHUTDOWN_NUM = 6
  RECEIVED_QUEUE_CAP = 2
  QUENCH_WINDOW_MS = 2
  Rtos = {1}
  SendIntervals = {1}
  HostNums = {6}
  MaxTime = 5
  MaxTyped = 2
  k1 = k1
  k2 = k2
SYMMETRY Keys
SPECIFICATION Spec
CHECK_DEADLOCK FALSE
INVARIANTS LinkInv AssumedSurvivesCull StreamsNeverFork KnownReceiverHeld ShutdownAckedMeansDelivered DueFrameHasNews HeaderDeterminesDiff
PROPERTIES ImplementsStreamSync AckedNeverRegresses
