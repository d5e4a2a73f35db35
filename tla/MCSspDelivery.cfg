CONSTANTS
  Events = {k1}
  ACK_INTERVAL_MS = 3
  ACK_DELAY_MS = 1
  ACTIVE_RETRY_TIMEOUT_MS = 4
  SHUTDOWN_RETRIES = 1
  SENT_QUEUE_CAP = 3
  CULL_FROM_END = 3
  SEND_MINDELAY = 0
  RESEND_LIMIT = 2
  RESEND_SLACK = 1
  SHUTDOWN_NUM = 12
  Rtos = {1}
  SendIntervals = {2}
  POLL_CAP_MS = 2
  MaxTyped = 2
  k1 = k1
SPECIFICATION Spec
CHECK_DEADLOCK FALSE
INVARIANTS SpeaksInTime
PROPERTIES Delivered
