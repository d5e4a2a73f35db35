CONSTANTS
  c1 = c1
  c2 = c2
  Nobody = Nobody
  Callers = {c1, c2}
  SHUTDOWN_RETRIES = 2
  ACTIVE_RETRY_TIMEOUT_MS = 3
  SEND_INTERVAL = 2
  MaxCommands = 3
  MaxScreens = 1
SPECIFICATION Spec
CHECK_DEADLOCK FALSE
INVARIANTS SilentAfterTerminate EndIsAnnouncedOnce
PROPERTIES ShutdownEnds TerminateReturns
