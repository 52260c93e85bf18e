CONSTANTS
  BUF_MAX_LEN = 6
  SIGNED_CHAR = FALSE
  NREGS = 2
  DATA_BYTES <- MCDataBytes
  STALE_LINES <- MCStaleLines
  RESET_ACKED = TRUE
  MAX_BACKLOG = 3
  MAX_SAMPLES = 2
  MAX_FAULTS = 1
SPECIFICATION Spec
INVARIANT AckedWriteSucceeds
CHECK_DEADLOCK FALSE
