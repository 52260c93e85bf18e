CONSTANTS
  MAX_READING = 3
  MAX_DIV = 3
  PROMPT_START = TRUE
SPECIFICATION ThreadSpec
PROPERTY FailureReported
CHECK_DEADLOCK FALSE
