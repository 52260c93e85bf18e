CONSTANTS
  MAX_READING = 1
  MAX_DIV = 1
  PROMPT_START = TRUE
  SETTINGS = {1, 2}
  MAX_EVALS = 2
  MAX_FAILS = 1
SPECIFICATION Spec
INVARIANT LowAfterSignal
CHECK_DEADLOCK FALSE
