CONSTANTS
  MAX_READING = 1
  MAX_DIV = 1
  PROMPT_START = TRUE
  SETTINGS = {1, 2}
  MAX_EVALS = 2
  MAX_FAILS = 1
  OSC = 19200000
  MAX_DIVISOR = 4095
  PARTS = 16
  MARGIN = 3
  Hertz = {600, 1000}
  Counts = {7, 8}
  MAX_COUNTS = 16777216
  Keys = {"k", "l"}
  HashKeys = {"#"}
  Vals = {"", "a", "ab"}
  CommaVals = {"a,b"}
  EMPTY = ""
  PREFIX = "a"
  MAX_OPS = 4
  RX_LEN = 2
  MAX_READS = 3
  MAX_ERRORS = 1
SPECIFICATION PiSpec
INVARIANTS
  PiTypeOK
  OwnSetting
  LowAtQuietEnd
  RegistersFollow
  ReplyIsOwn
PROPERTIES
  SigintStopsMotor
  SigintEnds
  EvaluationEnds
  RestartReadsBack
CHECK_DEADLOCK FALSE
