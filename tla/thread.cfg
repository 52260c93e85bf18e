CONSTANTS
  MAX_READING = 3
  MAX_DIV = 3
  PROMPT_START = TRUE
SPECIFICATION ThreadSpec
INVARIANTS
  ThreadTypeOK
  NoTornRead
  MembersPublished
PROPERTIES
  RegisterSpec
  JoinReturns
CHECK_DEADLOCK FALSE
