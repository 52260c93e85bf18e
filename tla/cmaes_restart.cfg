CONSTANTS
  Lambda = 4
  DIM = 2
  VALUES = {0, 1, 2}
  MAX_FEVALS = 26
  MAX_ITER <- MCMaxIter
  AUTO_ITER = 5
  FTARGETS <- MCTargets
  MAX_HIST = 2
  STAGNATION_LEN = 3
  UNINIT <- MCUninit
SPECIFICATION Spec
PROPERTY RestartAfterThree
CHECK_DEADLOCK FALSE
