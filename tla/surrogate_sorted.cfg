CONSTANTS
  PLValues <- MCValues
  Minima <- MCMinima
  FUP = 10
  SAMPLESIZE = 2
  MaxIters = {1, 3}
  STEPS = 1
  DOUBLINGS = 1
  Dims = {1, 2, 3}
  NPOINTS = 6
  MAXITR = 4
  TENTATIVES = 2
  LambdaDef = 2
  RunValues = {0, 1}
  MaxFevals <- MCMaxFevals
  Uninit <- MCMaxFevals
  NRestarts = {0, 2, 3}
  MAX_RUN = 3
  MAX_IDLE = 2
  PopSize = 3
  GenValues = {0, 1, 2}
  Reevaluated = {2}
  FREE = {1}
  MAX_CALLS = 2
  SurrValues = {0, 1}
  SurrLambda = 2
  SurrSizes = {2, 3}
  LambdaPrimes = {0, 1, 2}
  NSteps <- MCNSteps
  PRESCALE = 2
  MAX_LIFE = 3
  MAX_GEN = 3
  MAX_RESTART = 1
  UNIT = 20
  Boxes <- MCBoxes
  Samples <- MCSamples
  Starts <- MCStarts
  CUSTOM = 3
  Garbage = {0, 77}
SPECIFICATION OptimizerSpec
INVARIANT SortedForUpdate
CHECK_DEADLOCK FALSE
