\* Three kinds of job, epochs that wrap after two, a thread that may be lost.
CONSTANTS
  Jobs = {observe, mutate, probe}
  EpochMod = 2
  MayPanic = TRUE
  Nothing = Nothing
SPECIFICATION WorkerFairSpec
INVARIANT
  RightAnswer
PROPERTIES
  PromiseKept
  Recovery
