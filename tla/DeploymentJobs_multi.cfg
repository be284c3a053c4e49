SPECIFICATION Spec
CONSTANTS
  live = live
  NoId = NoId
  NoJob = NoJob
  Job = {bar, bar2}
  FlattenJob = {}
  Deployment = {live}
  Live = {live}
  DeploymentOf <- MCDeploymentOf
  Worker = {w1, w2}
  WorkerId <- MCOwnIds
  MaxAttempts = 3
  BaseBackoff = 1
  MaxBackoff = 2
  LockTTL = 2
  RunTTL = 2
  MaxEval = 2
  CandleConflict = FALSE
  MaxFaults = 1
SYMMETRY Symmetry
INVARIANTS
  OneWorkerPerDeployment
  LeaseCoversRun
  AttemptsPayForEvaluations
