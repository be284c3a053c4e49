SPECIFICATION Spec
CONSTANTS
  live = live
  NoId = NoId
  NoJob = NoJob
  Job = {bar}
  FlattenJob = {}
  Deployment = {live}
  Live = {live}
  DeploymentOf <- MCDeploymentOf
  Worker = {w1}
  WorkerId <- MCOwnIds
  MaxAttempts = 2
  BaseBackoff = 1
  MaxBackoff = 2
  LockTTL = 2
  RunTTL = 2
  MaxEval = 2
  CandleConflict = FALSE
  MaxFaults = 0
PROPERTY NothingEvaluatedWhilePaused
