SPECIFICATION FairSpec
CONSTANTS
  live = live
  NoId = NoId
  NoJob = NoJob
  Job = {bar, bar2, flatten}
  FlattenJob = {flatten}
  Deployment = {live}
  Live = {live}
  DeploymentOf <- MCDeploymentOf
  Worker = {w1}
  WorkerId <- MCOwnIds
  MaxAttempts = 2
  BaseBackoff = 2
  MaxBackoff = 1
  LockTTL = 1
  RunTTL = 1
  MaxEval = 2
  CandleConflict = TRUE
  MaxFaults = 1
INVARIANT TypeOK
PROPERTIES
  KeepsLedger
  EveryJobFinishes
