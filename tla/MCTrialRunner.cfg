CONSTANTS
  downUp = downUp
  shrink = shrink
  toggle = toggle
  expose = expose
  unfit = unfit
  replicas = replicas
  tls = tls
  plain = plain
  NoTest = NoTest
  NoInput = NoInput
  NoReply = NoReply
  Tests = {downUp, shrink, toggle, expose, unfit}
  Partition <- MCPartition
  Fields <- MCFields
  Values <- MCValues
  FieldOf <- MCFieldOf
  Accepts <- MCAccepts
  TwoStep = {downUp}
  MutateTo <- MCMutateTo
  SetupTo <- MCSetupTo
  Constraints <- MCConstraints
  Negate <- MCNegate
  Seed <- MCSeed
  NumMutation = 3
  MaxRetry = 2

SPECIFICATION FairSpec
INVARIANTS
  EveryTestOnce
  StepFilesContiguous
  RecoveryHasPredecessor
  BaseMatchesCluster
  ConstraintsHold
  SetupMakesReady
PROPERTIES
  ConsumesWhatItRan
  WorkerTerminates
  CampaignSpec
