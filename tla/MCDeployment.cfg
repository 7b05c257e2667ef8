CONSTANTS
  Steps <- MCSteps
  RestartRetries = 3
  CreateRetries = 3
  DeployRetries = 3
  WaitRetries = 3
SPECIFICATION FairSpec
INVARIANTS
  TrialIsReady
  CreatesOnNothing
  RetriesBounded
PROPERTY DeploymentEnds
