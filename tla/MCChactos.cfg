SPECIFICATION Spec
CONSTANTS
  Workers = {w1, w2}
  Jobs <- MCJobs
  PriorityPods = {"db-0"}
  NormalPods = {"db-0", "db-1"}
  FailureRatio = 50
INVARIANTS
  TypeOK
  FaultsOnTransitions
  EveryTransitionOnce
  CutShortByAnother
PROPERTIES
  WorkersFinish
