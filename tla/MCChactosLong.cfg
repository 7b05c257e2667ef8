SPECIFICATION Spec
CONSTANTS
  Workers = {w1}
  Jobs <- LongTrial
  PriorityPods = {"db-0"}
  NormalPods = {"db-0", "db-1"}
  FailureRatio = 50
INVARIANTS
  FaultsOnTransitions
