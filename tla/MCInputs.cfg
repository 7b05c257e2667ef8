SPECIFICATION Spec
VIEW View
CONSTANTS
  Cases <- MCCases
  Definitions <- K8sDefinitions
  Similarity <- K8sSimilarity
  MaxGenerations = 2
INVARIANTS
  TypeOK
PROPERTIES
  OnlyThePathChanges
  TestsMakeAChange
CHECK_DEADLOCK FALSE
