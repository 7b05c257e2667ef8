SPECIFICATION Spec
CONSTANTS
  RawCrd <- MCNestedCrd
  PropertyOrder <- MCPropertyOrder
  SeedCR <- MCNestedSeed
  Changes <- MCNestedChanges
  Shows <- MCShows
  WrongValues <- MCWrongValues
  Messages <- MCMessages
  Parts <- MCParts
  Quantity <- MCQuantity
  Snake <- MCSnake
  GenericFields <- MCGenericFields
  MappedPaths <- NoPaths
  PatchPaths <- NoPaths
  MaxGenerations = 2
  TrueTypes <- MCTrueTypes
INVARIANTS
  NoFalseAlarm
