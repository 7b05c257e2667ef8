SPECIFICATION Spec
CONSTANTS
  RawCrd <- MCRawCrd
  PropertyOrder <- MCPropertyOrder
  SeedCR <- MCSeedCR
  Changes <- MCChanges
  Shows <- MCShows
  WrongValues <- MCWrongValues
  Messages <- MCMessages
  Parts <- MCParts
  Quantity <- MCQuantity
  Snake <- MCSnake
  GenericFields <- MCGenericFields
  MappedPaths <- NoPaths
  PatchPaths <- NoPaths
  MaxGenerations = 3
  TrueTypes <- MCTrueTypes
INVARIANTS
  NoFalseAlarm
  FaultsAreReported
