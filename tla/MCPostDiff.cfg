CONSTANTS
  seed = seed
  crA = crA
  crB = crB
  a0 = a0
  a1 = a1
  a2 = a2
  b0 = b0
  b1 = b1
  b2 = b2
  b3 = b3
  NoInput = NoInput
  Workers = {w1, w2}
  Steps = {a0, a1, a2, b0, b1, b2, b3}
  Inputs = {seed, crA, crB}
  InputOf <- MCInputOf
  SeedSteps = {a0, b0}
  Rejected = {b2}
  Invalid = {b2, b3}
  HealthAlarmed = {}
  LogInvalid = {}
  IgnoreFields <- MCIgnoreFields
  Diverged = {b1}
  Unsteady = {a2}
  RefusedAgain = {crB}
  SeedDigest = seed
  StateOf <- MCStateOf
  FreshState <- MCFreshState
  SystemOf <- MCSystemOf
SPECIFICATION FairSpec
INVARIANTS
  EveryInputOnce
  RunsOnCleanCluster
  ReportsComplete
  VerdictsAreReal
  LearnsTheNoiseOnly
PROPERTY PostDiffEnds
