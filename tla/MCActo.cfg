CONSTANTS
  size = size
  port = port
  mode = mode
  grow = grow
  shrink = shrink
  zero = zero
  low = low
  flip = flip
  flop = flop
  NoInfo = NoInfo
  Paths = {size, port, mode}
  CasesOf <- MCCasesOf
  Primitive = {low, flip}
  OnK8s = {low, shrink}
  ChunkSize = 2
  NumWorkers = 2
  MaxStarts = 2
SPECIFICATION FairSpec
INVARIANTS
  PlanIsPartition
  SummaryAddsUp
  ContextIsComplete
PROPERTIES
  ThreadsAreOneCampaign
  TestingEnds
