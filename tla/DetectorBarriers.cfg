CONSTANTS
  ThreadCount = 3
  ConfiguredThreads = 3
  ThreadsPerSubgroup = 1
  SubgroupCount = 2
  SubgroupCapacities = {1, 2}
  ShadowCapacity = 2
  Ranges <- BothOrBeyond
  Kinds = {"store"}
  OwnerModulus = 2
  EpochModulus = 4
  GenerationModulus = 4
  MaxBarriers = 2
  MaxLaunch = 2
SPECIFICATION FairSpec
INVARIANTS EpochsInStep ReportsAreRaces RacyCellReported DivergenceTold
PROPERTIES EachLaunchDetects AllLeave
