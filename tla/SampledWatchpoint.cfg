CONSTANTS
  s1 = s1
  s2 = s2
  Subgroup = {s1, s2}
  Contexts = {"reporting", "publish_only"}
  Accesses <- SomeAccesses
  Kinds = {"store"}
  Granule = 4
  MaxStart = 3
  MaxCount = 2
  Capacity = 4
  SlotOf <- SomeSlots
  ProbeCount = 0
  EpochModulus = 4
  GenerationModulus = 4
  MaxEpoch = 1
  MaxLaunch = 2
SPECIFICATION Spec
SYMMETRY Sym
INVARIANTS STypeOK ConflictsTold ReportsAreRaces RangeTiled
