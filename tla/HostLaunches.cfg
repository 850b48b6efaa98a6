CONSTANTS
  l1 = l1
  l2 = l2
  Lanes = {l1, l2}
  Capacity = 2
  GenerationModulus = 4
  Kinds = {"context"}
  MaxLaunches = 2
  MaxEmits = 1
  ReadsBetween = FALSE
  LaunchesRefs = TRUE
  HipFails = FALSE
SPECIFICATION Spec
SYMMETRY LaneSymmetry
INVARIANTS NoDiagnosticLost
