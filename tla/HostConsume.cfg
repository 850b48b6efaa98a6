CONSTANTS
  l1 = l1
  l2 = l2
  Lanes = {l1, l2}
  Capacity = 2
  GenerationModulus = 4
  Kinds = {"context"}
  MaxLaunches = 3
  MaxEmits = 3
  ReadsBetween = TRUE
  LaunchesRefs = TRUE
  HipFails = TRUE
SPECIFICATION Spec
SYMMETRY LaneSymmetry
INVARIANTS NoDiagnosticLost ReportIsWhole FreshGenerations
PROPERTIES AbortsForUnread
