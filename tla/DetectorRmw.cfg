CONSTANTS
  s1 = s1
  s2 = s2
  Subgroups = {s1, s2}
  Cells = {"c"}
  Kinds = {"store"}
  a1 = a1
  a2 = a2
  Addresses = {a1, a2}
  LoadOrders = {}
  StoreOrders = {}
  RmwOrders = {"acq_rel"}
  CasOrders <- SuccessAndFailure
  FenceOrders = {"acquire"}
  Attempts = 2
  EpochModulus = 4
  MaxEpoch = 0
  ReleaseLast = TRUE
  FencesPaired = TRUE
  Transitive = TRUE
SPECIFICATION Spec
SYMMETRY Sym
INVARIANTS ReportsAreRaces
