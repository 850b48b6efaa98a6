CONSTANTS
  s1 = s1
  s2 = s2
  s3 = s3
  Subgroups = {s1, s2, s3}
  Cells = {"c"}
  Kinds = {"store"}
  a1 = a1
  Addresses = {a1}
  LoadOrders = {}
  StoreOrders = {}
  RmwOrders = {"acq_rel"}
  CasOrders = {}
  FenceOrders = {}
  Attempts = 2
  EpochModulus = 4
  MaxEpoch = 0
  ReleaseLast = FALSE
  FencesPaired = FALSE
  Transitive = TRUE
SPECIFICATION Spec
SYMMETRY Sym
INVARIANTS ReportsAreRaces
