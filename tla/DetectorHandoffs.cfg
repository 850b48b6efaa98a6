CONSTANTS
  s1 = s1
  s2 = s2
  Subgroups = {s1, s2}
  Cells = {"c"}
  Kinds = {"load", "store"}
  a1 = a1
  Addresses = {a1}
  LoadOrders = {"acquire"}
  StoreOrders = {"release", "relaxed"}
  RmwOrders = {}
  CasOrders = {}
  FenceOrders = {"release"}
  Attempts = 2
  EpochModulus = 4
  MaxEpoch = 1
  ReleaseLast = TRUE
  FencesPaired = TRUE
  Transitive = TRUE
SPECIFICATION Spec
SYMMETRY Sym
INVARIANTS DTypeOK ReportsAreRaces SuppressedWithEvidence
PROPERTIES KeepsPromise
