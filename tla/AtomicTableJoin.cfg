SPECIFICATION Spec
CONSTANTS
  t1 = t1
  t2 = t2
  t3 = t3
  flag = flag
  Thread <- ThreeLanes
  SubgroupOf <- ThreeLanesSubgroup
  Address = {flag}
  NullAddress = NullAddress
  SubgroupCapacity = 2
  Capacity = 2
  HashStart <- Colliding
  ClaimAttempts = 2
  AcquireRetries = {1}
  LaggingReleases = TRUE
  MaxEpoch = 1
  MaxLaunch = 1
SYMMETRY LaneSymmetry
INVARIANTS NewestImported
