SPECIFICATION Spec
CONSTANTS
  t1 = t1
  t2 = t2
  t3 = t3
  flag = flag
  Thread <- ThreeLanes
  SubgroupOf <- ThreeLanesSubgroup
  Address = {flag}
  NullAddress = NullAddress
  SubgroupCapacity = 2
  Capacity = 2
  HashStart <- Colliding
  ClaimAttempts = 2
  AcquireRetries = {2}
  LaggingReleases = FALSE
  MaxEpoch = 1
  MaxLaunch = 2
SYMMETRY LaneSymmetry
INVARIANTS TypeOK ClaimsOwned ChainUnbroken NoReleaseOverlooked FullMeansNoRoom NewestImported NeverStuck
PROPERTIES ImplementsPromise WaitFree
