CONSTANTS
  l0 = l0
  l1 = l1
  l2 = l2
  Address = {flag, counter}
  Subgroup = {0, 1, 2}
  SubgroupCapacity = 3
  MaxEpoch = 1
  MaxLaunch = 2
  Lane = {l0, l1, l2}
  SubgroupOf <- OneLaneEach
  Storers = {l1}
  Updaters = {l0, l1}
  Acquirers = {l2}
  NullAddress = NullAddress
  CacheCapacity = 1
  IndexOf <- Colliding
  MaskBits = 2
  CacheAttempts = 2
SPECIFICATION Spec
SYMMETRY Symmetry
INVARIANTS TokensBacked SlotsOwned MaskBacked
PROPERTIES OpenSlotsKept AcquireComplete WaitFree
