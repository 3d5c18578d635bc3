SPECIFICATION Spec
CONSTANTS
  Deployments <- MCDeployments
  Pushers = {p1, p2}
  None = None
  MaxPushes = 3
  MaxFaults = 1
  MaxChanges = 1
SYMMETRY Consumers
INVARIANTS
  CachedIsStored
  CacheBounded
CHECK_DEADLOCK FALSE
