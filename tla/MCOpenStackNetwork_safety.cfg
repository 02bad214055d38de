\* Two callers, two networks, one subnet, one fault; no symmetry, for liveness.
CONSTANTS
  Callers = {c1, c2}
  Networks = {n1, n2}
  Subnets = {s1}
  MaxFaults = 1
  None = None
SPECIFICATION Spec
INVARIANTS
  TypeOK
  KnownNetworkRouted
  NothingLeftBehind
  KnownSubnetRouted
PROPERTY DeletionCompletes
CHECK_DEADLOCK FALSE
