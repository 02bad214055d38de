\* Two callers, two networks, one subnet, two faults; no symmetry, for liveness.
CONSTANTS
  Callers = {c1, c2}
  Vpcs = {v1, v2}
  Subnets = {s1}
  MaxFaults = 2
  None = None
SPECIFICATION Spec
INVARIANTS
  Ownership
  KnownNetworkComplete
  FailedCreateLeavesNothing
  OrphanGatewayExplained
  KnownSubnetRouted
PROPERTIES
  ImplementsLifecycle
  DeletionCompletes
CHECK_DEADLOCK FALSE
