\* One caller and no fault are enough to meet the disagreement.
CONSTANTS
  Callers = {c1}
  Networks = {n1}
  Subnets = {s1}
  MaxFaults = 0
  None = None
SPECIFICATION Spec
INVARIANT DeletedSubnetsGo
CHECK_DEADLOCK FALSE
