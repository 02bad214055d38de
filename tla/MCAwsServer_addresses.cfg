\* Two callers, two servers, one address and no fault.
CONSTANTS
  Callers = {c1, c2}
  Keys = {k1, k2}
  Instances = {i1, i2}
  Addresses = {a1}
  MaxFaults = 0
  None = None
SYMMETRY Symmetry
SPECIFICATION Spec
INVARIANT DeleteSparesOthers
CHECK_DEADLOCK FALSE
