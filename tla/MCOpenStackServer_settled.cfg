\* One caller and no fault.
CONSTANTS
  Callers = {c1}
  Keys = {k1}
  Servers = {s1}
  Flavors = {f1, f2}
  Addresses = {}
  MaxFaults = 0
  None = None
SPECIFICATION Spec
INVARIANT ResizeSettled
CHECK_DEADLOCK FALSE
