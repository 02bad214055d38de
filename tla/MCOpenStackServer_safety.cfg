\* Two callers, two calls of Create, two servers, two flavors, one address, one fault.
CONSTANTS
  Callers = {c1, c2}
  Keys = {k1, k2}
  Servers = {s1, s2}
  Flavors = {f1, f2}
  Addresses = {a1}
  MaxFaults = 1
  None = None
SYMMETRY Symmetry
VIEW View
SPECIFICATION Spec
INVARIANTS
  TypeOK
  KeyPairsTemporary
  PendingResizeExplained
PROPERTIES
  ResizedAsAsked
  AddressKept
CHECK_DEADLOCK FALSE
