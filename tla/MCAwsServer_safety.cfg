\* Two callers, two calls of Create, two instances, one address, one fault.
CONSTANTS
  Callers = {c1, c2}
  Keys = {k1, k2}
  Instances = {i1, i2}
  Addresses = {a1}
  MaxFaults = 1
  None = None
SYMMETRY Symmetry
VIEW View
SPECIFICATION Spec
INVARIANTS
  TypeOK
  KeyPairsTemporary
  LeakExplained
  ReturnedServerComplete
  DeletedServerEnds
CHECK_DEADLOCK FALSE
