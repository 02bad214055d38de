\* Two callers, two servers, two subnets, two groups, one address, one fault.
CONSTANTS
  Callers = {c1, c2}
  Servers = {s1, s2}
  Subnets = {n1, n2}
  Groups = {g1, g2}
  Addresses = {a1}
  None = None
  MaxFaults = 1
SYMMETRY Symmetry
SPECIFICATION Spec
INVARIANTS
  TypeOK
  ReturnedServerWired
  UpdatesAtomic
  LeakExplained
