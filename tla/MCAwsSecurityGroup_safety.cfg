\* Two callers on an interface of a running server and one that Create makes, two groups, and
\* blocks of addresses of both families, one of each with the mask that isV6 takes for IP v6.
\* One call to EC2 fails or loses its answer.  Bound says which parts of the search are left out.
CONSTANTS
  Callers = {c1, c2}
  Interfaces = {n0, n1}
  Launched = {n0}
  Servers = {s1}
  Groups = {g0, g1}
  Default = g0
  Ports = {p1}
  MaxFaults = 1
  None = None
  Cidrs = {any, lan, six, wide}
  AnyCidr = any
  V6 = {six}
  Sixteen = {six, wide}
  NoCidr = NoCidr
SYMMETRY Symmetry
VIEW View
SPECIFICATION Spec
CONSTRAINT Bound
INVARIANTS
  TypeOK
  LeaksExplained
  ClearedExplained
  GroupAsTold
  OnlyOpenRulesStray
  RemovedOrSwapped
