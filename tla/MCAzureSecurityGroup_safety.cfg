\* Three callers, two groups, three rules.
CONSTANTS
  Callers = {c1, c2, c3}
  Groups = {g1, g2}
  Rules = {r1, r2, r3}
  Absent = Absent
  None = None
SYMMETRY Symmetry
SPECIFICATION Spec
INVARIANTS
  ConsistentUnlessRaced
PROPERTY OnlyOverwritesBreakAtomicity
