\* Every address of eight bits with every prefix.
CONSTANTS
  Limit = 256
  Lengths = {1, 2, 4, 8, 16, 32, 64, 128, 256}
SPECIFICATION RangeSpec
INVARIANTS
  RangeIsHosts
PROPERTY Terminates
CHECK_DEADLOCK FALSE
