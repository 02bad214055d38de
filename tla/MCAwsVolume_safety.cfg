\* Two callers, two servers, two volumes, one fault; the options select all four types, and reach
\* the gap of gp2 and the excess of io1.
CONSTANTS
  Callers = {c1, c2}
  Volumes = {v1, v2}
  Servers = {s1, s2}
  Sizes = {310, 358, 500}
  IOPS = {249}
  Rates = {135, 300, 1049}
  MaxFaults = 1
  None = None
SYMMETRY Symmetry
SPECIFICATION Spec
INVARIANTS
  VolumeLeakExplained
  AttachmentStays
  RateKeptOutsideGaps
CHECK_DEADLOCK FALSE
