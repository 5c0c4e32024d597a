\* Two peers, the link to one of which breaks.
SPECIFICATION FairSpec
CONSTANTS
  a = a
  b = b
  c = c
  Nodes = {a, b, c}
  Self = a
  Peers = {b, c}
  ProbeSpace = 3
  StaleAge = 1
  Interval = 1
  MaxTrip = 0
  Micros = 1
PROPERTY ReroutesOnDegradation
