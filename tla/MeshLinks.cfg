\* Two peers; probe ids wrap after one and a half rounds.
SPECIFICATION FairSpec
CONSTANTS
  a = a
  b = b
  c = c
  Nodes = {a, b, c}
  Self = a
  Peers = {b, c}
  ProbeSpace = 3
  StaleAge = 2
  Interval = 2
  MaxTrip = 1
  Micros = 3
INVARIANTS TypeOK PongsMatch Symmetric WithinSamples ProbesAgeOut
PROPERTY PeersBecomeRoutable
