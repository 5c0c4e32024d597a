SPECIFICATION FairSpec
CONSTANTS
  a = a
  b = b
  c = c
  x = x
  y = y
  z = z
  NoPeer = NoPeer
  Configs <- MCConfigs
  Peers = {b, c}
  Addrs = {x, y, z}
  Self = a
  DefaultDest = b
  Frames <- MCFrames
  DataShards = 2
  InboundCap = 1
  LocalCap = 2
  ClientCap = 1
  MaxPayloads = 3
INVARIANTS TypeOK PeersComplete InOrder NothingMissing FecEverywhere
PROPERTIES Drains FlushesWhenQuiet
CHECK_DEADLOCK FALSE
