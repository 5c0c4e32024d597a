SPECIFICATION Spec
CONSTANTS
  DataShards = 2
  ParityShards = 1
  IdSpace = 3
  MaxAge = 1
  FlushLag = 1
  MaxTransit = 1
  Downtime = 3
  MaxRestarts = 1
  MaxDups = 0
  MaxPayloads = 4
  LastSubmit = 3
  Horizon = 3
INVARIANTS
  TypeOK
  BlocksDoNotMix
  IInv
  RecoversUpToParity
PROPERTIES
  WholeBlocks
  RefinesChannel
