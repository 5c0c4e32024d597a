SPECIFICATION FairSpec
CONSTANTS
  DataShards = 3
  ParityShards = 1
  IdSpace = 3
  MaxAge = 1
  FlushLag = 1
  MaxTransit = 0
  Downtime = 3
  MaxRestarts = 0
  MaxDups = 1
  MaxPayloads = 2
  LastSubmit = 1
  Horizon = 3
INVARIANTS
  DeliveredOnce
  LedgerInv
  RecoversUpToParity
PROPERTIES
  EveryPayloadSettles
  PendingIsTemporary
