\* Four nodes, every symmetric matrix, an update anywhere in the call.  The
\* nodes other than a are alike, so one destination stands for the three.
SPECIFICATION Spec
CONSTANTS
  a = a
  b = b
  c = c
  d = d
  NoNode = NoNode
  Nodes = {a, b, c, d}
  LocalNode = a
  Rtts = {0, 2}
  Dests = {a, d}
  Matrices <- SymmetricMatrices
  MaxCost = 3
  TopN = 2
  MaxUpdates = 1
INVARIANTS TypeOK NextHopIsShortest TotalMatchesPath TopPathsRanked
CHECK_DEADLOCK FALSE
PROPERTY Returns
