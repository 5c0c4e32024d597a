\* Four nodes with matrices as a prober fills them, which stay as they are.
SPECIFICATION Spec
CONSTANTS
  a = a
  b = b
  c = c
  d = d
  NoNode = NoNode
  Nodes = {a, b, c, d}
  LocalNode = a
  Rtts = {1, 2}
  Dests = {d}
  Matrices <- OwnLinks
  MaxCost = 9
  TopN = 2
  MaxUpdates = 0
INVARIANT PathsAreDiverse
CHECK_DEADLOCK FALSE
