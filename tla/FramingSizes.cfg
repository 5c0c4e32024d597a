\* A TCP and a QUIC flow; reads on both sides of every limit.  The name of the
\* destination has 7 bytes, which leaves room for 1379.
SPECIFICATION Spec
CONSTANTS
  t = t
  q = q
  Flows = {t, q}
  Kind <- MCKind
  DataShards = 2
  DestLen = 7
  ReadSizes = {1, 1379, 1380, 2800}
  MaxReads = 3
INVARIANTS TypeOK WholeOrNothing
CHECK_DEADLOCK FALSE
