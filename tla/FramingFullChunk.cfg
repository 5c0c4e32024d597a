\* A TCP flow.
SPECIFICATION Spec
CONSTANTS
  t = t
  q = q
  Flows = {t}
  Kind <- MCKind
  DataShards = 2
  DestLen = 7
  ReadSizes = {1, 1400}
  MaxReads = 2
INVARIANT RelaysWhatIsRead
CHECK_DEADLOCK FALSE
