\* More TCP connections than there are TCP flow ids.
SPECIFICATION Spec
CONSTANTS
  A = A
  B = B
  a1 = a1
  a2 = a2
  a3 = a3
  b1 = b1
  b2 = b2
  b3 = b3
  Nodes = {A, B}
  Clients = {a2, a3, b1}
  Home <- MCHome
  Kind <- MCKind
  NoClient = NoClient
  Boundary = 2
  FlowSpace = 4
  Capacity = 1
  MaxChunks <- MCMaxChunks
INVARIANT RightClient
CHECK_DEADLOCK FALSE
