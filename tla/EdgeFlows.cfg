\* Two TCP connections at one node, a TCP connection and a QUIC stream at the other.
SPECIFICATION FairSpec
CONSTANTS
  A = A
  B = B
  a1 = a1
  a2 = a2
  a3 = a3
  b1 = b1
  b2 = b2
  b3 = b3
  Nodes = {A, B}
  Clients = {a2, a3, b2, b1}
  Home <- MCHome
  Kind <- MCKind
  NoClient = NoClient
  Boundary = 3
  FlowSpace = 4
  Capacity = 1
  MaxChunks <- MCMaxChunks
INVARIANTS TypeOK RightClient ConnectedIsRegistered
PROPERTIES AcceptedIsWritten FlowsEnd
CHECK_DEADLOCK FALSE
