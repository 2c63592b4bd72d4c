SPECIFICATION Spec
CONSTANTS
  Rx = rx
  Senders = {s1}
  Sockets = {0, 1}
  Peers <- MCPeers
  MaxInbox = 1
  None = None
  TaskHosts = {1, 2}
  TaskPorts <- MCPorts
  UdpPeers = {a, b}
  MaxChain = 2
  MSS = 2
  MaxSize = 5
  Unset = Unset
  Uris = {u1, u2}
  Pcbs = {p1, p2}
  MaxListed = 2
  NoUri = NoUri
  Missed = Missed
INVARIANTS
  TypeOK
  WholeDestination
  StaleOnlyWhileClosing
  RepliesToSender
  SentInOrder
  OpenIsListed
  WalkSafe
PROPERTY DatagramsTaken
CHECK_DEADLOCK FALSE
