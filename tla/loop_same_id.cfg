SPECIFICATION Spec
CONSTANTS
  p1 = p1
  p2 = p2
  idA = idA
  idB = idB
  None = None
  Peer = {p1, p2}
  PeerID = {idA}
  IdOf <- OneId
  Incoming = {p2}
  Info <- TwoPieces
  blockSize = 2
  Word = 16
  maxPeers = 2
  maxPendingPerPeer = 2
  peerWriteQueueSize = 1
  Kinds = {"Choke", "Unchoke", "Have", "Piece", "Interested", "Request"}
  BadData = {FALSE}
  DiskFaults = FALSE
  MaxRuns = 2
INVARIANTS
  PendingHasReader
  NoLeakedConnection
  ActiveHasReader
  InterestedUnchoked
PROPERTIES
  RequestKept
CHECK_DEADLOCK FALSE
VIEW View
