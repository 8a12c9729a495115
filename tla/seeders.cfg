SPECIFICATION SSpec
CONSTANTS
  p1 = p1
  p2 = p2
  idA = idA
  idB = idB
  None = None
  Peer = {p1, p2}
  PeerID = {idA, idB}
  IdOf <- Two
  Leaving = {p1, p2}
  Incoming = {}
  Info <- TwoPieces
  blockSize = 2
  Word = 16
  maxPeers = 2
  maxPendingPerPeer = 3
  peerWriteQueueSize = 8
  Kinds = {"Unchoke", "Bitfield", "Piece"}
  BadData = {FALSE}
  DiskFaults = FALSE
  MaxRuns = 1
PROPERTIES
  RequestsResolve
  CompletesUndisturbed
CHECK_DEADLOCK FALSE
