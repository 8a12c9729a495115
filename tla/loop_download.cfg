SPECIFICATION Spec
CONSTANTS
  p1 = p1
  p2 = p2
  idA = idA
  idB = idB
  None = None
  Peer = {p1, p2}
  PeerID = {idA, idB}
  IdOf <- TwoIds
  Incoming = {}
  Info <- OnePiece
  blockSize = 2
  Word = 16
  maxPeers = 2
  maxPendingPerPeer = 2
  peerWriteQueueSize = 1
  Kinds = {"Unchoke", "Bitfield", "Piece"}
  BadData = {TRUE, FALSE}
  DiskFaults = TRUE
  MaxRuns = 1
INVARIANTS
  Inv
  CompleteVerified
  StoreBlockSafe
PROPERTIES
  ProgressKept
  LedgerSpec
CHECK_DEADLOCK FALSE
SYMMETRY SwapTwo
VIEW View
