SPECIFICATION Spec
CONSTANTS
  blockSize = 3
  Word = 16
  MaxLength = 14
  MaxPieceLength = 16
  Bits = 4
  WordBytes = 2
  maxPeerMessageSize = 12
  HashBytes = 1
  ReservedBytes = 1
  PeerProtocol <- MCProtocol
  Message <- MCMessage
  MaxMessages = 2
  MaxFaults = 2
  NoiseByte = {0, 1, 5, 7, 9}
  MaxPieces = 6
  Words <- MCWords
  maxBencodingDepth = 4
  maxBencodedStringLength = 12
  MaxInt64 = 200
  Token <- MCToken
  TextStart <- MCTextStart
  MaxTokens = 4
  maxMetaInfoSize = 41
  MaxContent = 4
  IPv4 = {"4a", "4b"}
  IPv6 = {"6a"}
  IDBytes = 1
  PortValues = 100
  Second = 3
  maxResponseSize = 54
  MaxPeers = 2
  Texts <- MCTexts
  ParseDuration <- MCDuration
  ParseInfoHash <- MCHash
  MetaInfoAt <- MCMetaInfo
  TorrentsIn <- MCTorrents
  Environs <- MCEnvirons
  Flag <- MCFlag
  MaxFlags = 2
  AnyHash = {"a", "b", "c"}
INVARIANTS
  GeometryExact
  PeersUnderstood
  IdentityKept
  AnnouncesUnderstood
  ConfigurationSound
CHECK_DEADLOCK FALSE
