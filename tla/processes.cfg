SPECIFICATION AllSpec
CONSTANTS
  t1 = t1
  h1 = h1
  s1 = s1
  s2 = s2
  u1 = u1
  c1 = c1
  None = None
  InfoHash = {h1}
  Remover = {u1}
  RemoveOf <- OneRemoval
  Torrent = {t1}
  HashOf <- OneTorrent
  Starter = {s1, s2}
  StartOf <- TwoStarts
  Conn = {c1}
  WantOf <- OneConn
  Side = {A, B}
  Slots = 2
  BulkTorrents = {k1, k2, k3}
  Creator = {p1, p2, p3}
INVARIANTS
  Inv
  OneConnection
  OrderlyExit
  AnswersExact
PROPERTIES
  CreatedOnce
  NobodyWaitsForEver
CHECK_DEADLOCK FALSE
