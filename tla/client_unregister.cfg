SPECIFICATION Spec
CONSTANTS
  t1 = t1
  h1 = h1
  s1 = s1
  s2 = s2
  u1 = u1
  c1 = c1
  None = None
  InfoHash = {h1}
  Remover = {u1}
  RemoveOf <- OneRemoval
  Torrent = {t1}
  HashOf <- OneTorrent
  Starter = {s1}
  StartOf <- OneStart
  Conn = {c1}
  WantOf <- OneConn
INVARIANTS
  UnregisteredStops
CHECK_DEADLOCK FALSE
