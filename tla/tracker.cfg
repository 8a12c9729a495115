SPECIFICATION Spec
CONSTANTS
  p1 = p1
  p2 = p2
  p3 = p3
  r1 = r1
  r2 = r2
  h1 = h1
  h2 = h2
  None = None
  InfoHash = {h1, h2}
  Allowed = {h1}
  PeerID = {p1, p2, p3}
  Handler = {r1, r2}
  peerTTL = 1
  maxPeersPerAnnounce = 1
  MaxTime = 3
INVARIANTS
  Inv
  NothingStale
  HeardIsListed
PROPERTIES
  AnswersFull
  DroppedForCause
CHECK_DEADLOCK FALSE
SYMMETRY Alike
