SPECIFICATION FairSpec
CONSTANTS
  w1 = w1
  w2 = w2
  Info <- ShortLast
  blockSize = 2
  Word = 16
  Worker = {w1, w2}
  MaxGeneration = 2
INVARIANTS
  Inv
  NoRefetch
PROPERTIES
  StoreSpec
  Settles
CHECK_DEADLOCK FALSE
