--------------------------- MODULE FormatsProofs ---------------------------
(***************************************************************************)
(* PieceGeometry for every content length, every piece length of the wire, *)
(* every block size and every width of the wire's integers; and the        *)
(* tracker's configuration for every environment and command line.         *)
(***************************************************************************)
EXTENDS Geometries, Configurations, FiniteSetTheorems, WellFoundedInduction, TLAPS

-----------------------------------------------------------------------------
(* The arithmetic of pieces and blocks.                                    *)

\* What division by d says about a: a lies in the d numbers from (a \div d) * d on.
LEMMA Quotient ==
  ASSUME NEW a \in Nat, NEW d \in Nat \ {0}
  PROVE  /\ a \div d \in Nat
         /\ (a \div d) * d <= a
         /\ a < (a \div d) * d + d
OBVIOUS

\* Multiplication by a natural number keeps the order.
LEMMA Monotone ==
  ASSUME NEW i \in Nat, NEW j \in Nat, NEW d \in Nat, i <= j
  PROVE  i * d <= j * d
OBVIOUS

\* Only one multiple of d begins the d numbers in which a lies.
LEMMA OneQuotient ==
  ASSUME NEW a \in Nat, NEW d \in Nat \ {0}, NEW i \in Nat, i * d <= a, a < i * d + d
  PROVE  i = a \div d
OBVIOUS

\* A quotient grows with its dividend.
LEMMA QuotientGrows ==
  ASSUME NEW a \in Nat, NEW c \in Nat, NEW d \in Nat \ {0}, a <= c
  PROVE  a \div d <= c \div d
OBVIOUS

\* A multiple of d leaves no remainder.
LEMMA Multiple ==
  ASSUME NEW k \in Nat, NEW d \in Nat \ {0}
  PROVE  k * d \in Nat /\ (k * d) % d = 0
OBVIOUS

\* A number that fits into a word is stored as it is.
LEMMA Fits ==
  ASSUME NEW a \in 0 .. Word - 1
  PROVE  U32(a) = a
BY WordAssumption DEF U32

\* The metainfo that NewPieceSet accepts, with any lengths.
AcceptedInfo == { info \in [Length : Int, PieceLength : Int] : ValidInfo(info) }

\* A piece lies inside the content, is not empty and is no longer than a piece.
LEMMA PieceInside ==
  ASSUME NEW info \in AcceptedInfo, NEW i \in 0 .. Count(info) - 1
  PROVE  /\ i \in Nat
         /\ PieceOffset(info, i) \in Nat
         /\ PieceLength(info, i) \in 1 .. info.PieceLength
         /\ PieceLength(info, i) \in 1 .. Word - 1
         /\ PieceOffset(info, i) + PieceLength(info, i) <= info.Length
         /\ \/ PieceLength(info, i) = info.PieceLength
            \/ PieceOffset(info, i) + PieceLength(info, i) = info.Length
<1> DEFINE L == info.Length
           P == info.PieceLength
<1>1. L \in Nat /\ P \in Nat \ {0} /\ P <= Word - 1
  BY DEF AcceptedInfo, ValidInfo
<1>2. L > 0 /\ i \in 0 .. (L - 1) \div P
  BY <1>1 DEF Count
<1>3. (L - 1) \div P \in Nat /\ ((L - 1) \div P) * P <= L - 1
  BY <1>1, <1>2, Quotient
<1>4. i * P <= ((L - 1) \div P) * P
  BY <1>1, <1>2, <1>3, Monotone
<1>5. i * P \in Nat /\ i * P <= L - 1
  BY <1>1, <1>2, <1>3, <1>4
<1>6. CASE L - i * P < P
  <2>1. PieceLength(info, i) = U32(L - i * P)
    BY <1>6 DEF PieceLength, PieceOffset
  <2>2. L - i * P \in 0 .. Word - 1
    BY <1>1, <1>5, <1>6, WordAssumption
  <2>3. PieceLength(info, i) = L - i * P
    BY <2>1, <2>2, Fits
  <2> QED BY <1>1, <1>2, <1>5, <1>6, <2>2, <2>3 DEF PieceOffset
<1>7. CASE L - i * P >= P
  <2>1. PieceLength(info, i) = U32(P)
    BY <1>1, <1>5, <1>7 DEF PieceLength, PieceOffset
  <2>2. PieceLength(info, i) = P
    BY <1>1, <2>1, Fits
  <2> QED BY <1>1, <1>2, <1>5, <1>7, <2>2 DEF PieceOffset
<1> QED BY <1>1, <1>5, <1>6, <1>7

\* The offsets of the blocks of a piece are the multiples of blockSize inside it.
LEMMA BeginsInside ==
  ASSUME NEW info \in AcceptedInfo, NEW i \in 0 .. Count(info) - 1
  PROVE  Begins(info, i) =
           { b \in 0 .. PieceLength(info, i) - 1 : b % blockSize = 0 }
<1> DEFINE n == PieceLength(info, i)
           B == blockSize
<1>1. n \in 1 .. Word - 1 /\ B \in Nat \ {0} /\ Word \in Nat \ {0}
  BY PieceInside, blockSizeAssumption, WordAssumption
<1> HIDE DEF n
<1>2. blockCount(n) = (n - 1) \div B + 1
  BY <1>1, Fits DEF blockCount
<1>3. (n - 1) \div B \in Nat /\ ((n - 1) \div B) * B <= n - 1
  BY <1>1, Quotient
<1>4. ASSUME NEW k \in 0 .. blockCount(n) - 1
      PROVE  /\ U32(k * B) = k * B
             /\ k * B \in 0 .. n - 1
             /\ (k * B) % B = 0
  <2>1. k \in Nat /\ k <= (n - 1) \div B
    BY <1>2, <1>3
  <2>2. k * B <= ((n - 1) \div B) * B
    BY <1>1, <1>3, <2>1, Monotone
  <2>3. k * B \in 0 .. n - 1
    BY <1>1, <1>3, <2>1, <2>2
  <2>4. (k * B) % B = 0
    BY <1>1, <2>1, Multiple
  <2>5. k * B \in 0 .. Word - 1
    BY <1>1, <2>3
  <2> QED BY <2>3, <2>4, <2>5, Fits
<1>5. ASSUME NEW b \in 0 .. n - 1, b % B = 0
      PROVE  \E k \in 0 .. blockCount(n) - 1 : b = U32(k * B)
  <2>1. b \div B \in Nat /\ b \div B <= (n - 1) \div B
    BY <1>1, Quotient, QuotientGrows
  <2>2. b = (b \div B) * B
    BY <1>1, <1>5
  <2>3. b \div B \in 0 .. blockCount(n) - 1
    BY <1>2, <1>3, <2>1
  <2> QED BY <1>4, <2>2, <2>3
<1> QED BY <1>4, <1>5 DEF Begins, n

\* A block lies inside its piece, is not empty and is no longer than a block.
LEMMA BlockInside ==
  ASSUME NEW n \in Nat, NEW b \in 0 .. n - 1
  PROVE  /\ requestLength(n, b) \in 1 .. blockSize
         /\ b + requestLength(n, b) <= n
         /\ requestLength(n, b) = blockSize \/ b + requestLength(n, b) = n
BY blockSizeAssumption DEF requestLength

\* The block of piece i at offset b, as blockRequest builds it.
BlockAt(info, i, b) ==
  [PieceIndex |-> i, Begin |-> b, Length |-> requestLength(PieceLength(info, i), b)]

\* The bytes of the content that a block request asks for.
Asks(info, b) == FirstByte(info, b) .. FirstByte(info, b) + b.Length - 1

\* A byte lies in the block of its own piece at its own multiple of blockSize.
LEMMA ByteHasBlock ==
  ASSUME NEW info \in AcceptedInfo, NEW k \in 0 .. info.Length - 1
  PROVE  LET i == k \div info.PieceLength
             o == k - PieceOffset(info, i)
         IN  /\ BlockAt(info, i, (o \div blockSize) * blockSize) \in BlockRequests(info)
             /\ k \in Asks(info, BlockAt(info, i, (o \div blockSize) * blockSize))
<1> DEFINE L == info.Length
           P == info.PieceLength
           B == blockSize
           i == k \div P
           o == k - PieceOffset(info, i)
           n == PieceLength(info, i)
           b == (o \div B) * B
<1>1. L \in Nat /\ P \in Nat \ {0} /\ B \in Nat \ {0} /\ k \in Nat
  BY blockSizeAssumption DEF AcceptedInfo, ValidInfo
<1>2. i \in Nat /\ i * P <= k /\ k < i * P + P
  BY <1>1, Quotient
<1>3. i \in 0 .. Count(info) - 1
  BY <1>1, <1>2, QuotientGrows DEF Count
<1>4. /\ n \in 1 .. Word - 1 /\ n \in Nat
      /\ n = P \/ i * P + n = L
  BY <1>3, PieceInside, WordAssumption DEF PieceOffset
<1>5. o = k - i * P /\ o \in 0 .. n - 1
  BY <1>1, <1>2, <1>4 DEF PieceOffset
<1> HIDE DEF n, o
<1>6. /\ o \div B \in Nat /\ b <= o /\ o < b + B
      /\ b \in Nat /\ b % B = 0
  <2>1. o \in Nat
    BY <1>4, <1>5
  <2>2. o \div B \in Nat /\ b <= o /\ o < b + B
    BY <1>1, <2>1, Quotient
  <2>3. b \in Nat /\ b % B = 0
    BY <1>1, <2>2, Multiple
  <2> QED BY <2>2, <2>3
<1>7. b \in 0 .. n - 1
  BY <1>4, <1>5, <1>6
<1>8. b \in Begins(info, i)
  BY <1>3, <1>6, <1>7, BeginsInside DEF n
<1>9. BlockAt(info, i, b) \in BlockRequests(info)
  BY <1>3, <1>8 DEF BlockAt, BlockRequests
<1>10. requestLength(n, b) \in 1 .. B /\ (requestLength(n, b) = B \/ b + requestLength(n, b) = n)
  BY <1>4, <1>7, BlockInside
<1>11. k \in i * P + b .. i * P + b + requestLength(n, b) - 1
  BY <1>1, <1>2, <1>4, <1>5, <1>6, <1>10
<1>12. k \in Asks(info, BlockAt(info, i, b))
  BY <1>11 DEF Asks, FirstByte, BlockAt, PieceOffset, n
<1> QED BY <1>9, <1>12 DEF o

\* Every request has a piece, an offset of it and the length that is left there.
LEMMA RequestOfPiece ==
  ASSUME NEW info \in AcceptedInfo, NEW c \in BlockRequests(info)
  PROVE  \E i \in 0 .. Count(info) - 1 : \E b \in 0 .. PieceLength(info, i) - 1 :
           b % blockSize = 0 /\ c = BlockAt(info, i, b)
BY BeginsInside DEF BlockRequests, BlockAt

\* A byte lies in no other block.
LEMMA ByteHasOneBlock ==
  ASSUME NEW info \in AcceptedInfo, NEW k \in 0 .. info.Length - 1,
         NEW c \in BlockRequests(info), k \in Asks(info, c)
  PROVE  LET i == k \div info.PieceLength
             o == k - PieceOffset(info, i)
         IN  c = BlockAt(info, i, (o \div blockSize) * blockSize)
<1> DEFINE P == info.PieceLength
           B == blockSize
<1>1. P \in Nat \ {0} /\ B \in Nat \ {0} /\ k \in Nat
  BY blockSizeAssumption DEF AcceptedInfo, ValidInfo
<1>2. PICK i \in 0 .. Count(info) - 1 : \E b \in 0 .. PieceLength(info, i) - 1 :
        b % blockSize = 0 /\ c = BlockAt(info, i, b)
  BY RequestOfPiece
<1>3. PICK b \in 0 .. PieceLength(info, i) - 1 : b % B = 0 /\ c = BlockAt(info, i, b)
  BY <1>2
<1> DEFINE n == PieceLength(info, i)
           r == requestLength(n, b)
<1>4. i \in Nat /\ i * P \in Nat /\ n \in 1 .. P /\ n \in Nat /\ b \in Nat
  BY <1>1, PieceInside DEF PieceOffset
<1>5. r \in 1 .. B /\ b + r <= n
  BY <1>4, BlockInside
<1>6. k \in i * P + b .. i * P + b + r - 1
  BY <1>3 DEF Asks, FirstByte, BlockAt, PieceOffset
<1> HIDE DEF n, r
<1>7. i * P <= k /\ k < i * P + P
  BY <1>1, <1>4, <1>5, <1>6
<1>8. i = k \div P
  BY <1>1, <1>4, <1>7, OneQuotient
<1> DEFINE o == k - i * P
<1>9. o \in Nat /\ b <= o /\ o < b + B
  BY <1>1, <1>4, <1>5, <1>6, <1>7
<1>10. b \div B \in Nat /\ b = (b \div B) * B
  BY <1>1, <1>3, <1>4, Quotient
<1>11. b \div B = o \div B
  <2> HIDE DEF o
  <2> QED BY <1>1, <1>9, <1>10, OneQuotient, SMTT(30)
<1> QED BY <1>3, <1>8, <1>10, <1>11 DEF PieceOffset

(***************************************************************************)
(* For every content length and every piece length that NewPieceSet        *)
(* accepts, also the largest 32-bit one, and for every block size: the     *)
(* requests of the downloader cover each byte of the content exactly once  *)
(* and none lies outside the file, so no two blocks are written over each  *)
(* other and no byte is left out.                                          *)
(***************************************************************************)
THEOREM BlocksAlwaysTile == \A info \in AcceptedInfo : BlocksTile(info)
<1> SUFFICES ASSUME NEW info \in AcceptedInfo PROVE BlocksTile(info)
  OBVIOUS
<1>1. ASSUME NEW k \in 0 .. info.Length - 1
      PROVE  Cardinality({ b \in BlockRequests(info) :
                k \in FirstByte(info, b) .. FirstByte(info, b) + b.Length - 1 }) = 1
  <2> DEFINE i == k \div info.PieceLength
             o == k - PieceOffset(info, i)
             x == BlockAt(info, i, (o \div blockSize) * blockSize)
             S == { b \in BlockRequests(info) :
                      k \in FirstByte(info, b) .. FirstByte(info, b) + b.Length - 1 }
  <2>1. x \in BlockRequests(info) /\ k \in Asks(info, x)
    BY ByteHasBlock
  <2>2. \A c \in BlockRequests(info) : k \in Asks(info, c) => c = x
    BY ByteHasOneBlock
  <2> HIDE DEF x
  <2>3. S = {x}
    BY <2>1, <2>2 DEF Asks
  <2> QED BY <2>3, FS_Singleton
<1>2. ASSUME NEW c \in BlockRequests(info)
      PROVE  c.Length > 0 /\ FirstByte(info, c) + c.Length <= info.Length
  <2>1. PICK i \in 0 .. Count(info) - 1 : \E b \in 0 .. PieceLength(info, i) - 1 :
          c = BlockAt(info, i, b)
    BY RequestOfPiece
  <2>2. PICK b \in 0 .. PieceLength(info, i) - 1 : c = BlockAt(info, i, b)
    BY <2>1
  <2> DEFINE n == PieceLength(info, i)
             f == PieceOffset(info, i)
  <2>3. f \in Nat /\ n \in Nat /\ f + n <= info.Length /\ info.Length \in Int
    BY PieceInside, WordAssumption DEF AcceptedInfo
  <2>4. requestLength(n, b) \in 1 .. blockSize /\ b + requestLength(n, b) <= n
    BY <2>3, BlockInside
  <2>5. c.Length = requestLength(n, b) /\ FirstByte(info, c) = f + b
    BY <2>2 DEF BlockAt, FirstByte
  <2> HIDE DEF n, f
  <2> QED BY <2>3, <2>4, <2>5, blockSizeAssumption
<1> QED BY <1>1, <1>2 DEF BlocksTile

(***************************************************************************)
(* For every metainfo that NewPieceSet accepts, a downloader asks for      *)
(* exactly the blocks that the serving side's blockRequest accepts: no     *)
(* request of ours is refused as misaligned or outside, and a peer can     *)
(* have nothing that we would not ask for.                                 *)
(***************************************************************************)
THEOREM BlocksAlwaysServable == \A info \in AcceptedInfo : BlocksServable(info)
<1> SUFFICES ASSUME NEW info \in AcceptedInfo PROVE BlocksServable(info)
  OBVIOUS
<1>0. Count(info) \in Nat /\ Word \in Nat /\ blockSize \in Nat \ {0}
  BY Quotient, WordAssumption, blockSizeAssumption DEF AcceptedInfo, ValidInfo, Count
<1>1. ASSUME NEW c \in BlockRequests(info)
      PROVE  /\ <<c.PieceIndex, c.Begin>> \in (0 .. Count(info)) \X (0 .. Word - 1)
             /\ ValidBlockRequest(info, c.PieceIndex, c.Begin)
  <2>1. PICK i \in 0 .. Count(info) - 1 : \E b \in 0 .. PieceLength(info, i) - 1 :
          b % blockSize = 0 /\ c = BlockAt(info, i, b)
    BY RequestOfPiece
  <2>2. PICK b \in 0 .. PieceLength(info, i) - 1 : b % blockSize = 0 /\ c = BlockAt(info, i, b)
    BY <2>1
  <2>3. c.PieceIndex = i /\ c.Begin = b
    BY <2>2 DEF BlockAt
  <2>4. PieceLength(info, i) \in 1 .. Word - 1 /\ PieceLength(info, i) \in Nat
    BY <1>0, PieceInside
  <2>5. requestLength(PieceLength(info, i), b) # 0
    BY <1>0, <2>4, BlockInside
  <2>6. i \in 0 .. Count(info) /\ b \in 0 .. Word - 1
    BY <1>0, <2>4
  <2> QED BY <2>2, <2>3, <2>5, <2>6 DEF ValidBlockRequest
<1>2. ASSUME NEW i \in 0 .. Count(info), NEW b \in 0 .. Word - 1, ValidBlockRequest(info, i, b)
      PROVE  \E c \in BlockRequests(info) : <<i, b>> = <<c.PieceIndex, c.Begin>>
  <2>1. i \in 0 .. Count(info) - 1 /\ b % blockSize = 0
    BY <1>2 DEF ValidBlockRequest
  <2>2. b < PieceLength(info, i)
    <3>1. PieceLength(info, i) \in 1 .. Word - 1
      BY <2>1, PieceInside
    <3> QED BY <1>0, <1>2, <3>1 DEF ValidBlockRequest, requestLength
  <2>3. b \in Begins(info, i)
    <3>1. PieceLength(info, i) \in 1 .. Word - 1
      BY <2>1, PieceInside
    <3> QED BY <1>0, <2>1, <2>2, <3>1, BeginsInside
  <2>4. BlockAt(info, i, b) \in BlockRequests(info)
    BY <2>1, <2>3 DEF BlockAt, BlockRequests
  <2> QED BY <2>4 DEF BlockAt
<1> DEFINE T == { ib \in (0 .. Count(info)) \X (0 .. Word - 1) :
                    ValidBlockRequest(info, ib[1], ib[2]) }
           A == { <<c.PieceIndex, c.Begin>> : c \in BlockRequests(info) }
<1>3. A \subseteq T
  BY <1>1
<1>4. T \subseteq A
  BY <1>2
<1> QED BY <1>3, <1>4 DEF BlocksServable

\* A set of natural numbers that is not empty has a least element.  Taken for the
\* numbers at which a claim fails, this is induction.
LEMMA Least ==
  ASSUME NEW T \in SUBSET Nat, T # {}
  PROVE  \E x \in T : \A y \in T : x <= y
<1> DEFINE R == OpToRel(<, Nat)
<1>1. IsWellFoundedOn(R, Nat)
  BY NatLessThanWellFounded
<1>2. \A x, y \in Nat : <<y, x>> \in R <=> y < x
  BY DEF OpToRel
<1> HIDE DEF R
<1>3. PICK x \in T : \A y \in T : ~ (<<y, x>> \in R)
  BY <1>1, WFMin
<1>4. \A y \in T : ~ (y < x) /\ x \in Nat /\ y \in Nat
  BY <1>2, <1>3
<1> QED BY <1>4

\* The number of elements of an interval.
LEMMA IntervalCount ==
  ASSUME NEW a \in Int, NEW n \in Nat
  PROVE  IsFiniteSet(a .. a + n - 1) /\ Cardinality(a .. a + n - 1) = n
<1> DEFINE b == a + n - 1
<1>1. b \in Int
  OBVIOUS
<1>2. (a > b => n = 0) /\ (~(a > b) => b - a + 1 = n)
  OBVIOUS
<1> HIDE DEF b
<1>3. IsFiniteSet(a .. b) /\ Cardinality(a .. b) = IF a > b THEN 0 ELSE b - a + 1
  BY <1>1, FS_Interval, Zenon
<1>4. IsFiniteSet(a .. b) /\ Cardinality(a .. b) = n
  BY <1>2, <1>3, Zenon
<1> QED BY <1>4 DEF b

\* The bytes of a piece, by division, are those from its offset on, as many as it is long.
LEMMA BytesOfPiece ==
  ASSUME NEW info \in AcceptedInfo, NEW i \in 0 .. Count(info) - 1
  PROVE  LET S == { k \in 0 .. info.Length - 1 : k \div info.PieceLength = i }
         IN  IsFiniteSet(S) /\ Cardinality(S) = PieceLength(info, i)
<1> DEFINE L == info.Length
           P == info.PieceLength
           n == PieceLength(info, i)
           S == { k \in 0 .. L - 1 : k \div P = i }
<1>1. L \in Nat /\ P \in Nat \ {0}
  BY DEF AcceptedInfo, ValidInfo
<1>2. /\ i \in Nat /\ i * P \in Nat /\ n \in 1 .. P /\ i * P + n <= L
      /\ n = P \/ i * P + n = L
  BY PieceInside DEF PieceOffset
<1> HIDE DEF n
<1>3. ASSUME NEW k \in 0 .. L - 1 PROVE k \div P = i <=> k \in i * P .. i * P + n - 1
  <2>1. k \in Nat
    BY <1>1
  <2>2. k \div P \in Nat /\ (k \div P) * P <= k /\ k < (k \div P) * P + P
    BY <1>1, <2>1, Quotient
  <2>3. ASSUME k \div P = i PROVE k \in i * P .. i * P + n - 1
    BY <1>1, <1>2, <2>1, <2>2, <2>3
  <2>4. ASSUME k \in i * P .. i * P + n - 1 PROVE k \div P = i
    <3>1. i * P <= k /\ k < i * P + P
      BY <1>1, <1>2, <2>1, <2>4
    <3> QED BY <1>1, <1>2, <2>1, <3>1, OneQuotient
  <2> QED BY <2>3, <2>4
<1>4. S = i * P .. i * P + n - 1
  <2>1. i * P .. i * P + n - 1 \subseteq 0 .. L - 1
    BY <1>1, <1>2
  <2> QED BY <1>3, <2>1
<1>5. IsFiniteSet(S) /\ Cardinality(S) = n
  <2>1. i * P \in Int /\ n \in Nat
    BY <1>1, <1>2
  <2> HIDE DEF S
  <2> QED BY <1>4, <2>1, IntervalCount, Zenon
<1> QED BY <1>5 DEF n

\* The bytes of the first n pieces that lie in no complete piece.
LeftOf(info, complete, n) ==
  { k \in 0 .. info.Length - 1 : /\ k \div info.PieceLength \notin complete
                                 /\ k \div info.PieceLength < n }

\* One more piece adds nothing if it is complete, and its length if it is not.
LEMMA OnePieceMore ==
  ASSUME NEW info \in AcceptedInfo, NEW complete, NEW n \in 1 .. Count(info)
  PROVE  Cardinality(LeftOf(info, complete, n)) =
           Cardinality(LeftOf(info, complete, n - 1)) +
             (IF n - 1 \in complete THEN 0 ELSE PieceLength(info, n - 1))
<1> DEFINE L == info.Length
           P == info.PieceLength
           S == { k \in 0 .. L - 1 : k \div P = n - 1 }
           F == LeftOf(info, complete, n - 1)
<1>0. Count(info) \in Nat
  BY Quotient DEF AcceptedInfo, ValidInfo, Count
<1>1. L \in Nat /\ P \in Nat \ {0} /\ n \in Nat /\ n - 1 \in 0 .. Count(info) - 1
  BY <1>0 DEF AcceptedInfo, ValidInfo
<1>2. \A k \in 0 .. L - 1 : k \div P \in Nat
  BY <1>1, Quotient
<1>3. IsFiniteSet(F)
  <2>1. IsFiniteSet(0 .. L - 1)
    <3>1. 0 \in Int /\ L - 1 \in Int
      BY <1>1
    <3> QED BY <3>1, FS_Interval, Zenon
  <2>2. F \subseteq 0 .. L - 1
    BY DEF LeftOf
  <2> QED BY <2>1, <2>2, FS_Subset
<1>4. Cardinality(F) \in Nat
  BY <1>3, FS_CardinalityType
<1>5. CASE n - 1 \in complete
  <2>1. LeftOf(info, complete, n) = F
    BY <1>1, <1>2, <1>5 DEF LeftOf
  <2> QED BY <1>4, <1>5, <2>1
<1>6. CASE n - 1 \notin complete
  <2>1. LeftOf(info, complete, n) = F \cup S
    BY <1>1, <1>2, <1>6 DEF LeftOf
  <2>2. F \cap S = {}
    BY <1>1, <1>2 DEF LeftOf
  <2>3. IsFiniteSet(S) /\ Cardinality(S) = PieceLength(info, n - 1)
    BY <1>1, BytesOfPiece
  <2>4. PieceLength(info, n - 1) \in 1 .. P
    BY <1>1, PieceInside
  <2> HIDE DEF F, S
  <2>5. Cardinality(F \cup S) = Cardinality(F) + Cardinality(S) - Cardinality(F \cap S)
    BY <1>3, <2>3, FS_Union
  <2>6. Cardinality(F \cap S) = 0
    BY <2>2, FS_EmptySet
  <2> QED BY <1>1, <1>4, <1>6, <2>1, <2>3, <2>4, <2>5, <2>6 DEF F
<1> QED BY <1>5, <1>6

\* What BytesLeft computes, as the function its recursion defines.
Step(info, complete, f, n) ==
  IF n = 0 THEN 0
  ELSE f[n - 1] + (IF n - 1 \in complete THEN 0 ELSE PieceLength(info, n - 1))

(***************************************************************************)
(* For every accepted metainfo and every set of complete pieces, what      *)
(* BytesLeft adds up piece by piece, the short last one included, is the   *)
(* number of bytes that are in no complete piece: the tracker is told 0    *)
(* exactly for a seeder.  The recursion is followed by induction: the      *)
(* least piece at which it and the count differ would have to be the first *)
(* one or to differ from the one before it.                                *)
(***************************************************************************)
THEOREM BytesLeftAlwaysExact == \A info \in AcceptedInfo : BytesLeftExact(info)
<1> SUFFICES ASSUME NEW info \in AcceptedInfo, NEW complete \in SUBSET (0 .. Count(info) - 1)
             PROVE  BytesLeft(info, complete) =
                      Cardinality({ k \in 0 .. info.Length - 1 :
                                      k \div info.PieceLength \notin complete })
  BY DEF BytesLeftExact
<1> DEFINE C == Count(info)
           g == [n \in 0 .. C |-> Cardinality(LeftOf(info, complete, n))]
           left == CHOOSE f : f = [n \in 0 .. C |-> Step(info, complete, f, n)]
<1>0. C \in Nat /\ info.Length \in Nat /\ info.PieceLength \in Nat \ {0}
  BY Quotient DEF AcceptedInfo, ValidInfo, Count
<1>1. BytesLeft(info, complete) = left[C]
  BY DEF BytesLeft, Step
<1>2. \A n \in 0 .. C : g[n] = Step(info, complete, g, n)
  <2>1. g[0] = 0
    <3>1. LeftOf(info, complete, 0) = {}
      BY <1>0, Quotient DEF LeftOf
    <3> QED BY <1>0, <3>1, FS_EmptySet
  <2>2. ASSUME NEW n \in 1 .. C PROVE g[n] = Step(info, complete, g, n)
    BY <1>0, OnePieceMore DEF Step
  <2>3. Step(info, complete, g, 0) = 0
    BY DEF Step
  <2> QED BY <1>0, <2>1, <2>2, <2>3
<1>3. g = [n \in 0 .. C |-> Step(info, complete, g, n)]
  BY <1>2
<1>4. left = [n \in 0 .. C |-> Step(info, complete, left, n)]
  BY <1>3
<1> HIDE DEF g, left
<1>5. \A n \in 0 .. C : left[n] = g[n]
  <2> DEFINE T == { n \in 0 .. C : left[n] # g[n] }
  <2>1. SUFFICES ASSUME T # {} PROVE FALSE
    OBVIOUS
  <2>2. PICK x \in T : \A y \in T : x <= y
    <3>1. T \in SUBSET Nat
      BY <1>0
    <3> HIDE DEF T
    <3> QED BY <2>1, <3>1, Least
  <2>3. x \in 0 .. C /\ left[x] = Step(info, complete, left, x)
                     /\ g[x] = Step(info, complete, g, x)
    BY <1>2, <1>4
  <2>4. x # 0
    BY <2>3 DEF Step
  <2>5. left[x - 1] = g[x - 1]
    BY <1>0, <2>2, <2>4
  <2> QED BY <2>3, <2>5 DEF Step
<1>6. LeftOf(info, complete, C) =
        { k \in 0 .. info.Length - 1 : k \div info.PieceLength \notin complete }
  BY <1>0, QuotientGrows, Quotient DEF LeftOf, Count
<1>7. C \in 0 .. C
  BY <1>0
<1>8. left[C] = g[C] /\ g[C] = Cardinality(LeftOf(info, complete, C))
  BY <1>5, <1>7 DEF g
<1> QED BY <1>1, <1>6, <1>8

(***************************************************************************)
(* Downloader, server and tracker agree on where pieces and blocks lie, at *)
(* every length and piece length the samples grow to, however far: the     *)
(* bounds MaxLength and MaxPieceLength play no part.                       *)
(***************************************************************************)
THEOREM GeometryAlwaysExact == GeometrySpec => []GeometryExact
<1> DEFINE Sampled == sample \in [of : {"geometry"}, info : [Length : Int, PieceLength : Int]]
<1>1. GeometryInit => Sampled
  BY DEF GeometryInit
<1>2. Sampled /\ [GrowContent]_sample => Sampled'
  BY DEF GrowContent
<1>3. Sampled => GeometryExact
  BY BlocksAlwaysTile, BlocksAlwaysServable, BytesLeftAlwaysExact DEF AcceptedInfo, GeometryExact
<1> QED BY <1>1, <1>2, <1>3, PTL DEF GeometrySpec

-----------------------------------------------------------------------------
(* The tracker's configuration.                                            *)

CommandLine == Seq(Texts \X Texts)

\* The settings while they are read.
Settings ==
  [ok : {TRUE}, ListenAddress : Seq(Texts), StatusAddress : Texts, AnnounceInterval : Int,
   PeerTTL : Int, allowedTorrentPaths : Seq(Texts), allowedHashValues : Seq(Texts),
   torrentDirectory : Texts, allowlistConfigured : BOOLEAN]

\* The last of the first k flags that names a directory, if there is one.
Places(flags, k) == { j \in 1 .. k : flags[j][1] = "torrent-dir" }

GivenBy(flags, k, name) == { flags[j][2] : j \in { j \in 1 .. k : flags[j][1] = name } }

(***************************************************************************)
(* What holds of the settings c when the environment and the first k flags *)
(* have been read: the lists hold what was named, and in the directory is  *)
(* the text of the last flag for it.                                       *)
(***************************************************************************)
ReadSoFar(env, flags, k, c) ==
  /\ c \in Settings
  /\ ToSet(c.allowedHashValues)
       = ToSet(env["TRACKER_ALLOWED_INFO_HASHES"]) \cup GivenBy(flags, k, "allow-info-hash")
  /\ ToSet(c.allowedTorrentPaths) = GivenBy(flags, k, "allow-torrent")
  /\ Places(flags, k) = {} =>
       {c.torrentDirectory} \ {""} = ToSet(env["TRACKER_TORRENT_DIR"])
  /\ \A j \in Places(flags, k) :
       (\A i \in Places(flags, k) : i <= j) => c.torrentDirectory = flags[j][2]
  /\ c.allowlistConfigured <=>
       \/ env["TRACKER_ALLOWED_INFO_HASHES"] # <<>> \/ env["TRACKER_TORRENT_DIR"] # <<>>
       \/ GivenBy(flags, k, "allow-torrent") # {} \/ GivenBy(flags, k, "allow-info-hash") # {}

\* The elements of a sequence with one more, and of two sequences.
LEMMA AppendSet ==
  ASSUME NEW S, NEW s \in Seq(S), NEW x \in S
  PROVE  Append(s, x) \in Seq(S) /\ ToSet(Append(s, x)) = ToSet(s) \cup {x}
<1>1. /\ Append(s, x) \in Seq(S) /\ Len(s) \in Nat /\ Append(s, x)[Len(s) + 1] = x
      /\ DOMAIN s = 1 .. Len(s) /\ DOMAIN Append(s, x) = 1 .. Len(s) + 1
  OBVIOUS
<1>2. \A k \in 1 .. Len(s) : Append(s, x)[k] = s[k] /\ k \in 1 .. Len(s) + 1
  BY <1>1
<1>3. \A k \in 1 .. Len(s) + 1 : k \in 1 .. Len(s) \/ k = Len(s) + 1
  BY <1>1
<1>4. Len(s) + 1 \in 1 .. Len(s) + 1
  BY <1>1
<1>5. ToSet(Append(s, x)) \subseteq ToSet(s) \cup {x}
  BY <1>1, <1>2, <1>3 DEF ToSet
<1>6. ToSet(s) \cup {x} \subseteq ToSet(Append(s, x))
  BY <1>1, <1>2, <1>4 DEF ToSet
<1> QED BY <1>1, <1>5, <1>6

\* The elements of two sequences joined are those of either.
LEMMA ConcatSet ==
  ASSUME NEW S, NEW s \in Seq(S), NEW t \in Seq(S)
  PROVE  s \o t \in Seq(S) /\ ToSet(s \o t) = ToSet(s) \cup ToSet(t)
<1>1. s \o t \in Seq(S) /\ Len(s \o t) = Len(s) + Len(t) /\ Len(s) \in Nat /\ Len(t) \in Nat
  OBVIOUS
<1>2. \A k \in 1 .. Len(s) : (s \o t)[k] = s[k] /\ k \in 1 .. Len(s) + Len(t)
  BY <1>1
<1>3. \A k \in 1 .. Len(t) : (s \o t)[k + Len(s)] = t[k] /\ k + Len(s) \in 1 .. Len(s) + Len(t)
  BY <1>1
<1>4. \A k \in 1 .. Len(s) + Len(t) : k \in 1 .. Len(s) \/ k - Len(s) \in 1 .. Len(t)
  BY <1>1
<1>5. \A k \in 1 .. Len(s) + Len(t) : (s \o t)[k] \in ToSet(s) \cup ToSet(t)
  BY <1>1, <1>2, <1>3, <1>4 DEF ToSet
<1>6. DOMAIN s = 1 .. Len(s) /\ DOMAIN t = 1 .. Len(t) /\ DOMAIN (s \o t) = 1 .. Len(s) + Len(t)
  BY <1>1
<1>7. ToSet(s \o t) \subseteq ToSet(s) \cup ToSet(t)
  BY <1>5, <1>6 DEF ToSet
<1>8. ToSet(s) \cup ToSet(t) \subseteq ToSet(s \o t)
  BY <1>1, <1>2, <1>3, <1>6 DEF ToSet
<1> QED BY <1>1, <1>7, <1>8

\* Two elements make a sequence.
LEMMA PairInSeq ==
  ASSUME NEW S, NEW x \in S, NEW y \in S
  PROVE  <<x, y>> \in Seq(S) /\ <<x>> \in Seq(S)
OBVIOUS

\* A text that is a duration is an integer.
LEMMA DurationIsInt ==
  ASSUME NEW text \in DOMAIN ParseDuration
  PROVE  ParseDuration[text] \in Int
<1>1. ParseDuration[text] \in -MaxInt64 - 1 .. MaxInt64
  BY ParsersAssumption
<1> QED BY <1>1, DurationAssumption

\* The environment is read as ReadSoFar says.
LEMMA EnvironmentRead ==
  ASSUME NEW env \in Environment, NEW flags \in CommandLine, ReadEnvironment(env).ok
  PROVE  ReadSoFar(env, flags, 0, ReadEnvironment(env))
<1> DEFINE c == ReadEnvironment(env)
           hashes == env["TRACKER_ALLOWED_INFO_HASHES"]
           dir == env["TRACKER_TORRENT_DIR"]
<1>1. \A name \in Variables : env[name] \in Seq(Texts)
  BY DEF Environment
<1>2. \A name \in Variables \ {"TRACKER_ALLOWED_INFO_HASHES"} :
        env[name] = <<>> \/ (env[name][1] \in Texts /\ env[name] = <<env[name][1]>>
                               /\ ToSet(env[name]) = {env[name][1]})
  BY <1>1 DEF Environment, ToSet
<1>3. hashes \in Seq(Texts) /\ dir \in Seq(Texts)
  BY <1>1 DEF Variables
<1>4. c.torrentDirectory = Text(dir, "") /\ dir # <<"">> /\ c.allowedHashValues = hashes
        /\ c.allowedTorrentPaths = <<>> /\ c.allowlistConfigured = (hashes # <<>> \/ dir # <<>>)
  BY DEF ReadEnvironment, Rejected
<1>5. c \in Settings
  <2> DEFINE Single == Variables \ {"TRACKER_ALLOWED_INFO_HASHES"}
  <2>1. /\ ToSet(env["TRACKER_INTERVAL"]) \subseteq DOMAIN ParseDuration
        /\ ToSet(env["TRACKER_PEER_TTL"]) \subseteq DOMAIN ParseDuration
    BY DEF ReadEnvironment, Rejected
  <2>2. /\ "PORT" \in Single /\ "TRACKER_STATUS_LISTEN" \in Single
        /\ "TRACKER_TORRENT_DIR" \in Single /\ "TRACKER_INTERVAL" \in Single
        /\ "TRACKER_PEER_TTL" \in Single /\ "TRACKER_LISTEN" \in Single
    BY DEF Variables
  <2>3. \A name \in Single, default \in Texts : Text(env[name], default) \in Texts
    BY <1>2 DEF Text
  <2>4. ASSUME NEW name \in Single, NEW default \in Int,
               ToSet(env[name]) \subseteq DOMAIN ParseDuration
        PROVE  Duration(env[name], default) \in Int
    <3>1. CASE env[name] = <<>>
      BY <3>1 DEF Duration
    <3>2. CASE env[name] # <<>>
      <4>1. env[name][1] \in DOMAIN ParseDuration
        BY <1>2, <2>4, <3>2
      <4> QED BY <3>2, <4>1, DurationIsInt DEF Duration
    <3> QED BY <3>1, <3>2
  <2> HIDE DEF Single
  <2>5. /\ Text(env["PORT"], "6969") \in Texts /\ Text(env["TRACKER_STATUS_LISTEN"], "") \in Texts
        /\ Text(dir, "") \in Texts
    BY <2>2, <2>3, ParsersAssumption
  <2>6. /\ Duration(env["TRACKER_INTERVAL"], 30 * Second) \in Int
        /\ Duration(env["TRACKER_PEER_TTL"], 0) \in Int
    BY <2>1, <2>2, <2>4, DurationAssumption
  <2>7. env["TRACKER_LISTEN"] \in Seq(Texts)
    BY <1>1 DEF Variables
  <2>8. <<":", Text(env["PORT"], "6969")>> \in Seq(Texts)
    BY <2>5, PairInSeq, ParsersAssumption
  <2> DEFINE L == IF env["TRACKER_LISTEN"] = <<>> THEN <<":", Text(env["PORT"], "6969")>>
                  ELSE env["TRACKER_LISTEN"]
             A == hashes # <<>> \/ dir # <<>>
  <2>9. L \in Seq(Texts) /\ A \in BOOLEAN
    BY <2>7, <2>8
  <2>10. c = [ok |-> TRUE, ListenAddress |-> L,
              StatusAddress       |-> Text(env["TRACKER_STATUS_LISTEN"], ""),
              AnnounceInterval    |-> Duration(env["TRACKER_INTERVAL"], 30 * Second),
              PeerTTL             |-> Duration(env["TRACKER_PEER_TTL"], 0),
              allowedTorrentPaths |-> <<>>,
              allowedHashValues   |-> hashes,
              torrentDirectory    |-> Text(dir, ""),
              allowlistConfigured |-> A]
    BY DEF ReadEnvironment, Rejected
  <2>11. <<>> \in Seq(Texts)
    OBVIOUS
  <2> HIDE DEF c, L, A, hashes, dir
  <2> QED BY <1>3, <2>5, <2>6, <2>9, <2>10, <2>11 DEF Settings
<1>6. \A name : GivenBy(flags, 0, name) = {}
  BY DEF GivenBy
<1>7. Places(flags, 0) = {}
  BY DEF Places
<1>9. ToSet(<<>>) = {}
  BY DEF ToSet
<1>8. {c.torrentDirectory} \ {""} = ToSet(dir)
  <2>1. CASE dir = <<>>
    <3>1. c.torrentDirectory = "" /\ ToSet(dir) = {}
      BY <1>4, <1>9, <2>1 DEF Text
    <3> QED BY <3>1
  <2>2. CASE dir # <<>>
    <3>1. "TRACKER_TORRENT_DIR" \in Variables \ {"TRACKER_ALLOWED_INFO_HASHES"}
      BY DEF Variables
    <3>2. dir = <<dir[1]>> /\ ToSet(dir) = {dir[1]}
      BY <1>2, <2>2, <3>1
    <3>3. dir[1] # ""
      BY <1>4, <3>2
    <3> QED BY <1>4, <2>2, <3>2, <3>3 DEF Text
  <2> QED BY <2>1, <2>2
<1>10. ToSet(c.allowedTorrentPaths) = {}
  BY <1>4, <1>9
<1>11. c.allowlistConfigured <=> hashes # <<>> \/ dir # <<>>
  BY <1>4
<1> HIDE DEF c
<1>12. GivenBy(flags, 0, "allow-torrent") = {} /\ GivenBy(flags, 0, "allow-info-hash") = {}
  BY <1>6
<1>13. ToSet(c.allowedHashValues) = ToSet(hashes) \cup GivenBy(flags, 0, "allow-info-hash")
  BY <1>4, <1>12
<1>14. Places(flags, 0) = {} =>
       {c.torrentDirectory} \ {""} = ToSet(env["TRACKER_TORRENT_DIR"])
  BY <1>8
<1>15. \A j \in Places(flags, 0) :
       (\A i \in Places(flags, 0) : i <= j) => c.torrentDirectory = flags[j][2]
  BY <1>7
<1>16. c.allowlistConfigured <=>
       \/ env["TRACKER_ALLOWED_INFO_HASHES"] # <<>> \/ env["TRACKER_TORRENT_DIR"] # <<>>
       \/ GivenBy(flags, 0, "allow-torrent") # {} \/ GivenBy(flags, 0, "allow-info-hash") # {}
  BY <1>11, <1>12
<1>17. ToSet(c.allowedTorrentPaths) = GivenBy(flags, 0, "allow-torrent")
  BY <1>10, <1>12
<1>18. ToSet(c.allowedHashValues)
       = ToSet(env["TRACKER_ALLOWED_INFO_HASHES"]) \cup GivenBy(flags, 0, "allow-info-hash")
  BY <1>13
<1> QED BY <1>5, <1>14, <1>15, <1>16, <1>17, <1>18 DEF ReadSoFar, c

\* One flag more.
LEMMA OneMoreGiven ==
  ASSUME NEW flags, NEW k \in Nat \ {0}, NEW name
  PROVE  /\ flags[k][1] = name =>
              GivenBy(flags, k, name) = GivenBy(flags, k - 1, name) \cup {flags[k][2]}
         /\ flags[k][1] # name => GivenBy(flags, k, name) = GivenBy(flags, k - 1, name)
<1>1. \A j : j \in 1 .. k <=> j \in 1 .. k - 1 \/ j = k
  OBVIOUS
<1> QED BY <1>1, Zenon DEF GivenBy

\* One more flag adds its place exactly when it names a directory.
LEMMA OneMorePlace ==
  ASSUME NEW flags, NEW k \in Nat \ {0}
  PROVE  /\ flags[k][1] = "torrent-dir" => Places(flags, k) = Places(flags, k - 1) \cup {k}
         /\ flags[k][1] # "torrent-dir" => Places(flags, k) = Places(flags, k - 1)
<1>1. \A j : j \in 1 .. k <=> j \in 1 .. k - 1 \/ j = k
  OBVIOUS
<1> QED BY <1>1, Zenon DEF Places

\* Every flag that is accepted keeps what ReadSoFar says.
LEMMA FlagKeeps ==
  ASSUME NEW env \in Environment, NEW flags \in CommandLine, NEW k \in 1 .. Len(flags), NEW c,
         ReadSoFar(env, flags, k - 1, c), ReadFlag(c, flags[k][1], flags[k][2]).ok
  PROVE  ReadSoFar(env, flags, k, ReadFlag(c, flags[k][1], flags[k][2]))
<1> DEFINE name == flags[k][1]
           text == flags[k][2]
           d == ReadFlag(c, name, text)
<1>1. name \in Texts /\ text \in Texts /\ k \in Nat \ {0}
  <2>1. flags[k] \in Texts \X Texts
    BY DEF CommandLine
  <2> QED BY <2>1
<1>2. /\ c \in Settings
      /\ c.ok /\ c.allowedHashValues \in Seq(Texts) /\ c.allowedTorrentPaths \in Seq(Texts)
  BY DEF ReadSoFar, Settings
<1>3. ASSUME name \notin { "torrent-dir", "allow-torrent", "allow-info-hash" },
             d \in Settings, d.torrentDirectory = c.torrentDirectory,
             d.allowedHashValues = c.allowedHashValues,
             d.allowedTorrentPaths = c.allowedTorrentPaths,
             d.allowlistConfigured = c.allowlistConfigured
      PROVE  ReadSoFar(env, flags, k, d)
  <2>1. Places(flags, k) = Places(flags, k - 1)
    BY <1>1, <1>3, OneMorePlace
  <2>2. /\ GivenBy(flags, k, "allow-torrent") = GivenBy(flags, k - 1, "allow-torrent")
        /\ GivenBy(flags, k, "allow-info-hash") = GivenBy(flags, k - 1, "allow-info-hash")
    BY <1>1, <1>3, OneMoreGiven
  <2> HIDE DEF d
  <2> QED BY <1>3, <2>1, <2>2 DEF ReadSoFar
<1>4. CASE name \in { "listen", "status-listen", "interval", "peer-ttl" }
  <2>1. /\ d \in Settings /\ d.torrentDirectory = c.torrentDirectory
        /\ d.allowedHashValues = c.allowedHashValues
        /\ d.allowedTorrentPaths = c.allowedTorrentPaths
        /\ d.allowlistConfigured = c.allowlistConfigured
    <3>1. CASE name = "listen"
      <4>1. d = [c EXCEPT !.ListenAddress = <<text>>]
        BY <3>1 DEF ReadFlag
      <4>2. <<text>> \in Seq(Texts)
        BY <1>1, PairInSeq
      <4> QED BY <1>2, <4>1, <4>2 DEF Settings
    <3>2. CASE name = "status-listen"
      <4>1. d = [c EXCEPT !.StatusAddress = text]
        BY <3>2 DEF ReadFlag
      <4> QED BY <1>1, <1>2, <4>1 DEF Settings
    <3>3. CASE name = "interval"
      <4>1. d = [c EXCEPT !.AnnounceInterval = ParseDuration[text]] /\ text \in DOMAIN ParseDuration
        BY <3>3 DEF ReadFlag, Rejected
      <4>2. ParseDuration[text] \in Int
        BY <4>1, DurationIsInt
      <4> QED BY <1>1, <1>2, <4>1, <4>2 DEF Settings
    <3>4. CASE name = "peer-ttl"
      <4>1. d = [c EXCEPT !.PeerTTL = ParseDuration[text]] /\ text \in DOMAIN ParseDuration
        BY <3>4 DEF ReadFlag, Rejected
      <4>2. ParseDuration[text] \in Int
        BY <4>1, DurationIsInt
      <4> QED BY <1>1, <1>2, <4>1, <4>2 DEF Settings
    <3> QED BY <1>4, <3>1, <3>2, <3>3, <3>4
  <2> QED BY <1>3, <1>4, <2>1
<1>5. CASE name = "torrent-dir"
  <2>1. d = [c EXCEPT !.torrentDirectory = text]
    BY <1>5 DEF ReadFlag
  <2>2. /\ d \in Settings /\ d.torrentDirectory = text
        /\ d.allowedHashValues = c.allowedHashValues
        /\ d.allowedTorrentPaths = c.allowedTorrentPaths
        /\ d.allowlistConfigured = c.allowlistConfigured
    BY <1>1, <1>2, <2>1 DEF Settings
  <2>3. Places(flags, k) = Places(flags, k - 1) \cup {k}
    BY <1>1, <1>5, OneMorePlace
  <2>4. \A j \in Places(flags, k) : (\A i \in Places(flags, k) : i <= j) => j = k
    BY <1>1, <2>3 DEF Places
  <2>5. /\ GivenBy(flags, k, "allow-torrent") = GivenBy(flags, k - 1, "allow-torrent")
        /\ GivenBy(flags, k, "allow-info-hash") = GivenBy(flags, k - 1, "allow-info-hash")
    BY <1>1, <1>5, OneMoreGiven
  <2> HIDE DEF d
  <2>6. k \in Places(flags, k)
    BY <2>3
  <2>7. \A j \in Places(flags, k) :
          (\A i \in Places(flags, k) : i <= j) => d.torrentDirectory = flags[j][2]
    BY <2>2, <2>4
  <2> QED BY <2>2, <2>5, <2>6, <2>7 DEF ReadSoFar, d
<1>6. CASE name = "allow-torrent"
  <2>1. d = [c EXCEPT !.allowedTorrentPaths = Append(@, text), !.allowlistConfigured = TRUE]
    BY <1>6 DEF ReadFlag, Rejected
  <2>2. /\ d.torrentDirectory = c.torrentDirectory
        /\ d.allowedHashValues = c.allowedHashValues
        /\ d.allowedTorrentPaths = Append(c.allowedTorrentPaths, text)
        /\ d.allowlistConfigured
    BY <1>1, <1>2, <2>1 DEF Settings
  <2>3. Append(c.allowedTorrentPaths, text) \in Seq(Texts)
    BY <1>1, <1>2, AppendSet
  <2>4. d \in Settings
    BY <1>2, <2>1, <2>3 DEF Settings
  <2>5. Places(flags, k) = Places(flags, k - 1)
    BY <1>1, <1>6, OneMorePlace
  <2>6. GivenBy(flags, k, "allow-torrent") = GivenBy(flags, k - 1, "allow-torrent") \cup {text}
    <3>1. GivenBy(flags, k, name) = GivenBy(flags, k - 1, name) \cup {text}
      BY <1>1, OneMoreGiven
    <3> QED BY <1>6, <3>1
  <2>8. GivenBy(flags, k, "allow-info-hash") = GivenBy(flags, k - 1, "allow-info-hash")
    <3>1. name # "allow-info-hash"
      BY <1>6
    <3> QED BY <1>1, <3>1, OneMoreGiven
  <2>9. GivenBy(flags, k, "allow-torrent") # {}
    BY <2>6
  <2>7. ToSet(d.allowedTorrentPaths) = ToSet(c.allowedTorrentPaths) \cup {text}
    BY <1>1, <1>2, <2>2, AppendSet
  <2> HIDE DEF d
  <2>10. ToSet(d.allowedTorrentPaths) = GivenBy(flags, k, "allow-torrent")
    BY <2>6, <2>7 DEF ReadSoFar
  <2> QED BY <2>2, <2>4, <2>5, <2>8, <2>9, <2>10 DEF ReadSoFar, d
<1>7. CASE name = "allow-info-hash"
  <2>1. d = [c EXCEPT !.allowedHashValues = Append(@, text), !.allowlistConfigured = TRUE]
    BY <1>7 DEF ReadFlag, Rejected
  <2>2. /\ d.torrentDirectory = c.torrentDirectory
        /\ d.allowedHashValues = Append(c.allowedHashValues, text)
        /\ d.allowedTorrentPaths = c.allowedTorrentPaths
        /\ d.allowlistConfigured
    BY <1>1, <1>2, <2>1 DEF Settings
  <2>3. Append(c.allowedHashValues, text) \in Seq(Texts)
    BY <1>1, <1>2, AppendSet
  <2>4. d \in Settings
    BY <1>2, <2>1, <2>3 DEF Settings
  <2>5. Places(flags, k) = Places(flags, k - 1)
    BY <1>1, <1>7, OneMorePlace
  <2>6. GivenBy(flags, k, "allow-torrent") = GivenBy(flags, k - 1, "allow-torrent")
    <3>1. name # "allow-torrent"
      BY <1>7
    <3> QED BY <1>1, <3>1, OneMoreGiven
  <2>8. GivenBy(flags, k, "allow-info-hash") = GivenBy(flags, k - 1, "allow-info-hash") \cup {text}
    <3>1. GivenBy(flags, k, name) = GivenBy(flags, k - 1, name) \cup {text}
      BY <1>1, OneMoreGiven
    <3> QED BY <1>7, <3>1
  <2>9. GivenBy(flags, k, "allow-info-hash") # {}
    BY <2>8
  <2>7. ToSet(d.allowedHashValues) = ToSet(c.allowedHashValues) \cup {text}
    BY <1>1, <1>2, <2>2, AppendSet
  <2> HIDE DEF d
  <2>10. ToSet(d.allowedHashValues) = ToSet(env["TRACKER_ALLOWED_INFO_HASHES"])
                                         \cup GivenBy(flags, k, "allow-info-hash")
    BY <2>7, <2>8 DEF ReadSoFar
  <2> QED BY <2>2, <2>4, <2>5, <2>6, <2>9, <2>10 DEF ReadSoFar, d
<1>8. CASE name \notin { "listen", "status-listen", "interval", "peer-ttl", "torrent-dir",
                         "allow-torrent", "allow-info-hash" }
  BY <1>8 DEF ReadFlag, Rejected
<1> QED BY <1>4, <1>5, <1>6, <1>7, <1>8
\* What ReadFlags makes of the first k flags, in terms of what f makes of fewer.
FlagStep(c, flags, f, k) ==
  IF k = 0 THEN c
  ELSE IF ~f[k - 1].ok THEN Rejected
  ELSE ReadFlag(f[k - 1], flags[k][1], flags[k][2])

\* The recursion of ReadFlags has a solution, by induction over the number of flags.
LEMMA FlagsRecursion ==
  ASSUME NEW c, NEW flags, NEW n \in Nat
  PROVE  \E f : f = [k \in 0 .. n |-> FlagStep(c, flags, f, k)]
<1> DEFINE P(m) == \E f : f = [k \in 0 .. m |-> FlagStep(c, flags, f, k)]
           T == { m \in Nat : ~P(m) }
<1>1. P(0)
  <2> DEFINE g == [k \in 0 .. 0 |-> c]
  <2>1. \A k \in 0 .. 0 : FlagStep(c, flags, g, k) = c
    BY DEF FlagStep
  <2>2. g = [k \in 0 .. 0 |-> FlagStep(c, flags, g, k)]
    BY <2>1
  <2> QED BY <2>2
<1>2. ASSUME NEW m \in Nat, P(m) PROVE P(m + 1)
  <2>1. PICK f : f = [k \in 0 .. m |-> FlagStep(c, flags, f, k)]
    BY <1>2
  <2> DEFINE g == [k \in 0 .. m + 1 |-> IF k = m + 1 THEN FlagStep(c, flags, f, k) ELSE f[k]]
  <2>2. \A k \in 0 .. m : f[k] = FlagStep(c, flags, f, k) /\ g[k] = f[k]
    BY <2>1
  <2>3. \A k \in 0 .. m + 1 : FlagStep(c, flags, g, k) = FlagStep(c, flags, f, k)
    <3>1. ASSUME NEW k \in 0 .. m + 1 PROVE FlagStep(c, flags, g, k) = FlagStep(c, flags, f, k)
      <4>1. CASE k = 0
        BY <4>1 DEF FlagStep
      <4>2. CASE k # 0
        <5>1. g[k - 1] = f[k - 1]
          BY <2>2, <4>2
        <5> HIDE DEF g
        <5> QED BY <4>2, <5>1 DEF FlagStep
      <4> QED BY <4>1, <4>2
    <3> QED BY <3>1
  <2>4. ASSUME NEW k \in 0 .. m + 1 PROVE g[k] = FlagStep(c, flags, f, k)
    <3>1. CASE k = m + 1
      BY <3>1
    <3>2. CASE k # m + 1
      <4>1. k \in 0 .. m
        BY <3>2
      <4> HIDE DEF g
      <4> QED BY <2>2, <4>1
    <3> QED BY <3>1, <3>2
  <2>5. g = [k \in 0 .. m + 1 |-> FlagStep(c, flags, g, k)]
    BY <2>3, <2>4
  <2> QED BY <2>5
<1> HIDE DEF P
<1>3. T = {}
  <2>1. SUFFICES ASSUME T # {} PROVE FALSE
    OBVIOUS
  <2>2. PICK x \in T : \A y \in T : x <= y
    <3>1. T \in SUBSET Nat
      OBVIOUS
    <3> HIDE DEF T
    <3> QED BY <2>1, <3>1, Least
  <2>3. x \in Nat /\ ~P(x) /\ x # 0
    BY <1>1
  <2>4. x - 1 \in Nat /\ P(x - 1) /\ (x - 1) + 1 = x
    BY <2>2, <2>3
  <2> QED BY <1>2, <2>3, <2>4
<1>4. P(n)
  BY <1>3
<1> QED BY <1>4 DEF P

(***************************************************************************)
(* Environment and command line together: if no text is refused, the       *)
(* settings are as ReadSoFar says of all the flags.                        *)
(***************************************************************************)
LEMMA FlagsRead ==
  ASSUME NEW env \in Environment, NEW flags \in CommandLine,
         ReadFlags(ReadEnvironment(env), flags).ok
  PROVE  ReadSoFar(env, flags, Len(flags), ReadFlags(ReadEnvironment(env), flags))
<1> DEFINE c == ReadEnvironment(env)
           read == CHOOSE f : f = [k \in 0 .. Len(flags) |-> FlagStep(c, flags, f, k)]
           Bad == { k \in 0 .. Len(flags) : read[k].ok /\ ~ReadSoFar(env, flags, k, read[k]) }
<1>1. Len(flags) \in Nat
  BY DEF CommandLine
<1>2. ReadFlags(c, flags) = read[Len(flags)]
  BY DEF ReadFlags, FlagStep
<1>3. \E f : f = [k \in 0 .. Len(flags) |-> FlagStep(c, flags, f, k)]
  BY <1>1, FlagsRecursion
<1>4. read = [k \in 0 .. Len(flags) |-> FlagStep(c, flags, read, k)]
  BY <1>3
<1> HIDE DEF read, c
<1>5. \A k \in 0 .. Len(flags) : read[k] = FlagStep(c, flags, read, k)
  BY <1>4
<1>6. Bad = {}
  <2>1. SUFFICES ASSUME Bad # {} PROVE FALSE
    OBVIOUS
  <2>2. PICK x \in Bad : \A y \in Bad : x <= y
    <3>1. Bad \in SUBSET Nat
      BY <1>1
    <3> HIDE DEF Bad
    <3> QED BY <2>1, <3>1, Least
  <2>3. x \in 0 .. Len(flags) /\ read[x].ok /\ ~ReadSoFar(env, flags, x, read[x])
    OBVIOUS
  <2>4. CASE x = 0
    <3>1. read[x] = c
      BY <1>5, <2>3, <2>4 DEF FlagStep
    <3> QED BY <2>3, <2>4, <3>1, EnvironmentRead DEF c
  <2>5. CASE x # 0
    <3>1. x \in 1 .. Len(flags) /\ x - 1 \in 0 .. Len(flags) /\ x - 1 < x
      BY <1>1, <2>3, <2>5
    <3>2. read[x] = FlagStep(c, flags, read, x)
      BY <1>5, <2>3
    <3>3. read[x - 1].ok /\ read[x] = ReadFlag(read[x - 1], flags[x][1], flags[x][2])
      BY <2>3, <2>5, <3>2 DEF FlagStep, Rejected
    <3>4. x - 1 \notin Bad
      BY <1>1, <2>2, <3>1
    <3>5. ReadSoFar(env, flags, x - 1, read[x - 1])
      BY <3>1, <3>3, <3>4
    <3> QED BY <2>3, <3>1, <3>3, <3>5, FlagKeeps
  <2> QED BY <2>4, <2>5
<1> QED BY <1>1, <1>2, <1>6 DEF c
\* A set of numbers up to n that is not empty has a greatest element.
LEMMA Greatest ==
  ASSUME NEW n \in Nat, NEW T \in SUBSET (1 .. n), T # {}
  PROVE  \E x \in T : \A y \in T : y <= x
<1> DEFINE U == { n - t : t \in T }
<1>1. U \in SUBSET Nat /\ U # {}
  <2>1. \A t \in T : n - t \in Nat
    OBVIOUS
  <2>2. PICK t \in T : TRUE
    OBVIOUS
  <2>3. n - t \in U
    BY <2>2
  <2> QED BY <2>1, <2>3
<1>2. PICK u \in U : \A v \in U : u <= v
  <2> HIDE DEF U
  <2> QED BY <1>1, Least
<1>3. PICK x \in T : u = n - x
  OBVIOUS
<1>4. ASSUME NEW y \in T PROVE y <= x
  <2>1. n - y \in U
    OBVIOUS
  <2>2. n - x <= n - y
    BY <1>2, <1>3, <2>1
  <2> QED BY <2>2
<1> QED BY <1>4

(***************************************************************************)
(* A tracker that starts serves exactly the torrents its operator named,   *)
(* for every environment and every command line: loadConfig loses none of  *)
(* them over any number of flags and adds none, the last directory given   *)
(* is the one that counts, and once a list was named the tracker is never  *)
(* open to all.  By induction over the flags that were read.               *)
(***************************************************************************)
THEOREM TrackerServesWhatIsNamed ==
  \A env \in Environment, flags \in CommandLine : ServesWhatIsNamed(env, flags)
<1> SUFFICES ASSUME NEW env \in Environment, NEW flags \in CommandLine, NEW hash \in AnyHash,
                    loadConfig(env, flags).ok
             PROVE  allows(NewServer(loadConfig(env, flags)), hash) <=>
                      (ListNamed(env, flags) =>
                         \/ \E h \in HashesNamed(env, flags) : ParseInfoHash[h] = hash
                         \/ \E p \in FilesNamed(env, flags) : MetaInfoAt[p] = hash)
  BY DEF ServesWhatIsNamed
<1> DEFINE r == ReadFlags(ReadEnvironment(env), flags)
           c == WithDirectory(r)
           n == Len(flags)
<1>1. c.ok /\ loadConfig(env, flags).AllowedInfoHashes = AllowList(c)
  BY DEF loadConfig, Rejected
<1>2. r.ok
  BY <1>1 DEF WithDirectory, Rejected
<1>3. ReadSoFar(env, flags, n, r)
  BY <1>2, FlagsRead
<1> HIDE DEF r
<1>4. r \in Settings /\ r.allowedTorrentPaths \in Seq(Texts) /\ r.torrentDirectory \in Texts
  BY <1>3 DEF ReadSoFar, Settings
<1>5. n \in Nat /\ DOMAIN flags = 1 .. n
  BY DEF CommandLine
<1>6. \A name : Given(flags, name) = GivenBy(flags, n, name)
  BY <1>5 DEF Given, GivenBy
<1>7. Directory(env, flags) \ {""} = {r.torrentDirectory} \ {""}
  <2>1. Places(flags, n) = { k \in DOMAIN flags : flags[k][1] = "torrent-dir" }
    BY <1>5 DEF Places
  <2>2. CASE Places(flags, n) = {}
    <3>1. {r.torrentDirectory} \ {""} = ToSet(env["TRACKER_TORRENT_DIR"])
      BY <1>3, <2>2 DEF ReadSoFar
    <3>2. Directory(env, flags) = ToSet(env["TRACKER_TORRENT_DIR"])
      BY <2>1, <2>2 DEF Directory
    <3> QED BY <3>1, <3>2
  <2>3. CASE Places(flags, n) # {}
    <3> DEFINE latest == { k \in Places(flags, n) : \A j \in Places(flags, n) : j <= k }
    <3>1. Directory(env, flags) = { flags[k][2] : k \in latest }
      BY <2>1, <2>3 DEF Directory
    <3>2. \A k \in latest : flags[k][2] = r.torrentDirectory
      BY <1>3 DEF ReadSoFar
    <3>3. latest # {}
      BY <1>5, <2>3, Greatest DEF Places
    <3> HIDE DEF latest
    <3>4. Directory(env, flags) = {r.torrentDirectory}
      BY <3>1, <3>2, <3>3
    <3> QED BY <3>4
  <2> QED BY <2>2, <2>3
<1>8. /\ c.allowedHashValues = r.allowedHashValues
      /\ ToSet(c.allowedTorrentPaths) = ToSet(r.allowedTorrentPaths)
            \cup UNION { ToSet(TorrentsIn[dir]) : dir \in {r.torrentDirectory} \ {""} }
      /\ c.allowlistConfigured <=> r.allowlistConfigured \/ {r.torrentDirectory} \ {""} # {}
  <2>1. CASE r.torrentDirectory = ""
    <3>1. c = r
      BY <2>1 DEF WithDirectory
    <3>2. {r.torrentDirectory} \ {""} = {}
      BY <2>1
    <3> HIDE DEF c
    <3> QED BY <3>1, <3>2
  <2>2. CASE r.torrentDirectory # ""
    <3> DEFINE files == TorrentsIn[r.torrentDirectory]
    <3>1. /\ r.torrentDirectory \in DOMAIN TorrentsIn
          /\ c = [r EXCEPT !.allowlistConfigured = TRUE, !.allowedTorrentPaths = @ \o files]
      BY <1>1, <1>2, <2>2 DEF WithDirectory, Rejected
    <3>2. files \in Seq(Texts)
      BY <3>1, ParsersAssumption
    <3>3. /\ c.allowedHashValues = r.allowedHashValues
          /\ c.allowedTorrentPaths = r.allowedTorrentPaths \o files
          /\ c.allowlistConfigured
      BY <1>4, <3>1 DEF Settings
    <3>4. ToSet(c.allowedTorrentPaths) = ToSet(r.allowedTorrentPaths) \cup ToSet(files)
      BY <1>4, <3>2, <3>3, ConcatSet
    <3>5. {r.torrentDirectory} \ {""} = {r.torrentDirectory}
      BY <2>2
    <3> HIDE DEF c
    <3> QED BY <3>3, <3>4, <3>5
  <2> QED BY <2>1, <2>2
<1>9. ToSet(c.allowedHashValues) = HashesNamed(env, flags)
  <2>1. ToSet(r.allowedHashValues) = ToSet(env["TRACKER_ALLOWED_INFO_HASHES"])
                                       \cup GivenBy(flags, n, "allow-info-hash")
    BY <1>3 DEF ReadSoFar
  <2> HIDE DEF c
  <2> QED BY <1>6, <1>8, <2>1 DEF HashesNamed
<1>10. ToSet(c.allowedTorrentPaths) = FilesNamed(env, flags)
  <2>1. ToSet(r.allowedTorrentPaths) = GivenBy(flags, n, "allow-torrent")
    BY <1>3 DEF ReadSoFar
  <2> HIDE DEF c
  <2> QED BY <1>6, <1>7, <1>8, <2>1 DEF FilesNamed
<1>11. c.allowlistConfigured <=> ListNamed(env, flags)
  <2>1. r.allowlistConfigured <=>
          \/ env["TRACKER_ALLOWED_INFO_HASHES"] # <<>> \/ env["TRACKER_TORRENT_DIR"] # <<>>
          \/ GivenBy(flags, n, "allow-torrent") # {} \/ GivenBy(flags, n, "allow-info-hash") # {}
    BY <1>3 DEF ReadSoFar
  <2> HIDE DEF c
  <2> QED BY <1>6, <1>7, <1>8, <2>1 DEF ListNamed
<1> HIDE DEF c
<1>12. NewServer(loadConfig(env, flags)).allowedInfoHashes = AllowList(c)
  BY <1>1 DEF NewServer
<1>13. CASE c.allowlistConfigured
  <2> DEFINE served == { MetaInfoAt[p] : p \in ToSet(c.allowedTorrentPaths) }
                         \cup { ParseInfoHash[h] : h \in ToSet(c.allowedHashValues) }
  <2>1. AllowList(c) = <<served>>
    BY <1>13 DEF AllowList
  <2>2. allows(NewServer(loadConfig(env, flags)), hash) <=> hash \in served
    BY <1>12, <2>1 DEF allows
  <2> QED BY <1>9, <1>10, <1>11, <1>13, <2>2
<1>14. CASE ~c.allowlistConfigured
  <2>1. AllowList(c) = <<>>
    BY <1>14 DEF AllowList
  <2> QED BY <1>11, <1>12, <1>14, <2>1 DEF allows
<1> QED BY <1>13, <1>14
(***************************************************************************)
(* A client that follows the interval of a tracker that starts is not      *)
(* forgotten in between, for every environment and every command line, as  *)
(* long as three intervals fit into a duration where they are needed.      *)
(***************************************************************************)
THEOREM TrackerKeepsItsClients ==
  \A env \in Environment, flags \in CommandLine : ClientsOutliveInterval(env, flags)
<1> SUFFICES ASSUME NEW env \in Environment, NEW flags \in CommandLine,
                    loadConfig(env, flags).ok,
                    loadConfig(env, flags).PeerTTL = 0 =>
                      3 * loadConfig(env, flags).AnnounceInterval <= MaxInt64
             PROVE  LET config == loadConfig(env, flags)
                        server == NewServer(config)
                    IN  /\ server.interval >= Second /\ server.interval % Second = 0
                        /\ server.peerTTL >= normalizeTrackerInterval(server.interval)
                        /\ config.PeerTTL = 0 => server.peerTTL = 3 * server.interval
  BY DEF ClientsOutliveInterval
<1> DEFINE r == ReadFlags(ReadEnvironment(env), flags)
           c == WithDirectory(r)
           config == loadConfig(env, flags)
<1>1. c.ok /\ Validate(c) /\ config.AnnounceInterval = c.AnnounceInterval
           /\ config.PeerTTL = c.PeerTTL
  BY DEF loadConfig, Rejected
<1>2. r.ok
  BY <1>1 DEF WithDirectory, Rejected
<1>3. r \in Settings
  BY <1>2, FlagsRead DEF ReadSoFar
<1> HIDE DEF r
<1>4. c.AnnounceInterval = r.AnnounceInterval /\ c.PeerTTL = r.PeerTTL
  BY <1>1, <1>3 DEF WithDirectory, Rejected, Settings
<1> HIDE DEF c, config
<1> DEFINE I == config.AnnounceInterval
           T == config.PeerTTL
<1>5. I \in Int /\ T \in Int
  BY <1>1, <1>3, <1>4 DEF Settings
<1>6. I > 0 /\ I % Second = 0 /\ (T # 0 => T >= I)
  BY <1>1 DEF Validate
<1>7. T = 0 => 3 * I <= MaxInt64
  BY DEF config
<1>8. NewServer(config).interval = I
        /\ NewServer(config).peerTTL = IF T = 0 THEN Int64(3 * I) ELSE T
  BY DEF NewServer
<1> HIDE DEF I, T
<1>9. I >= Second
  BY <1>5, <1>6, DurationAssumption
<1>10. T = 0 => Int64(3 * I) = 3 * I
  <2>1. ASSUME NEW m \in Nat, m <= MaxInt64 PROVE Int64(m) = m
    BY <2>1, DurationAssumption DEF Int64
  <2> QED BY <1>5, <1>6, <1>7, <2>1
<1>11. normalizeTrackerInterval(I) = I
  BY <1>5, <1>9, DurationAssumption DEF normalizeTrackerInterval
<1>12. /\ NewServer(config).interval >= Second /\ NewServer(config).interval % Second = 0
       /\ NewServer(config).peerTTL >= normalizeTrackerInterval(NewServer(config).interval)
       /\ T = 0 => NewServer(config).peerTTL = 3 * NewServer(config).interval
  BY <1>5, <1>6, <1>8, <1>9, <1>10, <1>11
<1> QED BY <1>12 DEF config, T

(***************************************************************************)
(* Both hold of every input that the samples grow to, whatever flags and   *)
(* environments they are made of and however many.                         *)
(***************************************************************************)
THEOREM ConfigurationAlwaysSound == ConfigSpec => []ConfigurationSound
<1> DEFINE Sampled == sample \in [of : {"config"}, flags : CommandLine, env : Environment]
<1>1. ConfigInit => Sampled
  <2>1. <<>> \in CommandLine
    BY DEF CommandLine
  <2> QED BY <2>1, InputAssumption DEF ConfigInit
<1>2. Sampled /\ [GiveFlag]_sample => Sampled'
  <2> SUFFICES ASSUME Sampled, [GiveFlag]_sample PROVE Sampled'
    OBVIOUS
  <2>1. CASE GiveFlag
    <3>1. PICK f \in Flag : sample' = [sample EXCEPT !.flags = Append(@, f)]
      BY <2>1 DEF GiveFlag
    <3>2. Append(sample.flags, f) \in CommandLine
      BY <3>1, InputAssumption DEF CommandLine
    <3> QED BY <3>1, <3>2
  <2>2. CASE UNCHANGED sample
    BY <2>2
  <2> QED BY <2>1, <2>2
<1>3. Sampled => ConfigurationSound
  BY TrackerServesWhatIsNamed, TrackerKeepsItsClients DEF ConfigurationSound
<1> QED BY <1>1, <1>2, <1>3, PTL DEF ConfigSpec
=============================================================================
