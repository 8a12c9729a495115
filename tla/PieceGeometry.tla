--------------------------- MODULE PieceGeometry ---------------------------
(***************************************************************************)
(* The arithmetic that cuts a torrent's content into pieces and the pieces *)
(* into the block requests of the wire protocol: the pure part of PieceSet *)
(* (torrent/pieces.go), repeated by fileStorage and piece                  *)
(* (torrent/file.go, torrent/piece.go).                                    *)
(*                                                                         *)
(* info is the record [Length, PieceLength] of the metainfo; its two       *)
(* fields are int64 in the code and do not overflow here.  Everything      *)
(* computed in uint32 in the code is reduced modulo Word.                  *)
(***************************************************************************)
EXTENDS Integers, FiniteSets

CONSTANTS
  blockSize,  \* the length of a full block (16 KiB in the code)
  Word        \* the number of values of the wire's integers (2^32)

ASSUME blockSizeAssumption == blockSize \in Nat \ {0}
ASSUME WordAssumption      == Word \in Nat \ {0}

U32(x) == x % Word

\* What NewPieceSet accepts, once the number of hashes agrees.
ValidInfo(info) == /\ info.Length >= 0
                   /\ info.PieceLength > 0
                   /\ info.PieceLength <= Word - 1

\* expectedPieces: the number of pieces a torrent has.
Count(info) == IF info.Length > 0
                 THEN (info.Length - 1) \div info.PieceLength + 1
                 ELSE 0

PieceOffset(info, index) == index * info.PieceLength

PieceLength_full(info, index) == U32(info.PieceLength)

\* The last piece is cut off at the end of the content.
PieceLength(info, index) ==
  LET remaining == info.Length - PieceOffset(info, index)
  IN  U32(IF remaining < info.PieceLength THEN remaining ELSE info.PieceLength)

blockCount_floor(pieceLength) == pieceLength \div blockSize

blockCount(pieceLength) == U32(pieceLength - 1) \div blockSize + 1

requestLength_full(pieceLength, begin) ==
  IF begin >= pieceLength THEN 0 ELSE blockSize

\* 0 stands for "outside the piece", as it does in the code.
requestLength(pieceLength, begin) ==
  IF begin >= pieceLength THEN 0
  ELSE LET remaining == pieceLength - begin
       IN  IF remaining < blockSize THEN remaining ELSE blockSize

\* The offsets nextMissingBlock walks over within one piece.
Begins(info, index) ==
  { U32(k * blockSize) : k \in 0 .. blockCount(PieceLength(info, index)) - 1 }

\* The block requests that blockRequest answers without an error.
BlockRequests(info) ==
  UNION { { [PieceIndex |-> i, Begin |-> b,
             Length |-> requestLength(PieceLength(info, i), b)]
              : b \in Begins(info, i) } : i \in 0 .. Count(info) - 1 }

\* blockRequest(index, begin) succeeds: the offset is aligned and inside.
ValidBlockRequest(info, index, begin) ==
  /\ index \in 0 .. Count(info) - 1
  /\ begin % blockSize = 0
  /\ requestLength(PieceLength(info, index), begin) # 0

\* BytesLeft: what the pieces outside complete add up to, piece by piece.
BytesLeft(info, complete) ==
  LET left[n \in 0 .. Count(info)] ==
        IF n = 0 THEN 0
        ELSE left[n - 1] + (IF n - 1 \in complete THEN 0
                            ELSE PieceLength(info, n - 1))
  IN  left[Count(info)]

-----------------------------------------------------------------------------
FirstByte(info, b) == PieceOffset(info, b.PieceIndex) + b.Begin

(***************************************************************************)
(* The requests a downloader sends for all pieces (reserveNextRequest over *)
(* nextMissingBlock) cover every byte of the file exactly once: no byte is *)
(* left out, fetched twice or written outside the file.                    *)
(***************************************************************************)
BlocksTile(info) ==
  /\ \A k \in 0 .. info.Length - 1 :
       Cardinality({ b \in BlockRequests(info) :
                       k \in FirstByte(info, b) .. FirstByte(info, b) + b.Length - 1 }) = 1
  /\ \A b \in BlockRequests(info) :
       b.Length > 0 /\ FirstByte(info, b) + b.Length <= info.Length

(***************************************************************************)
(* Both ends of a connection agree on what a block is: the pairs (index,   *)
(* begin) for which the serving side's blockRequest finds a block, over    *)
(* every value an offset on the wire can have, are the ones the            *)
(* downloader's nextMissingBlock asks for.                                 *)
(***************************************************************************)
BlocksServable(info) ==
  { <<b.PieceIndex, b.Begin>> : b \in BlockRequests(info) } =
    { ib \in (0 .. Count(info)) \X (0 .. Word - 1) : ValidBlockRequest(info, ib[1], ib[2]) }

(***************************************************************************)
(* Adding piece lengths up (BytesLeft, what is announced to the tracker as *)
(* left) gives exactly the bytes that lie in no complete piece, for every  *)
(* set of complete pieces.                                                 *)
(***************************************************************************)
BytesLeftExact(info) ==
  \A complete \in SUBSET (0 .. Count(info) - 1) :
    BytesLeft(info, complete) =
      Cardinality({ k \in 0 .. info.Length - 1 : k \div info.PieceLength \notin complete })
=============================================================================
