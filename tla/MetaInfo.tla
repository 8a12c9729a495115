------------------------------ MODULE MetaInfo ------------------------------
(***************************************************************************)
(* Metainfo files (protocol/metainfo.go) and what the torrent command does *)
(* with them (cmd/torrent/main.go): create, fetch, and the verification of *)
(* data before it is seeded (torrent/pieces.go).                           *)
(*                                                                         *)
(* The digests are free of collisions: a digest shows what was hashed.     *)
(* Files are sequences of the symbols of Bencode.  The command still calls *)
(* EncodeMetaInfo with an announce URL and an Info; here it calls          *)
(* NewMetaInfo and EncodeMetaInfo, whose code is in protocol.              *)
(***************************************************************************)
EXTENDS Bencode, PieceGeometry

CONSTANT maxMetaInfoSize

KeyAnnounce    == <<"announce">>
KeyInfo        == <<"info">>
KeyFiles       == <<"files">>
KeyLength      == <<"length">>
KeyName        == <<"name">>
KeyPieceLength == <<"piece length">>
KeyPieces      == <<"pieces">>

\* A piece hash is HashSize bytes (20 in the code).
HashSize == 2

HashPiece(data) == <<"sha1", ToString(data)>>

Sha1(bytes)   == <<"sha1", bytes>>
Sha256(bytes) == <<"sha256", bytes>>

-----------------------------------------------------------------------------
(* Reading.                                                                *)

InfoOf(dict) ==
  LET concat == dict[KeyPieces].str
  IN  [Name |-> dict[KeyName].str, Length |-> dict[KeyLength].integer,
       PieceLength |-> dict[KeyPieceLength].integer,
       PieceHashes |-> [k \in 1 .. Len(concat) \div HashSize |->
                          SubSeq(concat, (k - 1) * HashSize + 1, k * HashSize)]]

\* The conditions under which ParseInfo succeeds, with InfoOf(dict).
ParseInfo(value) ==
  LET dict == value.dict
  IN  /\ value.kind = "d" /\ KeyFiles \notin DOMAIN dict
      /\ HasInt(dict, KeyPieceLength) /\ dict[KeyPieceLength].integer > 0
      /\ HasString(dict, KeyPieces) /\ Len(dict[KeyPieces].str) % HashSize = 0
      /\ HasInt(dict, KeyLength) /\ dict[KeyLength].integer >= 0
      /\ HasString(dict, KeyName) /\ dict[KeyName].str # <<>>
      /\ Len(InfoOf(dict).PieceHashes) = Count(InfoOf(dict))

\* The info hash is that of the info dictionary as it was in the file.
parseMetaInfo(value) ==
  LET dict == value.dict
  IN  IF /\ value.kind = "d"
         /\ HasString(dict, KeyAnnounce) /\ dict[KeyAnnounce].str # <<>>
         /\ KeyInfo \in DOMAIN dict /\ ParseInfo(dict[KeyInfo])
        THEN [ok |-> TRUE, Announce |-> dict[KeyAnnounce].str, Info |-> InfoOf(dict[KeyInfo].dict),
              InfoHash |-> Sha1(writeBencoding(dict[KeyInfo]))]
        ELSE Failed

\* io.LimitReader(r, maxMetaInfoSize+1): bytes past the limit are never seen.
Limited(bytes) ==
  SubSeq(bytes, 1, IF Len(bytes) > maxMetaInfoSize + 1 THEN maxMetaInfoSize + 1 ELSE Len(bytes))

MetaInfoIn(result) == IF result.ok THEN parseMetaInfo(result.value) ELSE Failed

ReadMetaInfo(bytes) == MetaInfoIn(Decode(Limited(bytes)))

-----------------------------------------------------------------------------
(* Writing.                                                                *)

infoBencoding_named(info) ==
  DictBencoding((KeyLength :> IntegerBencoding(info.Length))
             @@ (KeyName :> StringBencoding(info.Name))
             @@ (KeyPieceLength :> IntegerBencoding(info.Length))
             @@ (KeyPieces :> StringBencoding(FlattenSeq(info.PieceHashes))))

infoBencoding(info) ==
  DictBencoding((KeyLength :> IntegerBencoding(info.Length))
             @@ (KeyName :> StringBencoding(info.Name))
             @@ (KeyPieceLength :> IntegerBencoding(info.PieceLength))
             @@ (KeyPieces :> StringBencoding(FlattenSeq(info.PieceHashes))))

hashInfo(info) == Sha1(writeBencoding(infoBencoding(info)))

NewMetaInfo(announce, info) ==
  IF announce = <<>> THEN Failed
  ELSE [ok |-> TRUE, Announce |-> announce, Info |-> info, InfoHash |-> hashInfo(info)]

metaInfoBencoding(m) ==
  DictBencoding((KeyAnnounce :> StringBencoding(m.Announce)) @@ (KeyInfo :> infoBencoding(m.Info)))

\* The bytes, in memory; WriteMetainfo writes the same ones.
EncodeMetaInfo(m) == writeBencoding(metaInfoBencoding(m))

-----------------------------------------------------------------------------
(* The torrent command.                                                    *)

RECURSIVE hashPieces(_, _)
\* io.ReadFull until the end of the file.
hashPieces(source, pieceLength) ==
  IF source = <<>> THEN <<>>
  ELSE LET n == IF Len(source) < pieceLength THEN Len(source) ELSE pieceLength
       IN  <<HashPiece(SubSeq(source, 1, n))>>
             \o hashPieces(SubSeq(source, n + 1, Len(source)), pieceLength)

\* The size is taken with Stat before the source is read.
create(announce, name, pieceLength, size, source) ==
  EncodeMetaInfo(NewMetaInfo(announce,
    [Name |-> name, Length |-> size, PieceLength |-> pieceLength,
     PieceHashes |-> hashPieces(source, pieceLength)]))

fetchMetaInfo_unchecked(body, expectedDigest) == ReadMetaInfo(body)

\* The digest is that of the bytes the decoder has read.
fetchMetaInfo(body, expectedDigest) ==
  IF Sha256(Limited(body)) = expectedDigest THEN ReadMetaInfo(body) ELSE Failed

\* Piece k of a file; shorter than asked for when the file ends.
ReadPiece(info, k, data) ==
  LET first == PieceOffset(info, k)
      last  == first + PieceLength(info, k)
  IN  SubSeq(data, first + 1, IF last > Len(data) THEN Len(data) ELSE last)

VerifyExisting_short(info, data) ==
  \A k \in 0 .. Count(info) - 2 : HashPiece(ReadPiece(info, k, data)) = info.PieceHashes[k + 1]

VerifyExisting(info, data) ==
  \A k \in 0 .. Count(info) - 1 :
    /\ Len(ReadPiece(info, k, data)) = PieceLength(info, k)
    /\ HashPiece(ReadPiece(info, k, data)) = info.PieceHashes[k + 1]
=============================================================================
