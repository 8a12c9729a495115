------------------------------- MODULE Formats -------------------------------
(***************************************************************************)
(* The pure parts of the program over bounded inputs: geometry, wire       *)
(* formats, metainfo and configuration.  Inputs grow step by step: a       *)
(* file by a byte, a stream by a message, a dictionary by an entry, a      *)
(* command line by a flag.                                                 *)
(* \A x \in {e} names a value that is used often, for TLC to compute once. *)
(***************************************************************************)
EXTENDS Geometries, Connections, Configurations, Announces, MetaInfo, TrackerWire

CONSTANTS
  TextStart,                      \* beginnings of bencoded texts
  Token, MaxTokens,               \* what may come next, and how often
  MaxContent,                     \* bytes of a source file
  MaxPeers                        \* in an answer

-----------------------------------------------------------------------------
(* Bencoding and metainfo.                                                 *)

\* Texts to extend, and lists nested up to and past the limit.
TextInit ==
  \/ \E start \in TextStart : sample = [of |-> "text", bytes |-> start, tokens |-> 0]
  \/ \E n \in 1 .. maxBencodingDepth + 1 :
       sample = [of |-> "text", tokens |-> MaxTokens,
                 bytes |-> [k \in 1 .. 2 * n |-> IF k <= n THEN "l" ELSE "e"]]

AppendToken ==
  /\ Is("text") /\ sample.tokens < MaxTokens
  /\ \E t \in Token : sample' = [sample EXCEPT !.bytes = @ \o t, !.tokens = @ + 1]

RECURSIVE DepthOf(_)
DepthOf(value) ==
  1 + CASE value.kind = "l" -> Max({0} \cup { DepthOf(value.array[k]) : k \in DOMAIN value.array })
        [] value.kind = "d" -> Max({0} \cup { DepthOf(value.dict[k]) : k \in DOMAIN value.dict })
        [] OTHER            -> 0

(***************************************************************************)
(* There is one encoding of every value: what Decode accepts is exactly    *)
(* what Encode writes.  The info hash depends on it, since parseMetaInfo   *)
(* takes it over the info dictionary encoded again, not over the bytes of  *)
(* the file.  Nothing nested deeper than the limit is accepted.            *)
(***************************************************************************)
BencodeCanonical ==
  Is("text") => LET value == Decode(sample.bytes)
                IN  value.ok => /\ writeBencoding(value.value) = sample.bytes
                                /\ DepthOf(value.value) <= maxBencodingDepth

Extra == <<"private">>

\* The entries a metainfo file may have, with good and bad values.
Entry ==
  (KeyAnnounce    :> { StringBencoding(<<"url">>), StringBencoding(<<>>) }) @@
  (KeyFiles       :> { ListBencoding(<<>>) }) @@
  (KeyLength      :> { IntegerBencoding(n) : n \in { -1, 0, 1, 2, 3 } }) @@
  (KeyName        :> { StringBencoding(<<"name">>), StringBencoding(<<>>) }) @@
  (KeyPieceLength :> { IntegerBencoding(0), IntegerBencoding(2), StringBencoding(<<>>) }) @@
  (KeyPieces      :> { StringBencoding([k \in 1 .. n |-> "sha1"]) : n \in { 0, 1, 2, 4 } }) @@
  (Extra          :> { IntegerBencoding(1) })

FileInit == sample = [of |-> "file", entries |-> <<>>]

AddEntry ==
  /\ Is("file")
  /\ \E key \in DOMAIN Entry \ DOMAIN sample.entries :
       /\ \A other \in DOMAIN sample.entries : Precedes(other, key)
       /\ \E value \in Entry[key] :
            sample' = [sample EXCEPT !.entries = (key :> value) @@ @]

\* The file, with the last entry in no dictionary of its own.
FileBytes ==
  LET inner == DOMAIN sample.entries \ {KeyAnnounce}
  IN  writeBencoding(DictBencoding(
        [key \in (DOMAIN sample.entries \cap {KeyAnnounce}) \cup {KeyInfo} |->
           IF key = KeyInfo THEN DictBencoding([k \in inner |-> sample.entries[k]])
           ELSE sample.entries[key]]))

(***************************************************************************)
(* A torrent keeps its identity when its metainfo is written out again:    *)
(* what ReadMetaInfo accepts can be written and read, with the same        *)
(* announce URL and info.  The info hash is the same exactly when the info *)
(* dictionary had no entry that Info leaves out, because WriteMetainfo     *)
(* drops such entries; and it is the hash that NewMetaInfo computes.       *)
(***************************************************************************)
RewriteKeepsIdentity ==
  Is("file") =>
    \A meta \in { ReadMetaInfo(FileBytes) } : meta.ok =>
      \A again \in { ReadMetaInfo(EncodeMetaInfo(meta)) } :
        /\ again.ok /\ again.Announce = meta.Announce /\ again.Info = meta.Info
        /\ again.InfoHash = NewMetaInfo(meta.Announce, meta.Info).InfoHash
        /\ again.InfoHash = meta.InfoHash <=> Extra \notin DOMAIN sample.entries

(***************************************************************************)
(* A fetched metainfo is the one whose digest the caller gave.  Of the     *)
(* file itself, the file with something after it and another file that can *)
(* be read just as well, fetchMetaInfo accepts only bodies that agree, up  *)
(* to the limit, with the file that has the digest, and then it returns    *)
(* what that file says.                                                    *)
(***************************************************************************)
FetchAuthentic ==
  Is("file") =>
    \A meta \in { ReadMetaInfo(FileBytes) } :
      LET other == IF meta.ok THEN EncodeMetaInfo([meta EXCEPT !.Announce = <<"other">>]) ELSE <<>>
      IN  \A body \in { FileBytes, Append(FileBytes, "e"), other } :
            \A got \in { fetchMetaInfo(body, Sha256(FileBytes)) } :
              /\ got.ok => Limited(body) = FileBytes /\ got = meta
              /\ body = FileBytes /\ Len(body) <= maxMetaInfoSize => got = meta

SourceInit == \E pl \in 1 .. 3, size \in 0 .. MaxContent :
  sample = [of |-> "source", pieceLength |-> pl, size |-> size, content |-> <<>>]

GrowSource ==
  /\ Is("source") /\ Len(sample.content) < MaxContent
  /\ \E b \in { "a", "b" } : sample' = [sample EXCEPT !.content = Append(@, b)]

(***************************************************************************)
(* create makes a torrent of the file it read, or of nothing.  If the size *)
(* taken before is the size of what was hashed, the metainfo (within its   *)
(* own size limit, which create does not check) can be read and the file   *)
(* passes VerifyExisting; if the file changed in between, the metainfo is  *)
(* refused when it is read, or nothing at all can be seeded with it.  Data *)
(* that differs in any byte never passes.                                  *)
(***************************************************************************)
CreateSeedable ==
  Is("source") =>
    \A file \in { create(<<"url">>, <<"name">>, sample.pieceLength, sample.size, sample.content) } :
      \A meta \in { ReadMetaInfo(file) } :
        /\ sample.size = Len(sample.content) /\ Len(file) <= maxMetaInfoSize =>
             meta.ok /\ VerifyExisting(meta.Info, sample.content)
        /\ meta.ok => \A data \in UNION { [1 .. n -> { "a", "b" }] : n \in 0 .. MaxContent } :
             VerifyExisting(meta.Info, data) =>
               sample.size = Len(sample.content) /\ IsPrefix(sample.content, data)

(***************************************************************************)
(* A torrent is what its info hash says, from create through files and     *)
(* downloads of its metainfo to the data that is seeded.                   *)
(***************************************************************************)
IdentityKept == BencodeCanonical /\ RewriteKeepsIdentity /\ FetchAuthentic /\ CreateSeedable

-----------------------------------------------------------------------------
(* The tracker.                                                            *)

AnswerInit == \E interval \in 0 .. 2 * Second, compact \in BOOLEAN :
  sample = [of |-> "answer", compact |-> compact,
            response |-> [Interval |-> interval, Peers |-> <<>>]]

AddPeer ==
  /\ Is("answer") /\ Len(sample.response.Peers) < MaxPeers
  /\ \E ip \in IPv4 \cup IPv6, port \in { 1, PortValues - 1 } :
       sample' = [sample EXCEPT !.response.Peers =
                    Append(@, [PeerID |-> <<"p">>, IP |-> ip, Port |-> port])]

(***************************************************************************)
(* The torrent understands what the tracker answered: the same peers, of   *)
(* which a compact answer keeps the IPv4 ones without their ids, and the   *)
(* interval the tracker wants.  An answer past the size limit is refused   *)
(* whole, and a failure is never taken for an answer.                      *)
(***************************************************************************)
AnswerUnderstood ==
  Is("answer") =>
    LET fours == SelectSeq(sample.response.Peers, LAMBDA p : p.IP \in IPv4)
        heard == IF sample.compact
                   THEN [k \in DOMAIN fours |-> [fours[k] EXCEPT !.PeerID = NoID]]
                   ELSE sample.response.Peers
    IN  /\ \A encoded \in { encodeAnnounceResponse(sample.response, sample.compact) } :
             /\ encoded.ok <=> sample.response.Interval % Second = 0
             /\ encoded.ok =>
                  \A body \in { writeBencoding(encoded.value) } :
                    \A got \in { AnnounceAnswer(200, body) } :
                      /\ got.ok <=> Len(body) <= maxResponseSize
                      /\ got.ok => got.Interval = sample.response.Interval /\ got.Peers = heard
        /\ ~AnnounceAnswer(200, writeFailure(<<"reason">>)).ok

IntervalInit == \E n \in -1 .. MaxInt64 : sample = [of |-> "interval", n |-> n]

(***************************************************************************)
(* No answer of any tracker makes the loop announce without a pause or     *)
(* sooner than it asked: every interval that is accepted becomes a timer   *)
(* of at least a second and at least that many seconds, also at zero and   *)
(* near the numbers of seconds that overflow a duration.                   *)
(***************************************************************************)
TimerNeverBusy ==
  Is("interval") =>
    LET got == decodeAnnounceResponse(DictBencoding(
                 (KeyInterval :> IntegerBencoding(sample.n))
              @@ (KeyPeers :> ListBencoding(<<>>))))
    IN  got.ok => TimerSound(sample.n, got.Interval)

(***************************************************************************)
(* Every answer of a tracker that starts can be encoded, and the client    *)
(* hears the interval that the tracker was configured with.                *)
(***************************************************************************)
IntervalHeard ==
  Is("config") =>
    LET config   == loadConfig(sample.env, sample.flags)
        response == [Interval |-> NewServer(config).interval, Peers |-> <<>>]
        encoded  == encodeAnnounceResponse(response, TRUE)
    IN  config.ok => /\ encoded.ok
                     /\ AnnounceAnswer(200, writeBencoding(encoded.value)).Interval
                          = response.Interval

(***************************************************************************)
(* Torrent and tracker understand each other's announce and answer, and no *)
(* answer sets the torrent's timer spinning.                               *)
(***************************************************************************)
AnnouncesUnderstood ==
  RequestUnderstood /\ AnswerUnderstood /\ TimerNeverBusy /\ IntervalHeard

-----------------------------------------------------------------------------
Init == \/ GeometryInit \/ FrameInit \/ StreamInit \/ ClaimsInit \/ TextInit \/ FileInit
        \/ SourceInit \/ RequestInit \/ AnswerInit \/ IntervalInit \/ ConfigInit

Next == \/ GrowContent \/ ChangeByte \/ LoseByte \/ SendMessage \/ HaveArrives \/ BitfieldArrives
        \/ AppendToken \/ AddEntry \/ GrowSource \/ AddPeer \/ GiveFlag

Spec == Init /\ [][Next]_sample
=============================================================================
