------------------------------ MODULE PeerWire ------------------------------
(***************************************************************************)
(* The peer wire protocol: framing and payloads of messages                *)
(* (protocol/message.go), the handshake (protocol/handshake.go), and the   *)
(* bitfields in which both sides keep claims to pieces (torrent/peer.go,   *)
(* torrent/pieces.go).                                                     *)
(*                                                                         *)
(* A connection is a sequence of bytes.  Bytes have Bits bits (8 in the    *)
(* code) and the wire's integers WordBytes bytes (4 in the code, where the *)
(* ids need four of the eight bits).                                       *)
(***************************************************************************)
EXTENDS Integers, Sequences, SequencesExt, FiniteSets

CONSTANTS
  Bits, WordBytes,
  maxPeerMessageSize,
  HashBytes,            \* the length of info hashes and peer ids
  ReservedBytes,        \* of the handshake
  PeerProtocol          \* the name of the protocol, as bytes

ByteValues == 2 ^ Bits
Byte       == 0 .. ByteValues - 1

\* binary.BigEndian, of uint32: the lowest byte comes last.
PutUint32(n) ==
  LET shifted[k \in 0 .. WordBytes] == IF k = 0 THEN n ELSE shifted[k - 1] \div ByteValues
  IN  [k \in 1 .. WordBytes |-> shifted[WordBytes - k] % ByteValues]

Uint32(bytes) ==
  LET value[k \in 0 .. WordBytes] == IF k = 0 THEN 0 ELSE value[k - 1] * ByteValues + bytes[k]
  IN  value[WordBytes]

Uint32s == { Uint32(bytes) : bytes \in [1 .. WordBytes -> Byte] }

\* A byte holds every message id and the length of the protocol's name, and a
\* uint32 the size of every message.
ASSUME WireAssumption ==
  /\ Bits \in Nat \ {0} /\ 2 ^ Bits \in Nat /\ 2 ^ Bits > 8
  /\ WordBytes \in Nat \ {0} /\ HashBytes \in Nat \ {0} /\ ReservedBytes \in Nat
  /\ maxPeerMessageSize \in Nat /\ 0 .. maxPeerMessageSize \subseteq Uint32s
  /\ PeerProtocol \in Seq(Byte) /\ Len(PeerProtocol) < 2 ^ Bits

\* Word k of a payload, counted from 0.
Word32(payload, k) == Uint32(SubSeq(payload, k * WordBytes + 1, (k + 1) * WordBytes))

From(s, n) == SubSeq(s, n + 1, Len(s))

-----------------------------------------------------------------------------
(* Messages are records with the name of their Go type.                    *)

MessageID == [Choke |-> 0, Unchoke |-> 1, Interested |-> 2, NotInterested |-> 3, Have |-> 4,
              Bitfield |-> 5, Request |-> 6, Piece |-> 7, CancelRequest |-> 8]

fixedPayloadLengths ==
  [Choke |-> 0, Unchoke |-> 0, Interested |-> 0, NotInterested |-> 0,
   Have |-> WordBytes, Request |-> 3 * WordBytes, CancelRequest |-> 3 * WordBytes]

KeepAlive == [type |-> "KeepAlive"]
Invalid   == [type |-> "error"]

encodeBlockRequest(block) ==
  PutUint32(block.PieceIndex) \o PutUint32(block.Begin) \o PutUint32(block.Length)

decodeBlockRequest(body) ==
  [PieceIndex |-> Word32(body, 0), Begin |-> Word32(body, 1), Length |-> Word32(body, 2)]

decodePiece(payload) ==
  IF Len(payload) < 2 * WordBytes THEN Invalid
  ELSE [type |-> "Piece", PieceIndex |-> Word32(payload, 0), Begin |-> Word32(payload, 1),
        Data |-> From(payload, 2 * WordBytes)]

decodeBody_lax(body) ==
  LET payload == Tail(body)
      is(type) == body[1] = MessageID[type]
  IN  CASE \E type \in { "Choke", "Unchoke", "Interested", "NotInterested" } : is(type) ->
             [type |-> CHOOSE type \in DOMAIN MessageID : is(type)]
        [] is("Have")          -> [type |-> "Have", PieceIndex |-> Uint32(payload)]
        [] is("Request")       -> [type |-> "Request", Block |-> decodeBlockRequest(payload)]
        [] is("CancelRequest") -> [type |-> "CancelRequest", Block |-> decodeBlockRequest(payload)]
        [] is("Bitfield")      -> [type |-> "Bitfield", Bits |-> payload]
        [] is("Piece")         -> decodePiece(payload)
        [] OTHER               -> Invalid

\* The length of a fixed payload is checked before anything is read from it.
decodeBody(body) ==
  LET payload == Tail(body)
      known   == { type \in DOMAIN MessageID : MessageID[type] = body[1] }
      type    == CHOOSE t \in known : TRUE
  IN  IF \/ known = {}
         \/ type \in DOMAIN fixedPayloadLengths /\ Len(payload) # fixedPayloadLengths[type]
        THEN Invalid
        ELSE CASE type = "Have"     -> [type |-> type, PieceIndex |-> Uint32(payload)]
               [] type \in { "Request", "CancelRequest" } ->
                    [type |-> type, Block |-> decodeBlockRequest(payload)]
               [] type = "Bitfield" -> [type |-> type, Bits |-> payload]
               [] type = "Piece"    -> decodePiece(payload)
               [] OTHER             -> [type |-> type]

encodeMessage(m) ==
  <<MessageID[m.type]>> \o
    CASE m.type = "Have"     -> PutUint32(m.PieceIndex)
      [] m.type \in { "Request", "CancelRequest" } -> encodeBlockRequest(m.Block)
      [] m.type = "Bitfield" -> m.Bits
      [] m.type = "Piece"    -> PutUint32(m.PieceIndex) \o PutUint32(m.Begin) \o m.Data
      [] OTHER               -> <<>>

WriteMessage(m) ==
  IF m = KeepAlive THEN PutUint32(0)
  ELSE LET body == encodeMessage(m) IN PutUint32(Len(body)) \o body

ReadMessage_short(bytes) ==
  LET length == Word32(bytes, 0)
      rest   == From(bytes, WordBytes)
      n      == IF Len(rest) < length THEN Len(rest) ELSE length
  IN  IF Len(bytes) < WordBytes THEN [message |-> Invalid, rest |-> <<>>]
      ELSE IF length = 0 THEN [message |-> KeepAlive, rest |-> rest]
      ELSE IF length > maxPeerMessageSize \/ n = 0 THEN [message |-> Invalid, rest |-> <<>>]
      ELSE [message |-> decodeBody(SubSeq(rest, 1, n)), rest |-> From(rest, n)]

\* The next message and the bytes after it.  What is left after an error does
\* not matter: the reader gives the connection up.
ReadMessage(bytes) ==
  LET length == Word32(bytes, 0)
      rest   == From(bytes, WordBytes)
  IN  IF Len(bytes) < WordBytes THEN [message |-> Invalid, rest |-> <<>>]
      ELSE IF length = 0 THEN [message |-> KeepAlive, rest |-> rest]
      ELSE IF length > maxPeerMessageSize \/ Len(rest) < length
        THEN [message |-> Invalid, rest |-> <<>>]
      ELSE [message |-> decodeBody(SubSeq(rest, 1, length)), rest |-> From(rest, length)]

\* A round of the reader's loop, which ends with the first error.
ReadRound(at) ==
  LET next == ReadMessage(at.rest)
  IN  IF at.done \/ next.message = Invalid THEN [at EXCEPT !.done = TRUE]
      ELSE [done |-> FALSE, passed |-> Append(at.passed, next.message), rest |-> next.rest]

\* The messages a peer's reader passes on.  Every message takes a byte at least.
readLoop(bytes) ==
  LET at[n \in 0 .. Len(bytes) + 1] ==
        IF n = 0 THEN [done |-> FALSE, passed |-> <<>>, rest |-> bytes] ELSE ReadRound(at[n - 1])
  IN  at[Len(bytes) + 1].passed

-----------------------------------------------------------------------------
(* The handshake.                                                          *)

WriteHandshake(h) ==
  <<Len(h.Protocol) % ByteValues>> \o h.Protocol \o h.Reserved \o h.InfoHash \o h.PeerID

\* A sequence of one handshake and the bytes after it, or nothing.
ReadHandshake(bytes) ==
  LET name     == 1 + bytes[1]
      reserved == name + ReservedBytes
      hash     == reserved + HashBytes
      end      == hash + HashBytes
  IN  IF bytes = <<>> \/ Len(bytes) < end THEN <<>>
      ELSE <<[Protocol |-> SubSeq(bytes, 2, name), Reserved |-> SubSeq(bytes, name + 1, reserved),
              InfoHash |-> SubSeq(bytes, reserved + 1, hash), PeerID |-> SubSeq(bytes, hash + 1, end)],
             From(bytes, end)>>

writePeerHandshake(infoHash, peerID) ==
  WriteHandshake([Protocol |-> PeerProtocol, Reserved |-> [k \in 1 .. ReservedBytes |-> 0],
                  InfoHash |-> infoHash, PeerID |-> peerID])

validatePeerHandshake(h, expectedHash, localPeerID) ==
  h.Protocol = PeerProtocol /\ h.InfoHash = expectedHash /\ h.PeerID # localPeerID

-----------------------------------------------------------------------------
(* Bitfields.  The first bit of a byte is its highest.                     *)

Mask(index) ==
  LET shifted[n \in 0 .. Bits - 1] == IF n = 0 THEN 1 ELSE 2 * shifted[n - 1]
  IN  shifted[(Bits - 1) - (index % Bits)]

hasPiece(bitfield, index) ==
  LET k == index \div Bits
  IN  k < Len(bitfield) /\ (bitfield[k + 1] \div Mask(index)) % 2 = 1

setPiece_short(bitfield, index) ==
  LET k == index \div Bits
  IN  IF k >= Len(bitfield) \/ hasPiece(bitfield, index) THEN bitfield
      ELSE [bitfield EXCEPT ![k + 1] = @ + Mask(index)]

\* A Have beyond the end of the bitfield makes it longer.
setPiece(bitfield, index) ==
  LET k     == index \div Bits
      grown == [i \in 1 .. (IF k >= Len(bitfield) THEN k + 1 ELSE Len(bitfield)) |->
                  IF i <= Len(bitfield) THEN bitfield[i] ELSE 0]
  IN  IF hasPiece(grown, index) THEN grown ELSE [grown EXCEPT ![k + 1] = @ + Mask(index)]

PiecesBitfield(count, complete) ==
  LET bits[n \in 0 .. count] ==
        IF n = 0 THEN [k \in 1 .. (count + Bits - 1) \div Bits |-> 0]
        ELSE IF n - 1 \in complete THEN setPiece(bits[n - 1], n - 1) ELSE bits[n - 1]
  IN  bits[count]

bitCount(bitfield, count) == Cardinality({ i \in 0 .. count - 1 : hasPiece(bitfield, i) })
=============================================================================
