----------------------------- MODULE Connections -----------------------------
(***************************************************************************)
(* PeerWire over its inputs: single frames with faults, streams that begin *)
(* with a handshake and break anywhere, and the claims of a peer.          *)
(***************************************************************************)
EXTENDS PeerWire, Samples

CONSTANTS
  Message, MaxMessages,     \* messages that are written, and how many in a stream
  MaxFaults, NoiseByte,     \* faults on one frame, and the bytes they put there
  MaxPieces                 \* claimed in bitfields

\* The messages that can be written, with a body no longer than is read.
Block == [PieceIndex : Uint32s, Begin : Uint32s, Length : Uint32s]

Bodied ==
  [type : { "Choke", "Unchoke", "Interested", "NotInterested" }] \cup
  [type : {"Have"}, PieceIndex : Uint32s] \cup
  [type : {"Bitfield"}, Bits : Seq(Byte)] \cup
  [type : { "Request", "CancelRequest" }, Block : Block] \cup
  [type : {"Piece"}, PieceIndex : Uint32s, Begin : Uint32s, Data : Seq(Byte)]

Writable == { KeepAlive } \cup { m \in Bodied : Len(encodeMessage(m)) <= maxPeerMessageSize }

ASSUME ConnectionAssumption ==
  Message \subseteq Writable /\ NoiseByte \subseteq Byte /\ MaxPieces \in Nat

FrameInit == \E m \in Message :
  sample = [of |-> "frame", bytes |-> WriteMessage(m) \o <<0>>, faults |-> 0]

ChangeByte ==
  /\ Is("frame") /\ sample.faults < MaxFaults
  /\ \E k \in DOMAIN sample.bytes, b \in NoiseByte :
       sample' = [sample EXCEPT !.bytes[k] = b, !.faults = @ + 1]

LoseByte ==
  /\ Is("frame") /\ sample.faults < MaxFaults
  /\ \E k \in DOMAIN sample.bytes :
       sample' = [sample EXCEPT !.bytes = RemoveAt(@, k), !.faults = @ + 1]

(***************************************************************************)
(* What ReadMessage accepts has one meaning: written again, the message is *)
(* the very bytes that were read.  A frame with a payload too short or too *)
(* long, an unknown id, or bytes from a lost one is never taken for        *)
(* another message that this side would have sent differently.             *)
(***************************************************************************)
Canonical(bytes) ==
  LET next == ReadMessage(bytes)
  IN  next.message # Invalid => WriteMessage(next.message) \o next.rest = bytes

Ends == [1 .. HashBytes -> 0 .. 1]
Own  == [k \in 1 .. HashBytes |-> 0]

StreamInit == \E hash \in Ends, id \in Ends :
  sample = [of |-> "stream", hash |-> hash, id |-> id, messages |-> <<>>]

SendMessage ==
  /\ Is("stream") /\ Len(sample.messages) < MaxMessages
  /\ \E m \in Message : sample' = [sample EXCEPT !.messages = Append(@, m)]

\* What a connection carries: the handshake, then the messages.
Written(messages) ==
  LET sent[n \in 0 .. Len(messages)] ==
        IF n = 0 THEN <<>> ELSE sent[n - 1] \o WriteMessage(messages[n])
  IN  sent[Len(messages)]

(***************************************************************************)
(* A connection that breaks anywhere shows its reader a handshake or none, *)
(* and then a prefix of the messages that were written, in order: the      *)
(* reader never loses step.  The handshake passes exactly when it is for   *)
(* the torrent at hand and from somebody else.                             *)
(***************************************************************************)
StaysInStep(hash, id, messages) ==
  LET bytes == writePeerHandshake(hash, id) \o Written(messages)
  IN  \A cut \in 0 .. Len(bytes) :
        LET got == ReadHandshake(SubSeq(bytes, 1, cut))
        IN  /\ cut = Len(bytes) => got # <<>> /\ readLoop(got[2]) = messages
            /\ got # <<>> =>
                 /\ validatePeerHandshake(got[1], Own, Own) <=> hash = Own /\ id # Own
                 /\ IsPrefix(readLoop(got[2]), messages)

ClaimsInit == sample = [of |-> "claims", bitfield |-> <<>>, claimed |-> {}]

\* The two messages that change peer.bitfield.
HaveArrives ==
  /\ Is("claims")
  /\ \E i \in 0 .. MaxPieces - 1 :
       sample' = [sample EXCEPT !.bitfield = setPiece(@, i), !.claimed = @ \cup {i}]

BitfieldArrives ==
  /\ Is("claims")
  /\ \E complete \in SUBSET (0 .. MaxPieces - 1) :
       sample' = [sample EXCEPT !.bitfield = PiecesBitfield(MaxPieces, complete),
                                !.claimed = complete]

(***************************************************************************)
(* A peer is believed to have exactly the pieces in its last bitfield and  *)
(* those it announced since, also when a Have comes before any bitfield or *)
(* names a piece beyond the end of it; bitCount reports that many.         *)
(***************************************************************************)
ClaimsExact(bitfield, claimed) ==
  /\ { i \in 0 .. 2 * MaxPieces : hasPiece(bitfield, i) } = claimed
  /\ bitCount(bitfield, MaxPieces) = Cardinality(claimed)

(***************************************************************************)
(* Two sides of a connection understand each other, whatever faults,       *)
(* breaks and orders of messages it brings.                                *)
(***************************************************************************)
PeersUnderstood ==
  /\ Is("frame")  => Canonical(sample.bytes)
  /\ Is("stream") => StaysInStep(sample.hash, sample.id, sample.messages)
  /\ Is("claims") => ClaimsExact(sample.bitfield, sample.claimed)

ConnectionInit == FrameInit \/ StreamInit \/ ClaimsInit

ConnectionNext == ChangeByte \/ LoseByte \/ SendMessage \/ HaveArrives \/ BitfieldArrives

ConnectionSpec == ConnectionInit /\ [][ConnectionNext]_sample
=============================================================================
