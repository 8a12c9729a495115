----------------------------- MODULE TrackerWire -----------------------------
(***************************************************************************)
(* The answer to an announce, from the tracker to the torrent              *)
(* (tracker/announce.go, tracker/client.go).                               *)
(*                                                                         *)
(* Answers are sequences of the symbols of Bencode.  An IP address is one  *)
(* symbol (four bytes in a compact list), a port two digits, so that       *)
(* PortValues is at most 100 here.                                         *)
(***************************************************************************)
EXTENDS Bencode, AnnounceQuery

CONSTANTS
  IPv4, IPv6,       \* addresses
  maxResponseSize

KeyInterval == <<"interval">>
KeyPeers    == <<"peers">>
KeyPeerID   == <<"peer id">>
KeyIP       == <<"ip">>
KeyPort     == <<"port">>
KeyFailure  == <<"failure reason">>

\* An entry of a compact list (six bytes in the code).
CompactSize == 3

CompactPeer(peer) == <<peer.IP, Digits[(peer.Port \div 10) + 1], Digits[(peer.Port % 10) + 1]>>

\* A list of peers in a compact answer holds what compact can express.
Is4_any(peer) == TRUE

Is4(peer) == peer.IP \in IPv4

encodeAnnounceResponse(response, compact) ==
  IF response.Interval < 0 \/ response.Interval % Second # 0 THEN Failed
  ELSE [ok |-> TRUE, value |-> DictBencoding(
    (KeyInterval :> IntegerBencoding(response.Interval \div Second)) @@
    (KeyPeers :>
      IF compact
        THEN LET fours == SelectSeq(response.Peers, Is4)
             IN  StringBencoding(FlattenSeq([k \in DOMAIN fours |-> CompactPeer(fours[k])]))
        ELSE ListBencoding([k \in DOMAIN response.Peers |->
               LET peer == response.Peers[k]
               IN  DictBencoding((KeyPeerID :> StringBencoding(peer.PeerID))
                              @@ (KeyIP :> StringBencoding(<<peer.IP>>))
                              @@ (KeyPort :> IntegerBencoding(peer.Port)))])))]

\* What the server answers: Failed stands for the errors of ServeHTTP.
writeFailure(reason) == writeBencoding(DictBencoding(KeyFailure :> StringBencoding(reason)))

NoID == [k \in 1 .. IDBytes |-> "zero"]

CompactPeers(s) ==
  [k \in 1 .. Len(s) \div CompactSize |->
     LET at == (k - 1) * CompactSize
     IN  [PeerID |-> NoID, IP |-> s[at + 1], Port |-> ParseUint(SubSeq(s, at + 2, at + 3))]]

\* parsePeer succeeds, with PeerOf(value.dict).
parsePeer(value) ==
  LET dict == value.dict
  IN  /\ value.kind = "d"
      /\ HasString(dict, KeyPeerID) /\ Len(dict[KeyPeerID].str) = IDBytes
      /\ HasString(dict, KeyIP) /\ dict[KeyIP].str \in { <<ip>> : ip \in IPv4 \cup IPv6 }
      /\ HasInt(dict, KeyPort) /\ dict[KeyPort].integer \in 1 .. PortValues - 1

PeerOf(dict) ==
  [PeerID |-> dict[KeyPeerID].str, IP |-> dict[KeyIP].str[1], Port |-> dict[KeyPort].integer]

PeersOf(value) ==
  CASE value.kind = "l" /\ \A k \in DOMAIN value.array : parsePeer(value.array[k]) ->
         [ok |-> TRUE, Peers |-> [k \in DOMAIN value.array |-> PeerOf(value.array[k].dict)]]
    [] value.kind = "s" /\ Len(value.str) % CompactSize = 0
         /\ \A k \in DOMAIN CompactPeers(value.str) : CompactPeers(value.str)[k].Port # 0 ->
         [ok |-> TRUE, Peers |-> CompactPeers(value.str)]
    [] OTHER -> Failed

decodeAnnounceResponse(value) ==
  LET body == value.dict
  IN  IF /\ value.kind = "d" /\ ~HasString(body, KeyFailure)
         /\ HasInt(body, KeyInterval) /\ IntervalInRange(body[KeyInterval].integer)
         /\ KeyPeers \in DOMAIN body /\ PeersOf(body[KeyPeers]).ok
        THEN [ok |-> TRUE, Interval |-> IntervalOf(body[KeyInterval].integer),
              Peers |-> PeersOf(body[KeyPeers]).Peers]
        ELSE Failed

ResponseIn(result) == IF result.ok THEN decodeAnnounceResponse(result.value) ELSE Failed

\* Announce, from the status and the body of the HTTP response on.
AnnounceAnswer(status, body) ==
  IF status \notin 200 .. 299 \/ Len(body) > maxResponseSize THEN Failed
  ELSE ResponseIn(Decode(body))
=============================================================================
