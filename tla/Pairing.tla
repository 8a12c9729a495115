------------------------------ MODULE Pairing ------------------------------
(***************************************************************************)
(* Two clients with the same torrent that learn of each other from the     *)
(* tracker and may dial each other at the same time (torrent/run.go,       *)
(* torrent/peers.go, client/client.go).                                    *)
(*                                                                         *)
(* A loop dials on its own goroutine: from Dial until the other side's     *)
(* handshake has been read (connectPeer) it takes nothing else.  The other *)
(* side's handler answers the handshake before it offers the connection to *)
(* its loop.  A connection is named by the side that dials it and a        *)
(* number; a name is used again when the connection before is gone on both *)
(* sides, so that the two may reannounce for ever.                         *)
(***************************************************************************)
EXTENDS Naturals

CONSTANTS Side, Slots

ASSUME PairingAssumption == Slots \in Nat /\ \E s, t \in Side : s # t /\ Side = {s, t}

Conns == Side \X (1 .. Slots)

NoConn == <<>>

Other(s) == CHOOSE t \in Side : t # s

VARIABLES
  loop,       \* where each side's loop is: off, select, or the connection it is dialling
  peerOf,     \* the connection under the other side's id in t.peers, or NoConn
  incoming,   \* where the accepting side's handler is with each connection
  answered,   \* the connections on which the accepting side's handshake was written
  ends        \* for each connection the sides whose end is open

pairing == <<loop, peerOf, incoming, answered, ends>>

PairingInit ==
  /\ loop = [s \in Side |-> <<"off">>]
  /\ peerOf = [s \in Side |-> NoConn]
  /\ incoming = [c \in Conns |-> "none"]
  /\ answered = {}
  /\ ends = [c \in Conns |-> {}]

Unused(c) == /\ ends[c] = {} /\ incoming[c] = "none"
             /\ \A s \in Side : peerOf[s] # c /\ loop[s] # c

\* The first announce: the other side is in the answer if it was first.
BeginTorrent(s) ==
  /\ loop[s] = <<"off">>
  /\ loop' = [loop EXCEPT ![s] = <<"select">>]
  /\ UNCHANGED <<peerOf, incoming, answered, ends>>

\* An announce lists the other side; the connection is made, this side's
\* handshake written, and the other side's listener has a handler for it.
Dial(c) ==
  LET s == c[1]
  IN  /\ loop[s] = <<"select">> /\ loop[Other(s)] # <<"off">> /\ Unused(c)
      /\ loop' = [loop EXCEPT ![s] = c]
      /\ ends' = [ends EXCEPT ![c] = Side]
      /\ incoming' = [incoming EXCEPT ![c] = "reading"]
      /\ answered' = answered \ {c}
      /\ UNCHANGED peerOf

\* writePeerHandshake only after the loop has taken the connection.
AnswerHandshake_late(c) ==
  /\ incoming[c] = "reading"
  /\ incoming' = [incoming EXCEPT ![c] = "offering"]
  /\ UNCHANGED <<loop, peerOf, answered, ends>>

\* handleIncomingConnection and AcceptIncomingPeer up to the offer.
AnswerHandshake(c) ==
  /\ incoming[c] = "reading"
  /\ incoming' = [incoming EXCEPT ![c] = "offering"]
  /\ answered' = answered \cup {c}
  /\ UNCHANGED <<loop, peerOf, ends>>

activate_replace(s, c) ==
  /\ peerOf' = [peerOf EXCEPT ![s] = c]
  /\ UNCHANGED ends

\* activatePeer: the connection that is already active stays.
activate(s, c) ==
  IF peerOf[s] = NoConn
    THEN peerOf' = [peerOf EXCEPT ![s] = c] /\ UNCHANGED ends
    ELSE ends' = [ends EXCEPT ![c] = @ \ {s}] /\ UNCHANGED peerOf

\* The dialling side reads the answer.
Connected(c) ==
  LET s == c[1]
  IN  /\ loop[s] = c /\ c \in answered
      /\ loop' = [loop EXCEPT ![s] = <<"select">>]
      /\ activate(s, c)
      /\ UNCHANGED <<incoming, answered>>

\* The accepting side's loop takes the connection from its handler.
Arrived(c) ==
  LET s == Other(c[1])
  IN  /\ loop[s] = <<"select">> /\ incoming[c] = "offering"
      /\ incoming' = [incoming EXCEPT ![c] = "none"]
      /\ activate(s, c)
      /\ UNCHANGED <<loop, answered>>

\* The network drops a connection that one side has in its table; both ends are cut.
NetworkBreaks(c) ==
  /\ ends[c] = Side /\ \E s \in Side : peerOf[s] = c
  /\ incoming[c] = "none" /\ \A s \in Side : loop[s] # c
  /\ ends' = [ends EXCEPT ![c] = {}]
  /\ UNCHANGED <<loop, peerOf, incoming, answered>>

PeerGone_dialled(s) ==
  LET c == peerOf[s]
  IN  /\ loop[s] = <<"select">> /\ c # NoConn /\ ends[c] # Side /\ c[1] = s
      /\ peerOf' = [peerOf EXCEPT ![s] = NoConn]
      /\ ends' = [ends EXCEPT ![c] = @ \ {s}]
      /\ UNCHANGED <<loop, incoming, answered>>

\* An active peer's reader reports that the connection is over: removePeer.
PeerGone(s) ==
  LET c == peerOf[s]
  IN  /\ loop[s] = <<"select">> /\ c # NoConn /\ ends[c] # Side
      /\ peerOf' = [peerOf EXCEPT ![s] = NoConn]
      /\ ends' = [ends EXCEPT ![c] = @ \ {s}]
      /\ UNCHANGED <<loop, incoming, answered>>

PairingNext == \/ \E s \in Side : BeginTorrent(s) \/ PeerGone(s)
               \/ \E c \in Conns : \/ Dial(c) \/ AnswerHandshake(c) \/ Connected(c) \/ Arrived(c)
                                   \/ NetworkBreaks(c)

PairingSpec == PairingInit /\ [][PairingNext]_pairing

-----------------------------------------------------------------------------
\* Nothing under way that would change a table.
Quiet == /\ \A c \in Conns : incoming[c] = "none"
         /\ \A s \in Side : loop[s] \notin Conns
         /\ \A s \in Side : peerOf[s] # NoConn => ends[peerOf[s]] = Side

(***************************************************************************)
(* Both sides mean the same connection.  Whenever nothing is under way,    *)
(* the connection one side has in its table is the one the other has, or   *)
(* both have none, although each decides on its own which of two           *)
(* simultaneous connections to keep (activatePeer) and may keep different  *)
(* ones for a while.                                                       *)
(***************************************************************************)
SidesAgree == Quiet => \A s, t \in Side : peerOf[s] = peerOf[t]

(***************************************************************************)
(* No connection is left open on one side by nobody: an open end is in the *)
(* table of its side, still with its handler, or being dialled.            *)
(***************************************************************************)
NoStrayEnd ==
  \A c \in Conns : \A s \in ends[c] :
    peerOf[s] = c \/ (s = c[1] /\ loop[s] = c) \/ (s # c[1] /\ incoming[c] # "none")

(***************************************************************************)
(* Two clients that dial each other end with one connection that both      *)
(* keep, or with none, and with nothing open beside it.                    *)
(***************************************************************************)
OneConnection == SidesAgree /\ NoStrayEnd

-----------------------------------------------------------------------------
(* Handlers move, and loops take what is ready: an answer or an event,     *)
(* which competes with the other cases of the select and with dials, which *)
(* come back at every announce.  Offers need not be taken.                 *)
PairingFairness ==
  /\ \A c \in Conns : WF_pairing(AnswerHandshake(c)) /\ WF_pairing(Connected(c))
  /\ \A s \in Side : SF_pairing(PeerGone(s))

(***************************************************************************)
(* Two loops that wait for each other's handshake do not wait for ever: a  *)
(* loop that dials gets back to its select.                                *)
(***************************************************************************)
DialsEnd == \A s \in Side : loop[s] \in Conns ~> loop[s] = <<"select">>

(***************************************************************************)
(* A connection that the other side has closed does not stay in the table, *)
(* so that it never stands in the way of a new one for good.               *)
(***************************************************************************)
DeadPeersLeave ==
  \A s \in Side :
    (peerOf[s] # NoConn /\ ends[peerOf[s]] # Side) ~> (peerOf[s] = NoConn)
=============================================================================
