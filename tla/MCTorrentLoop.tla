--------------------------- MODULE MCTorrentLoop ---------------------------
(* TorrentLoop with two connections, of two ids or of one.                 *)
EXTENDS TorrentLoop, TLC

CONSTANTS p1, p2, idA, idB

TwoIds == (p1 :> idA) @@ (p2 :> idB)
OneId  == (p1 :> idA) @@ (p2 :> idA)

\* One piece of two blocks, the second shorter; and two pieces of one block.
OnePiece  == [Length |-> 3, PieceLength |-> 4]
TwoPieces == [Length |-> 3, PieceLength |-> 2]

\* Exchanging the connections along with their ids.
SwapTwo == { (p1 :> p2) @@ (p2 :> p1) @@ (idA :> idB) @@ (idB :> idA) }

\* States that differ only in what is left of peers gone for good are one: the
\* loop never looks again at the flags or the queue of a peer that is neither in
\* the table, nor being handled, nor still to come.
Gone(p) == ~hasPeer(p) /\ p # cur /\ conn[p] = "closed"
View == <<loop, table, conn, arriving, reader, writer, pieces, fileOpen, life,
          [p \in Peer |-> IF Gone(p) THEN <<>>
                          ELSE <<qlen[p], p \in PeerChoking, p \in AmInterested,
                                 p \in AmChoking, p \in PeerInterested, bitfield[p]>>]>>
=============================================================================
