---------------------------- MODULE BlockLedger ----------------------------
(***************************************************************************)
(* What a torrent's loop promises about its blocks, whatever peers,        *)
(* queues, goroutines and runs do: the abstract specification that         *)
(* TorrentLoop implements.                                                 *)
(*                                                                         *)
(* A block is nobody's business, asked from one peer, held in memory, or   *)
(* part of a verified piece.  It leaves the hands of the peer it was asked *)
(* from by arriving or together with all other requests to that peer; it   *)
(* leaves memory only together with its whole piece.                       *)
(***************************************************************************)
CONSTANTS
  Block,  \* block requests, records with a field PieceIndex
  Piece,
  Peer,
  None

VARIABLES
  owner,    \* the peer each block is asked from
  held,     \* blocks in memory
  verified  \* pieces on disk

ledger == <<owner, held, verified>>

Whole(b) == { c \in Block : c.PieceIndex = b.PieceIndex }
LastOf(b) == Whole(b) \ held = {b}
Without(p) == [b \in Block |-> IF owner[b] = p THEN None ELSE owner[b]]

LInit == /\ owner = [b \in Block |-> None]
         /\ held = {}
         /\ verified \in { {}, Piece }

Ask(b, p) == /\ owner[b] = None /\ b \notin held /\ b.PieceIndex \notin verified
             /\ owner' = [owner EXCEPT ![b] = p]
             /\ UNCHANGED <<held, verified>>

GiveUp(p) == owner' = Without(p) /\ UNCHANGED <<held, verified>>

\* The run ends.
GiveUpAll == owner' = [b \in Block |-> None] /\ UNCHANGED <<held, verified>>

Hold(b) == /\ owner[b] # None /\ ~LastOf(b)
           /\ owner' = [owner EXCEPT ![b] = None]
           /\ held' = held \cup {b}
           /\ UNCHANGED verified

\* The last block of a piece arrives: the piece is verified, discarded, or
\* kept in memory for want of a file that takes it.
Verify(b) == /\ owner[b] # None /\ LastOf(b)
             /\ owner' = [owner EXCEPT ![b] = None]
             /\ held' = held \ Whole(b)
             /\ verified' = verified \cup {b.PieceIndex}

Discard(b) == /\ owner[b] # None /\ LastOf(b)
              /\ owner' = Without(owner[b])
              /\ held' = held \ Whole(b)
              /\ UNCHANGED verified

Keep(b) == /\ owner[b] # None /\ LastOf(b)
           /\ owner' = Without(owner[b])
           /\ held' = held \cup {b}
           /\ UNCHANGED verified

LNext == \/ \E b \in Block, p \in Peer : Ask(b, p)
         \/ \E p \in Peer : GiveUp(p)
         \/ GiveUpAll
         \/ \E b \in Block : Hold(b) \/ Verify(b) \/ Discard(b) \/ Keep(b)

LSpec == LInit /\ [][LNext]_ledger
=============================================================================
