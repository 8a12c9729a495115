------------------------------ MODULE Seeders ------------------------------
(***************************************************************************)
(* A download from well-behaved seeders: TorrentLoop with the remote sides *)
(* restricted to what the serving side of this same program does.  A       *)
(* seeder sends its Bitfield when it is activated, Unchoke in answer to    *)
(* Interested, and a Piece with the right bytes in answer to each Request; *)
(* it says nothing else (the program never sends Choke or KeepAlive).      *)
(* Nobody cancels the run, the tracker answers and lists every seeder      *)
(* once.  The seeders in Leaving may go away at any time.                  *)
(***************************************************************************)
EXTENDS TorrentLoop

CONSTANT Leaving

ASSUME LeavingAssumption == Leaving \subseteq Peer

\* What this side sent has left the queue of p.
Delivered(p) == qlen[p] = 0

OwesBitfield(p)  == bitfield[p] = {}
OwesUnchoke(p)   == Delivered(p) /\ p \in AmInterested /\ p \in PeerChoking
OwesPiece(p, b)  == Delivered(p) /\ pending[b] = p

Owes(p) == OwesBitfield(p) \/ OwesUnchoke(p) \/ \E b \in Block : OwesPiece(p, b)

SeederWrites(p) == Owes(p) /\ ReadMessage(p)

SeederMessage(p) ==
  \/ OwesBitfield(p) /\ Gets(p, "Bitfield") /\ Claims(p, Piece)
  \/ ~OwesBitfield(p) /\ OwesUnchoke(p) /\ Unchoke(p)
  \/ \E b \in Block :
       OwesPiece(p, b) /\ (BlockStored(p, b, FALSE) \/ PieceVerified(p, b, FALSE))

\* Reads and writes fail only when a side has closed the connection.
SeederGone(p) == /\ p \in Leaving \/ conn[p] = "closed"
                 /\ ReadFailed(p) \/ WriteFailed(p)

Gone(p) == ReaderDisconnected(p) \/ WriterDisconnected(p) \/ StaleMessage(p)

AllTried == \A p \in Peer : conn[p] # "new"

Loop == \/ BeginRun \/ Announced \/ Handling
        \/ \E p \in Peer : ConnectPeer(p)
        \/ AllTried /\ ConnectDone

SNext == Loop \/ \E p \in Peer :
                   SeederWrites(p) \/ SeederMessage(p) \/ SeederGone(p) \/ Gone(p) \/ Dequeue(p)

\* The loop and the writers go on, a seeder sends what it owes, and the select
\* of the loop, which picks among ready cases at random, passes nobody over.
SFairness ==
  /\ WF_vars(Loop)
  /\ \A p \in Peer : /\ WF_vars(SeederWrites(p)) /\ WF_vars(Dequeue(p))
                     /\ WF_vars(conn[p] = "closed" /\ ReadFailed(p))
                     /\ SF_vars(SeederMessage(p)) /\ SF_vars(Gone(p))

SInit == Init /\ complete = {}
SSpec == SInit /\ [][SNext]_vars /\ SFairness

(***************************************************************************)
(* The download completes, as a leecher with a seeder must: whoever leaves *)
(* meanwhile, a seeder that stays, and that no full queue ever drops, is   *)
(* enough for every piece to be verified in the end.                       *)
(***************************************************************************)
LeecherCompletes == <>(complete = Piece)

(***************************************************************************)
(* The download completes while nobody leaves: however the messages of     *)
(* several seeders, the loop and the writers interleave, every piece is    *)
(* verified, or else some connection was closed.                           *)
(***************************************************************************)
CompletesUndisturbed == <>(complete = Piece \/ \E p \in Peer : conn[p] = "closed")

(***************************************************************************)
(* Every request comes to an end: a block asked of a seeder arrives, or    *)
(* the request is released when the seeder leaves.  The loop has no        *)
(* timeout for a request, so this rests on both ends of a connection       *)
(* reporting that it is gone.                                              *)
(***************************************************************************)
RequestsResolve == \A b \in Block : pending[b] # None ~> pending[b] = None
=============================================================================
