------------------------- MODULE TorrentLoopProofs -------------------------
(***************************************************************************)
(* What TorrentLoop promises, for every number of peers, ids, pieces and   *)
(* blocks and every limit: type correctness, the safety invariants, the    *)
(* action properties, and that the loop implements BlockLedger.            *)
(***************************************************************************)
EXTENDS TorrentLoop, TLAPS

\* The piece of a block is a piece (BlockRequests walks over the pieces).
LEMMA BlockHasPiece == \A b \in Block : b.PieceIndex \in Piece
BY DEF Block, Piece, BlockRequests

\* A fresh torrent satisfies the invariant.
LEMMA InitInv == Init => Inv
<1> SUFFICES ASSUME Init PROVE Inv
  OBVIOUS
<1> USE DEF Init
<1>1. TypeOK
  <2>1. qlen \in [Peer -> 0 .. peerWriteQueueSize]
    BY LimitsAssumption
  <2>2. complete \subseteq Piece /\ good \subseteq Piece
    OBVIOUS
  <2> QED BY <2>1, <2>2 DEF TypeOK
<1>2. TableInv
  BY IdOfAssumption, NoneAssumption DEF TableInv, hasPeer
<1>3. PendingInv /\ HandlerInv /\ FreshInv
  BY DEF PendingInv, HandlerInv, FreshInv
<1>4. StoreBlockSafe /\ CompleteVerified /\ NoLeakedConnection
  BY DEF StoreBlockSafe, CompleteVerified, NoLeakedConnection
<1> QED BY <1>1, <1>2, <1>3, <1>4 DEF Inv

(***************************************************************************)
(* Every step of the loop, of a goroutine or of a caller preserves the     *)
(* invariant.  The cases are grouped as the actions are in TorrentLoop;    *)
(* within a group there is one step per action.                            *)
(***************************************************************************)
\* The run begins, goes on and ends.
LEMMA RunInv ==
  ASSUME Inv, Run
  PROVE  Inv'
<1> USE IdOfAssumption, NoneAssumption, LimitsAssumption
    DEF Inv, TypeOK, TableInv, PendingInv, HandlerInv, FreshInv, StoreBlockSafe,
            CompleteVerified, NoLeakedConnection, hasPeer, InRun,
            loop, table, tasks, flags, pieces, life
<1>1. CASE BeginRun
  BY <1>1 DEF BeginRun
<1>2. CASE Announced
  BY <1>2 DEF Announced
<1>3. CASE AnnounceFailed
  BY <1>3 DEF AnnounceFailed
<1>4. CASE Reannounce
  BY <1>4 DEF Reannounce
<1>5. CASE ConnectDone
  BY <1>5 DEF ConnectDone
<1>6. CASE Cancel
  BY <1>6 DEF Cancel
<1>7. CASE StopRun
  BY <1>7 DEF StopRun
<1>8. CASE CloseIdle
  BY <1>8 DEF CloseIdle
<1>9. CASE FinishRun
  <2>1. TypeOK' /\ FreshInv' /\ CompleteVerified'
    BY <1>9 DEF FinishRun
  <2>2. TableInv' /\ PendingInv' /\ HandlerInv' /\ StoreBlockSafe'
    BY <1>9 DEF FinishRun
  <2>3. NoLeakedConnection'
    BY <1>9 DEF FinishRun
  <2> QED BY <2>1, <2>2, <2>3
<1>10. CASE \E p \in Peer : ConnectPeer(p)
  <2>1. PICK p \in Peer : ConnectPeer(p)
    BY <1>10
  <2>2. CASE Acceptable(p)
    <3>1. /\ peers' = [peers EXCEPT ![IdOf[p]] = p] /\ conn' = [conn EXCEPT ![p] = "open"]
          /\ reader' = [reader EXCEPT ![p] = "reading"] /\ writer' = [writer EXCEPT ![p] = "running"]
          /\ qlen' = [qlen EXCEPT ![p] = @ + 1] /\ expired' = expired \ {p}
          /\ conn[p] = "new" /\ peers[IdOf[p]] = None
          /\ UNCHANGED <<pending, loop, arriving, flags, pieces, fileOpen, cancelled, runs>>
      BY <2>1, <2>2 DEF ConnectPeer, activatePeer, Acceptable, Enqueued
    <3>2. qlen[p] = 0
      BY <3>1
    <3>3. TypeOK' /\ FreshInv' /\ CompleteVerified' /\ StoreBlockSafe'
      BY <3>1, <3>2
    <3>4. TableInv' /\ NoLeakedConnection'
      BY <3>1
    <3>5. PendingInv' /\ HandlerInv'
      BY <3>1
    <3> QED BY <3>3, <3>4, <3>5
  <2>3. CASE ~Acceptable(p)
    BY <2>1, <2>3 DEF ConnectPeer, activatePeer
  <2> QED BY <2>2, <2>3
<1> QED BY <1>1, <1>2, <1>3, <1>4, <1>5, <1>6, <1>7, <1>8, <1>9, <1>10 DEF Run

\* Readers, writers and offers move.
LEMMA GoroutinesInv ==
  ASSUME Inv, NEW p \in Peer, Goroutines(p)
  PROVE  Inv'
<1> USE IdOfAssumption, NoneAssumption, LimitsAssumption
    DEF Inv, TypeOK, TableInv, PendingInv, HandlerInv, FreshInv, StoreBlockSafe,
            CompleteVerified, NoLeakedConnection, hasPeer, InRun,
            loop, table, tasks, flags, pieces, life
<1>1. CASE ReadMessage(p)
  BY <1>1 DEF ReadMessage
<1>2. CASE ReadFailed(p)
  BY <1>2 DEF ReadFailed
<1>3. CASE ReaderQuits(p)
  BY <1>3 DEF ReaderQuits, ContextDone
<1>4. CASE Dequeue(p)
  BY <1>4 DEF Dequeue
<1>5. CASE WriteFailed(p)
  BY <1>5 DEF WriteFailed
<1>6. CASE WriterQuits(p)
  BY <1>6 DEF WriterQuits, ContextDone
<1>7. CASE OfferPeer(p)
  BY <1>7 DEF OfferPeer
<1>8. CASE OfferStopped(p)
  BY <1>8 DEF OfferStopped, Abandon
<1>9. CASE OfferCancelled(p)
  BY <1>9 DEF OfferCancelled, Abandon
<1> QED BY <1>1, <1>2, <1>3, <1>4, <1>5, <1>6, <1>7, <1>8, <1>9 DEF Goroutines

\* The loop takes an event other than a message of an active peer.
LEMMA EventsInv ==
  ASSUME Inv, NEW p \in Peer, Events(p)
  PROVE  Inv'
<1> USE IdOfAssumption, NoneAssumption, LimitsAssumption
    DEF Inv, TypeOK, TableInv, PendingInv, HandlerInv, FreshInv, StoreBlockSafe,
            CompleteVerified, NoLeakedConnection, hasPeer, InRun,
            loop, table, tasks, flags, pieces, life
<1>1. CASE PeerArrived(p)
  BY <1>1 DEF PeerArrived, activatePeer, Acceptable, Enqueued
<1>2. CASE ReaderDisconnected(p)
  BY <1>2 DEF ReaderDisconnected, removePeer, Released, Unlisted
<1>3. CASE WriterDisconnected(p)
  BY <1>3 DEF WriterDisconnected, removePeer, Released, Unlisted
<1>4. CASE StaleMessage(p)
  BY <1>4 DEF StaleMessage
<1> QED BY <1>1, <1>2, <1>3, <1>4 DEF Events

\* The loop goes on with a broadcast or with the request window.
LEMMA HandlingInv ==
  ASSUME Inv, Handling
  PROVE  Inv'
<1> USE IdOfAssumption, NoneAssumption, LimitsAssumption
    DEF Inv, TypeOK, TableInv, PendingInv, HandlerInv, FreshInv, StoreBlockSafe,
            CompleteVerified, NoLeakedConnection, hasPeer, InRun,
            loop, table, tasks, flags, pieces, life
<1>1. CASE \E q \in Peer : BroadcastSend(q)
  BY <1>1 DEF BroadcastSend, Room, Enqueued
<1>2. CASE \E q \in Peer : BroadcastDrop(q)
  BY <1>2 DEF BroadcastDrop, removePeer, Released, Unlisted
<1>3. CASE BroadcastDone
  BY <1>3 DEF BroadcastDone
<1>4. CASE \E b \in Block : FillSend(b)
  BY <1>4 DEF FillSend, NextRequest, Missing, Room, Enqueued
<1>5. CASE FillFull
  BY <1>5 DEF FillFull, removePeer, Released, Unlisted
<1>6. CASE FillDone
  BY <1>6 DEF FillDone
<1> QED BY <1>1, <1>2, <1>3, <1>4, <1>5, <1>6 DEF Handling

\* A Have or a Bitfield message: updateInterest may remove the peer.
LEMMA ClaimsInv ==
  ASSUME Inv, NEW p \in Peer, NEW bits \in SUBSET Piece, NEW kind,
         Gets(p, kind), Claims(p, bits)
  PROVE  Inv'
<1> USE IdOfAssumption, NoneAssumption, LimitsAssumption
    DEF Inv, TypeOK, TableInv, PendingInv, HandlerInv, FreshInv, StoreBlockSafe,
            CompleteVerified, NoLeakedConnection, hasPeer, InRun,
            loop, table, tasks, flags, pieces, life
<1>1. CASE UNCHANGED <<loop, qlen, AmInterested>> /\ removePeer(p)
  BY <1>1 DEF Claims, Gets, removePeer, Released, Unlisted
<1>2. CASE ~(UNCHANGED <<loop, qlen, AmInterested>> /\ removePeer(p))
  <2>1. qlen' \in [Peer -> 0 .. peerWriteQueueSize] /\ FreshInv'
    BY <1>2 DEF Claims, Gets, Room, Enqueued
  <2>2. /\ AmInterested' \subseteq Peer /\ bitfield' \in [Peer -> SUBSET Piece]
        /\ pc' = "fill" /\ cur' = p /\ UNCHANGED <<todo, table, conn>>
    BY <1>2 DEF Claims
  <2> QED BY <2>1, <2>2 DEF Claims, Gets
<1> QED BY <1>1, <1>2

\* The loop handles a message of an active peer.
LEMMA MessagesInv ==
  ASSUME Inv, NEW p \in Peer, Messages(p)
  PROVE  Inv'
<1> USE IdOfAssumption, NoneAssumption, LimitsAssumption
    DEF Inv, TypeOK, TableInv, PendingInv, HandlerInv, FreshInv, StoreBlockSafe,
            CompleteVerified, NoLeakedConnection, hasPeer, InRun,
            loop, table, tasks, flags, pieces, life
<1>1. CASE Ignored(p)
  BY <1>1 DEF Ignored, Gets
<1>2. CASE Choke(p)
  BY <1>2 DEF Choke, Gets, Released
<1>3. CASE Unchoke(p)
  BY <1>3 DEF Unchoke, Gets
<1>4. CASE Interested(p)
  BY <1>4 DEF Interested, Gets, Room, Enqueued, removePeer, Released, Unlisted
<1>5. CASE NotInterested(p)
  BY <1>5 DEF NotInterested, Gets
<1>6. CASE Have(p)
  <2>1. PICK i \in Piece : Claims(p, bitfield[p] \cup {i})
    BY <1>6 DEF Have
  <2> QED BY <1>6, <2>1, ClaimsInv DEF Have
<1>7. CASE Bitfield(p)
  <2>1. PICK bits \in SUBSET Piece : Claims(p, bits)
    BY <1>7 DEF Bitfield
  <2> QED BY <1>7, <2>1, ClaimsInv DEF Bitfield
<1>8. CASE Request(p)
  BY <1>8 DEF Request, Gets, Room, Enqueued, removePeer, Released, Unlisted
<1>9. CASE UnexpectedBlock(p)
  BY <1>9 DEF UnexpectedBlock, Gets, removePeer, Released, Unlisted
<1>10. CASE \E b \in Block, bad \in BadData : BlockStored(p, b, bad)
  BY <1>10, BlockHasPiece DEF BlockStored, Answers, Gets, Stored, Corrupt
<1>11. CASE \E b \in Block, bad \in BadData : PieceNotWritten(p, b, bad)
  BY <1>11, BlockHasPiece DEF PieceNotWritten, Answers, Gets, Stored, Corrupt, removePeer, Released, Unlisted
<1>12. CASE \E b \in Block, bad \in BadData : PieceMismatch(p, b, bad)
  BY <1>12, BlockHasPiece DEF PieceMismatch, Answers, Gets, Stored, Corrupt, Dropped, removePeer, Released, Unlisted
<1>13. CASE \E b \in Block, bad \in BadData : PieceVerified(p, b, bad)
  <2>1. PICK b \in Block, bad \in BadData : PieceVerified(p, b, bad)
    BY <1>13
  <2>2. /\ CompleteVerified' /\ complete' \subseteq Piece /\ good' \subseteq Piece
        /\ received' \subseteq Block /\ corrupt' \subseteq Block
    BY <2>1, BlockHasPiece DEF PieceVerified, Answers, Dropped, HashMatches, Written
  <2>3. StoreBlockSafe'
    <3> SUFFICES ASSUME NEW c \in Block, pending'[c] # None
                 PROVE  c \notin received' /\ c.PieceIndex \notin complete'
      OBVIOUS
    <3>1. pending[c] # None /\ c # b
      BY <2>1 DEF PieceVerified
    <3>2. c \notin BlocksOf(b.PieceIndex)
      BY <2>1, <3>1 DEF PieceVerified, Assembled, Stored
    <3> QED BY <2>1, <3>1, <3>2 DEF PieceVerified, Dropped, BlocksOf
  <2>4. TypeOK'
    BY <2>1, <2>2 DEF PieceVerified, Answers, Gets, ActivePeers
  <2>5. TableInv' /\ PendingInv' /\ HandlerInv' /\ FreshInv' /\ NoLeakedConnection'
    BY <2>1 DEF PieceVerified, Answers, Gets, ActivePeers
  <2> QED BY <2>2, <2>3, <2>4, <2>5
<1> QED BY <1>1, <1>2, <1>3, <1>4, <1>5, <1>6, <1>7, <1>8, <1>9, <1>10, <1>11, <1>12, <1>13 DEF Messages

\* The invariant is inductive.
LEMMA NextInv == Inv /\ [Next]_vars => Inv'
<1> SUFFICES ASSUME Inv, [Next]_vars PROVE Inv'
  OBVIOUS
<1>1. CASE Run
  BY <1>1, RunInv
<1>2. CASE Handling
  BY <1>2, HandlingInv
<1>3. CASE \E p \in Peer : Messages(p)
  BY <1>3, MessagesInv
<1>4. CASE \E p \in Peer : Goroutines(p)
  BY <1>4, GoroutinesInv
<1>5. CASE \E p \in Peer : Events(p)
  BY <1>5, EventsInv
<1>6. CASE UNCHANGED vars
  BY <1>6 DEF Inv, TypeOK, TableInv, PendingInv, HandlerInv, FreshInv, StoreBlockSafe,
       CompleteVerified, NoLeakedConnection, hasPeer, InRun,
       vars, loop, table, tasks, flags, pieces, life
<1> QED BY <1>1, <1>2, <1>3, <1>4, <1>5, <1>6 DEF Next

(***************************************************************************)
(* The inductive invariant, type correctness included, holds in every      *)
(* reachable state of RunDownload and its goroutines.                      *)
(***************************************************************************)
THEOREM Invariance == Spec => []Inv
BY InitInv, NextInv, PTL DEF Spec

\* Only verified content is marked complete, whatever the peers send.
THEOREM Verified == Spec => []CompleteVerified
<1>1. Inv => CompleteVerified
  BY DEF Inv
<1> QED BY <1>1, Invariance, PTL

\* receiveBlock never calls StoreBlock for a block that is held or complete.
THEOREM NoStorePanic == Spec => []StoreBlockSafe
<1>1. Inv => StoreBlockSafe
  BY DEF Inv
<1> QED BY <1>1, Invariance, PTL

\* Every outstanding request has a reader that will report for it.
THEOREM NoOrphanRequest == Spec => []PendingHasReader
<1>1. Inv => PendingHasReader
  BY DEF Inv, PendingInv, InRun, PendingHasReader
<1> QED BY <1>1, Invariance, PTL

\* Every open connection is in the table or on offer.
THEOREM NoLeak == Spec => []NoLeakedConnection
<1>1. Inv => NoLeakedConnection
  BY DEF Inv
<1> QED BY <1>1, Invariance, PTL

\* No dead peer occupies a place in the table.
THEOREM NoZombie == Spec => []ActiveHasReader
<1>1. Inv => ActiveHasReader
  BY DEF Inv, TableInv, InRun, ActiveHasReader
<1> QED BY <1>1, Invariance, PTL

-----------------------------------------------------------------------------
(* Action properties.                                                      *)

\* The steps that leave the outstanding requests, or the pieces, alone.
LEMMA UntouchedPending ==
  \/ BeginRun \/ Announced \/ AnnounceFailed \/ Reannounce \/ ConnectDone
  \/ Cancel \/ StopRun \/ CloseIdle \/ BroadcastDone \/ FillDone
  \/ \E p \in Peer : \/ ConnectPeer(p) \/ Goroutines(p) \/ PeerArrived(p) \/ StaleMessage(p)
                     \/ Ignored(p) \/ Unchoke(p) \/ NotInterested(p) \/ BroadcastSend(p)
  => UNCHANGED <<pending, pieces>>
BY DEF BeginRun, Announced, AnnounceFailed, Reannounce, ConnectDone, Cancel, StopRun,
       CloseIdle, BroadcastDone, FillDone, ConnectPeer, Goroutines, PeerArrived, StaleMessage,
       Ignored, Unchoke, NotInterested, BroadcastSend, activatePeer, ReadMessage, ReadFailed,
       ReaderQuits, Dequeue, WriteFailed, WriterQuits, OfferPeer, OfferStopped, OfferCancelled,
       Abandon, table

\* A step that changes pending without storing a block releases all requests of
\* a peer that it closes or that chokes, or reserves one, or ends the run.
LEMMA PendingSteps ==
  ASSUME Inv, Next
  PROVE  \/ UNCHANGED <<pending, pieces>>
         \/ \E p \in Peer : /\ pending' = Released(p)
                            /\ conn'[p] = "closed" \/ p \in PeerChoking'
                            /\ UNCHANGED pieces
         \/ FinishRun
         \/ \E b \in Block : FillSend(b)
         \/ \E p \in Peer, b \in Block, bad \in BadData :
              \/ BlockStored(p, b, bad) \/ PieceNotWritten(p, b, bad)
              \/ PieceMismatch(p, b, bad) \/ PieceVerified(p, b, bad)
<1> USE DEF Inv, TypeOK, removePeer, table
<1>1. CASE Run
  BY <1>1, UntouchedPending DEF Run
<1>2. CASE Handling
  <2>1. CASE \E q \in Peer : BroadcastDrop(q)
    BY <2>1 DEF BroadcastDrop
  <2>2. CASE FillFull
    BY <2>2 DEF FillFull, HandlerInv
  <2> QED BY <1>2, <2>1, <2>2, UntouchedPending DEF Handling
<1>3. CASE \E p \in Peer : Messages(p)
  <2>1. PICK p \in Peer : Messages(p)
    BY <1>3
  <2>2. CASE Choke(p)
    BY <2>2 DEF Choke
  <2>3. CASE Interested(p)
    BY <2>3 DEF Interested
  <2>4. CASE Have(p) \/ Bitfield(p)
    BY <2>4 DEF Have, Bitfield, Claims
  <2>5. CASE Request(p)
    BY <2>5 DEF Request
  <2>6. CASE UnexpectedBlock(p)
    BY <2>6 DEF UnexpectedBlock
  <2> QED BY <2>1, <2>2, <2>3, <2>4, <2>5, <2>6, UntouchedPending DEF Messages
<1>4. CASE \E p \in Peer : Goroutines(p)
  BY <1>4, UntouchedPending
<1>5. CASE \E p \in Peer : Events(p)
  <2>1. CASE \E p \in Peer : ReaderDisconnected(p)
    BY <2>1 DEF ReaderDisconnected
  <2>2. CASE \E p \in Peer : WriterDisconnected(p)
    BY <2>2 DEF WriterDisconnected
  <2> QED BY <1>5, <2>1, <2>2, UntouchedPending DEF Events
<1> QED BY <1>1, <1>2, <1>3, <1>4, <1>5 DEF Next

(***************************************************************************)
(* No request changes hands, and it is given up only when its own block    *)
(* arrives, its own peer is closed or its own peer chokes: releasing is by *)
(* connection (releasePendingRequests), never by peer id.                  *)
(***************************************************************************)
THEOREM RequestsKept == Spec => RequestKept
<1>1. ASSUME Inv, Next, NEW b \in Block, pending[b] # None, pending'[b] # pending[b]
      PROVE  /\ pending'[b] = None
             /\ \/ b \in received' \/ b.PieceIndex \in complete'
                \/ conn'[pending[b]] = "closed"
                \/ pending[b] \in PeerChoking'
  <2> USE <1>1
  <2>1. CASE \E p \in Peer : /\ pending' = Released(p)
                             /\ conn'[p] = "closed" \/ p \in PeerChoking'
    BY <2>1 DEF Released
  <2>2. CASE FinishRun
    BY <2>2 DEF FinishRun, Inv, TypeOK, PendingInv, InRun, NoLeakedConnection
  <2>3. CASE \E c \in Block : FillSend(c)
    BY <2>3 DEF FillSend, NextRequest, Missing, Inv, TypeOK
  <2>4. CASE \E p \in Peer, c \in Block, bad \in BadData :
               BlockStored(p, c, bad) \/ PieceVerified(p, c, bad)
    BY <2>4 DEF BlockStored, PieceVerified, Stored, Inv, TypeOK
  <2>5. CASE \E p \in Peer, c \in Block, bad \in BadData :
               PieceNotWritten(p, c, bad) \/ PieceMismatch(p, c, bad)
    BY <2>5 DEF PieceNotWritten, PieceMismatch, removePeer, Released, Inv, TypeOK
  <2> QED BY <2>1, <2>2, <2>3, <2>4, <2>5, PendingSteps
<1>2. Inv /\ [Next]_vars =>
        [\A b \in Block : pending[b] # None /\ pending'[b] # pending[b] =>
           /\ pending'[b] = None
           /\ \/ b \in received' \/ b.PieceIndex \in complete'
              \/ conn'[pending[b]] = "closed"
              \/ pending[b] \in PeerChoking']_vars
  BY <1>1
<1> QED BY <1>2, Invariance, PTL DEF Spec, RequestKept

(***************************************************************************)
(* Verified pieces stay verified, and blocks in memory go only with their  *)
(* whole piece: into the file, or out because the hash check failed.       *)
(***************************************************************************)
THEOREM ProgressIsKept == Spec => ProgressKept
<1>1. ASSUME Inv, Next
      PROVE  /\ complete \subseteq complete'
             /\ \A b \in received \ received' :
                  /\ BlocksOf(b.PieceIndex) \cap received' = {}
                  /\ \/ b.PieceIndex \in complete'
                     \/ \E p \in ActivePeers : conn'[p] = "closed"
  <2> USE <1>1 DEF Inv, TypeOK
  <2>1. CASE UNCHANGED pieces
    BY <2>1 DEF pieces
  <2>2. CASE FinishRun \/ \E c \in Block : FillSend(c)
    BY <2>1, <2>2 DEF FinishRun, FillSend
  <2>3. CASE \E p \in Peer, c \in Block, bad \in BadData :
               BlockStored(p, c, bad) \/ PieceNotWritten(p, c, bad)
    BY <2>3 DEF BlockStored, PieceNotWritten, Stored
  <2>4. CASE \E p \in Peer, c \in Block, bad \in BadData : PieceMismatch(p, c, bad)
    BY <2>4 DEF PieceMismatch, removePeer, Dropped, BlocksOf, Answers, Gets, ActivePeers
  <2>5. CASE \E p \in Peer, c \in Block, bad \in BadData : PieceVerified(p, c, bad)
    BY <2>5 DEF PieceVerified, Dropped, BlocksOf
  <2> QED BY <2>1, <2>2, <2>3, <2>4, <2>5, PendingSteps
<1>2. Inv /\ [Next]_vars =>
        [/\ complete \subseteq complete'
         /\ \A b \in received \ received' :
              /\ BlocksOf(b.PieceIndex) \cap received' = {}
              /\ \/ b.PieceIndex \in complete'
                 \/ \E p \in ActivePeers : conn'[p] = "closed"]_vars
  BY <1>1
<1> QED BY <1>2, Invariance, PTL DEF Spec, ProgressKept

-----------------------------------------------------------------------------
(* Interest and unchoking.                                                 *)

\* A connection is not active yet.
Ahead(p) == conn[p] = "new" \/ p \in arriving

\* Interest is only ever declared by a peer that has been active, and is then
\* answered at once.
UnchokedInv == InterestedUnchoked /\ \A p \in PeerInterested : ~Ahead(p)

\* Every step but the handling of the two messages leaves interest and choking
\* alone, and a connection gets into the table only from ahead of it.
QuietOnFlags ==
  /\ UNCHANGED <<PeerInterested, AmChoking>>
  /\ \A p \in Peer : hasPeer(p)' => hasPeer(p) \/ Ahead(p)
  /\ \A p \in Peer : Ahead(p)' => Ahead(p)

\* The steps of the loop, its goroutines and its callers, sorted that way.
LEMMA FlagSteps ==
  ASSUME Inv, Next
  PROVE  QuietOnFlags \/ \E p \in Peer : Interested(p) \/ NotInterested(p)
<1> USE IdOfAssumption, NoneAssumption
    DEF QuietOnFlags, Inv, TypeOK, removePeer, Unlisted, hasPeer, Ahead, loop, table, tasks, flags, life
<1>1. CASE Run
  <2>1. CASE FinishRun
    BY <2>1 DEF FinishRun
  <2>2. CASE \E p \in Peer : ConnectPeer(p)
    BY <2>2 DEF ConnectPeer, activatePeer
  <2> QED BY <1>1, <2>1, <2>2 DEF Run, BeginRun, Announced, AnnounceFailed, Reannounce, ConnectDone,
                                  Cancel, StopRun, CloseIdle
<1>2. CASE Handling
  <2>1. CASE \E q \in Peer : BroadcastDrop(q)
    BY <2>1 DEF BroadcastDrop
  <2>2. CASE FillFull
    BY <2>2 DEF FillFull, HandlerInv
  <2> QED BY <1>2, <2>1, <2>2 DEF Handling, BroadcastSend, BroadcastDone, FillSend, FillDone
<1>3. ASSUME NEW p \in Peer, Messages(p)
      PROVE  QuietOnFlags \/ Interested(p) \/ NotInterested(p)
  <2>1. CASE Ignored(p) \/ Choke(p) \/ Unchoke(p)
    BY <2>1 DEF Ignored, Choke, Unchoke
  <2>2. CASE Have(p) \/ Bitfield(p)
    BY <2>2 DEF Have, Bitfield, Claims
  <2>3. CASE Request(p)
    BY <2>3 DEF Request
  <2>4. CASE UnexpectedBlock(p)
    BY <2>4 DEF UnexpectedBlock
  <2>5. CASE \E b \in Block, bad \in BadData : BlockStored(p, b, bad) \/ PieceVerified(p, b, bad)
    BY <2>5 DEF BlockStored, PieceVerified
  <2>6. CASE \E b \in Block, bad \in BadData : PieceNotWritten(p, b, bad) \/ PieceMismatch(p, b, bad)
    BY <2>6 DEF PieceNotWritten, PieceMismatch
  <2> QED BY <1>3, <2>1, <2>2, <2>3, <2>4, <2>5, <2>6 DEF Messages
<1>4. ASSUME NEW p \in Peer, Goroutines(p) PROVE QuietOnFlags
  <2>1. CASE OfferPeer(p) \/ OfferStopped(p) \/ OfferCancelled(p)
    BY <2>1 DEF OfferPeer, OfferStopped, OfferCancelled, Abandon
  <2> QED BY <1>4, <2>1 DEF Goroutines, ReadMessage, ReadFailed, ReaderQuits, Dequeue, WriteFailed,
                            WriterQuits
<1>5. ASSUME NEW p \in Peer, Events(p) PROVE QuietOnFlags
  <2>1. CASE PeerArrived(p)
    BY <2>1 DEF PeerArrived, activatePeer
  <2> QED BY <1>5, <2>1 DEF Events, ReaderDisconnected, WriterDisconnected, StaleMessage
<1> QED BY <1>1, <1>2, <1>3, <1>4, <1>5 DEF Next

(***************************************************************************)
(* Everyone who declared interest and is still active is unchoked, under   *)
(* whatever id it came and however full its queue was.                     *)
(***************************************************************************)
THEOREM InterestAnswered == Spec => []InterestedUnchoked
<1>1. Init => UnchokedInv
  BY DEF Init, UnchokedInv, InterestedUnchoked
<1>2. ASSUME Inv, UnchokedInv, Next PROVE UnchokedInv'
  <2> USE <1>2 DEF UnchokedInv, InterestedUnchoked, Inv, TypeOK
  <2>1. CASE QuietOnFlags
    BY <2>1 DEF QuietOnFlags
  <2>2. ASSUME NEW p \in Peer, NotInterested(p) PROVE UnchokedInv'
    BY <2>2 DEF NotInterested, table, hasPeer, Ahead
  <2>3. ASSUME NEW p \in Peer, Interested(p) PROVE UnchokedInv'
    <3>1. hasPeer(p) /\ ~Ahead(p)
      BY <2>3 DEF Interested, Gets, TableInv, InRun, Ahead
    <3>2. CASE p \in AmChoking /\ ~Room(p)
      <4>1. /\ PeerInterested' = PeerInterested \cup {p} /\ AmChoking' = AmChoking
            /\ peers' = [peers EXCEPT ![IdOf[p]] = None]
            /\ conn' = [conn EXCEPT ![p] = "closed"] /\ arriving' = arriving
        BY <2>3, <3>1, <3>2 DEF Interested, removePeer, Unlisted
      <4>2. \A q \in Peer : hasPeer(q)' => q # p /\ hasPeer(q)
        BY <4>1, IdOfAssumption, NoneAssumption DEF hasPeer
      <4>3. \A q \in Peer : Ahead(q)' => Ahead(q)
        BY <4>1 DEF Ahead
      <4> QED BY <3>1, <4>1, <4>2, <4>3
    <3>3. CASE ~(p \in AmChoking /\ ~Room(p))
      <4>1. /\ PeerInterested' = PeerInterested \cup {p} /\ AmChoking' = AmChoking \ {p}
            /\ peers' = peers /\ conn' = conn /\ arriving' = arriving
        BY <2>3, <3>3 DEF Interested, table
      <4> QED BY <3>1, <4>1 DEF hasPeer, Ahead
    <3> QED BY <3>2, <3>3
  <2> QED BY <2>1, <2>2, <2>3, FlagSteps
<1>3. Inv /\ UnchokedInv /\ [Next]_vars => UnchokedInv'
  <2>1. ASSUME UnchokedInv, UNCHANGED vars PROVE UnchokedInv'
    BY <2>1 DEF UnchokedInv, InterestedUnchoked, hasPeer, Ahead, vars, table, flags
  <2> QED BY <1>2, <2>1
<1>4. UnchokedInv => InterestedUnchoked
  BY DEF UnchokedInv
<1> QED BY <1>1, <1>3, <1>4, Invariance, PTL DEF Spec

-----------------------------------------------------------------------------
(* The loop implements BlockLedger.                                        *)

\* A block whose request is answered is the last one of its piece in the
\* ledger's sense exactly when StoreBlock finds the piece assembled.
LEMMA LastIsAssembled ==
  ASSUME Inv, NEW b \in Block, pending[b] # None
  PROVE  Ledger!LastOf(b) <=> Assembled(b)
BY DEF Inv, StoreBlockSafe, Ledger!LastOf, Ledger!Whole, Assembled, Stored, BlocksOf

(***************************************************************************)
(* Behind its peers, queues, goroutines and runs, the loop treats blocks   *)
(* as BlockLedger says: the two specifications differ in everything but    *)
(* pending, the blocks in memory and the complete pieces.                  *)
(***************************************************************************)
THEOREM LoopImplementsLedger == Spec => LedgerSpec
<1>1. Init => Ledger!LInit
  BY DEF Init, Ledger!LInit
<1>2. ASSUME Inv, Next
      PROVE  [Ledger!LNext]_(Ledger!ledger)
  <2> USE <1>2 DEF Inv, TypeOK, Ledger!LNext, Ledger!ledger
  <2>1. CASE UNCHANGED <<pending, pieces>>
    BY <2>1 DEF pieces
  <2>2. CASE \E p \in Peer : pending' = Released(p) /\ UNCHANGED pieces
    BY <2>2 DEF pieces, Released, Ledger!GiveUp, Ledger!Without
  <2>3. CASE FinishRun
    BY <2>3 DEF FinishRun, pieces, Ledger!GiveUpAll
  <2>4. CASE \E b \in Block : FillSend(b)
    <3>1. PICK b \in Block : FillSend(b)
      BY <2>4
    <3>2. Ledger!Ask(b, cur) /\ cur \in Peer
      BY <3>1 DEF FillSend, NextRequest, Missing, pieces, HandlerInv, Ledger!Ask
    <3> QED BY <3>2
  <2>5. CASE \E p \in Peer, b \in Block, bad \in BadData :
               \/ BlockStored(p, b, bad) \/ PieceNotWritten(p, b, bad)
               \/ PieceMismatch(p, b, bad) \/ PieceVerified(p, b, bad)
    <3>1. PICK p \in Peer, b \in Block, bad \in BadData :
               \/ BlockStored(p, b, bad) \/ PieceNotWritten(p, b, bad)
               \/ PieceMismatch(p, b, bad) \/ PieceVerified(p, b, bad)
      BY <2>5
    <3>2. pending[b] = p /\ pending[b] # None
      BY <3>1, NoneAssumption DEF BlockStored, PieceNotWritten, PieceMismatch, PieceVerified, Answers
    <3>3. Ledger!LastOf(b) <=> Assembled(b)
      BY <3>2, LastIsAssembled
    <3>4. CASE BlockStored(p, b, bad)
      BY <3>2, <3>3, <3>4 DEF BlockStored, Stored, Ledger!Hold
    <3>5. CASE PieceNotWritten(p, b, bad)
      BY <3>2, <3>3, <3>5 DEF PieceNotWritten, Stored, removePeer, Released,
                              Ledger!Keep, Ledger!Without
    <3>6. CASE PieceMismatch(p, b, bad)
      BY <3>2, <3>3, <3>6 DEF PieceMismatch, removePeer, Released, Dropped, BlocksOf,
                              Ledger!Discard, Ledger!Without, Ledger!Whole
    <3>7. CASE PieceVerified(p, b, bad)
      BY <3>2, <3>3, <3>7 DEF PieceVerified, Dropped, BlocksOf, Ledger!Verify, Ledger!Whole
    <3> QED BY <3>1, <3>4, <3>5, <3>6, <3>7
  <2> QED BY <2>1, <2>2, <2>3, <2>4, <2>5, PendingSteps
<1>3. UNCHANGED vars => UNCHANGED Ledger!ledger
  BY DEF vars, table, pieces, Ledger!ledger
<1>4. Inv /\ [Next]_vars => [Ledger!LNext]_(Ledger!ledger)
  BY <1>2, <1>3
<1> QED BY <1>1, <1>4, Invariance, PTL DEF Spec, LedgerSpec, Ledger!LSpec
=============================================================================
