---------------------------- MODULE TorrentLoop ----------------------------
(***************************************************************************)
(* One Torrent: the event loop of RunDownload (torrent/run.go) with its    *)
(* peer table, its outstanding block requests and its pieces, and the      *)
(* goroutines around it: one reader and one writer per peer                *)
(* (torrent/peer.go), and the goroutines that offer incoming connections   *)
(* (AcceptIncomingPeer).  The loop owns peers, pending and the pieces; the *)
(* goroutines reach it only through the unbuffered channel peerEvents, and *)
(* the loop reaches them only through the bounded channel outgoing, by     *)
(* closing the connection and by cancelling the run's context.             *)
(*                                                                         *)
(* A handler of the loop is one step as long as nothing another goroutine  *)
(* does can be seen in between.  A writer that drains its queue can be     *)
(* seen by sendMessage, so the two handlers that send in a loop, the       *)
(* broadcast of Have and fillRequestWindow, send one message per step.     *)
(*                                                                         *)
(* A member of Peer is one *peer value: one connection, used once.  Two of *)
(* them may carry the same peer id.  What a remote side writes is chosen   *)
(* when the loop handles it, among the kinds in Kinds.  Piece data is      *)
(* abstracted to whether it is the content the metainfo's hash was made    *)
(* of; a queue to its length; the counters uploaded and downloaded, which  *)
(* only feed reports, are left out.                                        *)
(***************************************************************************)
EXTENDS PieceGeometry, FiniteSets

CONSTANTS
  Peer,                \* the connections that ever exist
  PeerID,              \* the ids handshakes carry
  IdOf,                \* the id in the handshake of each connection
  Incoming,            \* the connections the remote side opens
  Info,                \* length and piece length of the metainfo
  maxPeers,
  maxPendingPerPeer,
  peerWriteQueueSize,
  Kinds,               \* the message kinds remote sides send
  BadData,             \* whether a Piece message may carry wrong bytes: subset of BOOLEAN
  DiskFaults,          \* whether WriteAt may fail
  MaxRuns,             \* bound: how often RunDownload is called
  None                 \* no peer

MessageKind == { "KeepAlive", "Choke", "Unchoke", "Interested", "NotInterested",
                 "Have", "Bitfield", "Request", "CancelRequest", "Piece" }

ASSUME IdOfAssumption    == IdOf \in [Peer -> PeerID]
ASSUME IncomingAssumption == Incoming \subseteq Peer
ASSUME NoneAssumption    == None \notin Peer
ASSUME LimitsAssumption  == /\ maxPeers \in Nat
                            /\ maxPendingPerPeer \in Nat
                            /\ peerWriteQueueSize \in Nat \ {0}
ASSUME BoundsAssumption  == /\ Kinds \subseteq MessageKind
                            /\ BadData \subseteq BOOLEAN
                            /\ DiskFaults \in BOOLEAN
                            /\ MaxRuns \in Nat

Piece       == 0 .. Count(Info) - 1
Block       == BlockRequests(Info)
BlocksOf(i) == { b \in Block : b.PieceIndex = i }

VARIABLES
  pc,             \* where the run is: "stopped" is no run
  cur,            \* the peer whose message is being handled, in "broadcast" and "fill"
  todo,           \* the peers a broadcast has still to reach
  peers,          \* t.peers: the connection active under each id
  pending,        \* t.pending: the connection each block was asked from
  conn,           \* each connection: not made yet, open, closed by this side
  arriving,       \* connections AcceptIncomingPeer offers to the loop
  reader,         \* each readLoop: in ReadMessage, offering an event, returned
  writer,         \* each writeLoop: at its select or in WriteMessage, offering, returned
  qlen,           \* len(peer.outgoing)
  PeerChoking, AmInterested, AmChoking, PeerInterested,   \* peer.state, as sets of peers
  bitfield,       \* the pieces each peer claims to have
  complete,       \* pieces with Complete set
  received,       \* blocks held in memory: Received set, in pieces not complete
  corrupt,        \* those of them whose bytes are wrong
  good,           \* pieces whose bytes in the file are right
  fileOpen,       \* t.file # nil
  cancelled,      \* the context of the current run is done
  expired,        \* peers whose goroutines belong to a run that is over
  runs            \* calls of RunDownload so far

loop    == <<pc, cur, todo>>
table   == <<peers, pending>>
tasks   == <<reader, writer, qlen>>
flags   == <<PeerChoking, AmInterested, AmChoking, PeerInterested, bitfield>>
pieces  == <<complete, received, corrupt, good>>
life    == <<cancelled, expired, runs>>
vars    == <<loop, table, conn, arriving, tasks, flags, pieces, fileOpen, life>>

TypeOK ==
  /\ pc \in { "stopped", "start", "connect", "select", "broadcast", "fill", "return" }
  /\ cur \in Peer \cup {None}
  /\ todo \subseteq Peer
  /\ peers \in [PeerID -> Peer \cup {None}]
  /\ pending \in [Block -> Peer \cup {None}]
  /\ conn \in [Peer -> { "new", "open", "closed" }]
  /\ arriving \subseteq Peer
  /\ reader \in [Peer -> { "none", "reading", "message", "error", "done" }]
  /\ writer \in [Peer -> { "none", "running", "error", "done" }]
  /\ qlen \in [Peer -> 0 .. peerWriteQueueSize]
  /\ PeerChoking \subseteq Peer /\ AmInterested \subseteq Peer
  /\ AmChoking \subseteq Peer /\ PeerInterested \subseteq Peer
  /\ bitfield \in [Peer -> SUBSET Piece]
  /\ complete \subseteq Piece /\ good \subseteq Piece
  /\ received \subseteq Block /\ corrupt \subseteq Block
  /\ fileOpen \in BOOLEAN /\ cancelled \in BOOLEAN
  /\ expired \subseteq Peer
  /\ runs \in Nat

\* A torrent fresh from OpenDownload, or from OpenSeed, which checks every piece.
Init ==
  /\ pc = "stopped" /\ cur = None /\ todo = {}
  /\ peers = [id \in PeerID |-> None]
  /\ pending = [b \in Block |-> None]
  /\ conn = [p \in Peer |-> "new"]
  /\ arriving = {}
  /\ reader = [p \in Peer |-> "none"]
  /\ writer = [p \in Peer |-> "none"]
  /\ qlen = [p \in Peer |-> 0]
  /\ PeerChoking = Peer /\ AmChoking = Peer
  /\ AmInterested = {} /\ PeerInterested = {}
  /\ bitfield = [p \in Peer |-> {}]
  /\ complete \in { {}, Piece } /\ good = complete
  /\ received = {} /\ corrupt = {}
  /\ fileOpen = TRUE
  /\ cancelled = FALSE /\ expired = {}
  /\ runs = 0

-----------------------------------------------------------------------------
(* The peer table and the outstanding requests.                            *)

\* The connection itself is active, not merely another one with its id.
hasPeer(p) == peers[IdOf[p]] = p

ActivePeers == { p \in Peer : hasPeer(p) }

pendingCount(p) == Cardinality({ b \in Block : pending[b] = p })

Released_none(p) == pending
Released_all(p)  == [b \in Block |-> None]

\* releasePendingRequests: pending without the requests to p.
Released(p) == [b \in Block |-> IF pending[b] = p THEN None ELSE pending[b]]

Unlisted_byId(p) == [peers EXCEPT ![IdOf[p]] = None]
Unlisted_never(p) == peers

\* peers without p; another connection under the same id stays.
Unlisted(p) == IF hasPeer(p) THEN [peers EXCEPT ![IdOf[p]] = None] ELSE peers

removePeer(p) == /\ pending' = Released(p)
                 /\ peers' = Unlisted(p)
                 /\ conn' = [conn EXCEPT ![p] = "closed"]

\* sendMessage on a queue with room, and on a full one.
Room(p)     == qlen[p] < peerWriteQueueSize
Enqueued(p) == [qlen EXCEPT ![p] = @ + 1]

\* activatePeer's conditions: a free place, and no connection with this id.
Acceptable(p) ==
  /\ Cardinality({ id \in PeerID : peers[id] # None }) < maxPeers
  /\ peers[IdOf[p]] = None

activatePeer_leak(p) ==
  /\ IF Acceptable(p)
       THEN /\ peers' = [peers EXCEPT ![IdOf[p]] = p]
            /\ conn' = [conn EXCEPT ![p] = "open"]
            /\ reader' = [reader EXCEPT ![p] = "reading"]
            /\ writer' = [writer EXCEPT ![p] = "running"]
            /\ qlen' = Enqueued(p)
            /\ expired' = expired \ {p}
       ELSE /\ conn' = [conn EXCEPT ![p] = "open"]
            /\ UNCHANGED <<peers, tasks, expired>>
  /\ UNCHANGED pending

\* activatePeer and, when it refuses, its callers' closePeer.  A fresh queue
\* has room for the Bitfield message.
activatePeer(p) ==
  /\ IF Acceptable(p)
       THEN /\ peers' = [peers EXCEPT ![IdOf[p]] = p]
            /\ conn' = [conn EXCEPT ![p] = "open"]
            /\ reader' = [reader EXCEPT ![p] = "reading"]
            /\ writer' = [writer EXCEPT ![p] = "running"]
            /\ qlen' = Enqueued(p)
            /\ expired' = expired \ {p}
       ELSE /\ conn' = [conn EXCEPT ![p] = "closed"]
            /\ UNCHANGED <<peers, tasks, expired>>
  /\ UNCHANGED pending

-----------------------------------------------------------------------------
(* A run: RunDownload, its callers and the tracker.                        *)

BeginRun ==
  /\ pc = "stopped" /\ runs < MaxRuns
  /\ pc' = "start" /\ runs' = runs + 1
  /\ UNCHANGED <<cur, todo, table, conn, arriving, tasks, flags, pieces, fileOpen,
                 cancelled, expired>>

\* The first announce ends the run when it fails.
Announced ==
  /\ pc = "start"
  /\ pc' = "connect"
  /\ UNCHANGED <<cur, todo, table, conn, arriving, tasks, flags, pieces, fileOpen, life>>

AnnounceFailed ==
  /\ pc = "start"
  /\ pc' = "return" /\ cancelled' = TRUE
  /\ UNCHANGED <<cur, todo, table, conn, arriving, tasks, flags, pieces, fileOpen,
                 expired, runs>>

\* The timer fires and the tracker answers; a failed announce changes nothing.
Reannounce ==
  /\ pc = "select"
  /\ pc' = "connect"
  /\ UNCHANGED <<cur, todo, table, conn, arriving, tasks, flags, pieces, fileOpen, life>>

\* connectTrackerPeers: one candidate that answered the handshake.
ConnectPeer(p) ==
  /\ pc = "connect" /\ p \notin Incoming /\ conn[p] = "new"
  /\ Cardinality({ id \in PeerID : peers[id] # None }) < maxPeers
  /\ activatePeer(p)
  /\ UNCHANGED <<loop, arriving, flags, pieces, fileOpen, cancelled, runs>>

\* No candidate left, or no place.
ConnectDone ==
  /\ pc = "connect"
  /\ pc' = "select"
  /\ UNCHANGED <<cur, todo, table, conn, arriving, tasks, flags, pieces, fileOpen, life>>

\* The caller's context, or Close, cancels the run.
Cancel ==
  /\ pc # "stopped" /\ ~cancelled
  /\ cancelled' = TRUE
  /\ UNCHANGED <<loop, table, conn, arriving, tasks, flags, pieces, fileOpen,
                 expired, runs>>

StopRun_drained ==
  /\ pc = "select" /\ cancelled /\ ActivePeers = {}
  /\ pc' = "return"
  /\ UNCHANGED <<cur, todo, table, conn, arriving, tasks, flags, pieces, fileOpen, life>>

StopRun ==
  /\ pc = "select" /\ cancelled
  /\ pc' = "return"
  /\ UNCHANGED <<cur, todo, table, conn, arriving, tasks, flags, pieces, fileOpen, life>>

FinishRun_noClose ==
  /\ pc = "return"
  /\ pc' = "stopped"
  /\ peers' = [id \in PeerID |-> None]
  /\ pending' = [b \in Block |-> None]
  /\ fileOpen' = FALSE
  /\ cancelled' = FALSE
  /\ expired' = expired \cup { p \in Peer : reader[p] # "none" } \cup arriving
  /\ UNCHANGED <<cur, todo, conn, arriving, tasks, flags, pieces, runs>>

\* finishRun: closePeers, closeFile, and done is closed.
FinishRun ==
  /\ pc = "return"
  /\ pc' = "stopped"
  /\ peers' = [id \in PeerID |-> None]
  /\ pending' = [b \in Block |-> None]
  /\ conn' = [p \in Peer |-> IF hasPeer(p) THEN "closed" ELSE conn[p]]
  /\ fileOpen' = FALSE
  /\ cancelled' = FALSE
  /\ expired' = expired \cup { p \in Peer : reader[p] # "none" } \cup arriving
  /\ UNCHANGED <<cur, todo, arriving, tasks, flags, pieces, runs>>

\* Close on a torrent that is not running.
CloseIdle ==
  /\ pc = "stopped" /\ fileOpen
  /\ fileOpen' = FALSE
  /\ UNCHANGED <<loop, table, conn, arriving, tasks, flags, pieces, life>>

-----------------------------------------------------------------------------
(* Incoming connections: AcceptIncomingPeer and its caller.                *)

\* running was read as true and the handshakes were exchanged.
OfferPeer(p) ==
  /\ pc # "stopped" /\ p \in Incoming /\ conn[p] = "new"
  /\ conn' = [conn EXCEPT ![p] = "open"]
  /\ arriving' = arriving \cup {p}
  /\ UNCHANGED <<loop, table, tasks, flags, pieces, fileOpen, life>>

\* The caller closes a connection that AcceptIncomingPeer could not hand over.
Abandon(p) ==
  /\ p \in arriving
  /\ arriving' = arriving \ {p}
  /\ conn' = [conn EXCEPT ![p] = "closed"]
  /\ UNCHANGED <<loop, table, tasks, flags, pieces, fileOpen, life>>

\* done is closed (a later run may have begun), or the listener's context is done.
OfferStopped(p)   == p \in expired /\ Abandon(p)
OfferCancelled(p) == Abandon(p)

PeerArrived(p) ==
  /\ pc = "select" /\ p \in arriving
  /\ arriving' = arriving \ {p}
  /\ activatePeer(p)
  /\ UNCHANGED <<loop, flags, pieces, fileOpen, cancelled, runs>>

-----------------------------------------------------------------------------
(* The goroutines of a peer.                                               *)

\* ctx.Done() of the run that started p's goroutines.
ContextDone(p) == p \in expired \/ cancelled

ReadMessage(p) ==
  /\ reader[p] = "reading" /\ conn[p] = "open"
  /\ reader' = [reader EXCEPT ![p] = "message"]
  /\ UNCHANGED <<loop, table, conn, arriving, writer, qlen, flags, pieces, fileOpen, life>>

\* The remote side went away, wrote garbage, or this side closed the connection.
ReadFailed(p) ==
  /\ reader[p] = "reading"
  /\ reader' = [reader EXCEPT ![p] = "error"]
  /\ UNCHANGED <<loop, table, conn, arriving, writer, qlen, flags, pieces, fileOpen, life>>

ReaderQuits(p) ==
  /\ reader[p] \in { "message", "error" } /\ ContextDone(p)
  /\ reader' = [reader EXCEPT ![p] = "done"]
  /\ UNCHANGED <<loop, table, conn, arriving, writer, qlen, flags, pieces, fileOpen, life>>

\* The writer takes a message; the write that follows takes its time.
Dequeue(p) ==
  /\ writer[p] = "running" /\ qlen[p] > 0
  /\ qlen' = [qlen EXCEPT ![p] = @ - 1]
  /\ UNCHANGED <<loop, table, conn, arriving, reader, writer, flags, pieces, fileOpen, life>>

WriteFailed(p) ==
  /\ writer[p] = "running"
  /\ writer' = [writer EXCEPT ![p] = "error"]
  /\ UNCHANGED <<loop, table, conn, arriving, reader, qlen, flags, pieces, fileOpen, life>>

WriterQuits(p) ==
  /\ writer[p] \in { "running", "error" } /\ ContextDone(p)
  /\ writer' = [writer EXCEPT ![p] = "done"]
  /\ UNCHANGED <<loop, table, conn, arriving, reader, qlen, flags, pieces, fileOpen, life>>

-----------------------------------------------------------------------------
(* handlePeerEvent: disconnections, and messages of peers already gone.    *)

ReaderDisconnected(p) ==
  /\ pc = "select" /\ reader[p] = "error"
  /\ reader' = [reader EXCEPT ![p] = "done"]
  /\ removePeer(p)
  /\ UNCHANGED <<loop, arriving, writer, qlen, flags, pieces, fileOpen, life>>

WriterDisconnected(p) ==
  /\ pc = "select" /\ writer[p] = "error"
  /\ writer' = [writer EXCEPT ![p] = "done"]
  /\ removePeer(p)
  /\ UNCHANGED <<loop, arriving, reader, qlen, flags, pieces, fileOpen, life>>

StaleMessage(p) ==
  /\ pc = "select" /\ reader[p] = "message" /\ ~hasPeer(p)
  /\ reader' = [reader EXCEPT ![p] = "reading"]
  /\ UNCHANGED <<loop, table, conn, arriving, writer, qlen, flags, pieces, fileOpen, life>>

-----------------------------------------------------------------------------
(* handleProtocolMessage.                                                  *)

\* The loop takes a message of this kind from p's reader.
Gets(p, kind) ==
  /\ kind \in Kinds
  /\ pc = "select" /\ reader[p] = "message" /\ hasPeer(p)
  /\ reader' = [reader EXCEPT ![p] = "reading"]

Ignored(p) ==
  /\ \E kind \in { "KeepAlive", "CancelRequest" } : Gets(p, kind)
  /\ UNCHANGED <<loop, table, conn, arriving, writer, qlen, flags, pieces, fileOpen, life>>

Choke(p) ==
  /\ Gets(p, "Choke")
  /\ PeerChoking' = PeerChoking \cup {p}
  /\ pending' = Released(p)
  /\ UNCHANGED <<loop, peers, conn, arriving, writer, qlen, AmInterested, AmChoking,
                 PeerInterested, bitfield, pieces, fileOpen, life>>

Unchoke_idle(p) ==
  /\ Gets(p, "Unchoke")
  /\ PeerChoking' = PeerChoking \ {p}
  /\ pc' = "select" /\ cur' = None
  /\ UNCHANGED <<todo, table, conn, arriving, writer, qlen, AmInterested, AmChoking,
                 PeerInterested, bitfield, pieces, fileOpen, life>>

Unchoke(p) ==
  /\ Gets(p, "Unchoke")
  /\ PeerChoking' = PeerChoking \ {p}
  /\ pc' = "fill" /\ cur' = p
  /\ UNCHANGED <<todo, table, conn, arriving, writer, qlen, AmInterested, AmChoking,
                 PeerInterested, bitfield, pieces, fileOpen, life>>

Interested_lost(p) ==
  /\ Gets(p, "Interested")
  /\ PeerInterested' = PeerInterested \cup {p}
  /\ qlen' = IF p \in AmChoking /\ Room(p) THEN Enqueued(p) ELSE qlen
  /\ AmChoking' = IF Room(p) THEN AmChoking \ {p} ELSE AmChoking
  /\ UNCHANGED <<loop, table, conn, arriving, writer, PeerChoking, AmInterested, bitfield,
                 pieces, fileOpen, life>>

\* Everyone who asks is unchoked, once.
Interested(p) ==
  /\ Gets(p, "Interested")
  /\ PeerInterested' = PeerInterested \cup {p}
  /\ IF p \in AmChoking /\ ~Room(p)
       THEN removePeer(p) /\ UNCHANGED <<qlen, AmChoking>>
       ELSE /\ qlen' = IF p \in AmChoking THEN Enqueued(p) ELSE qlen
            /\ AmChoking' = AmChoking \ {p}
            /\ UNCHANGED <<table, conn>>
  /\ UNCHANGED <<loop, arriving, writer, PeerChoking, AmInterested, bitfield,
                 pieces, fileOpen, life>>

NotInterested(p) ==
  /\ Gets(p, "NotInterested")
  /\ PeerInterested' = PeerInterested \ {p}
  /\ UNCHANGED <<loop, table, conn, arriving, writer, qlen, PeerChoking, AmInterested,
                 AmChoking, bitfield, pieces, fileOpen, life>>

\* The peer now claims to have bits: updateInterest, then fillRequestWindow.
Claims(p, bits) ==
  LET wanted  == bits \ complete # {}
      changed == wanted # (p \in AmInterested)
  IN  /\ bitfield' = [bitfield EXCEPT ![p] = bits]
      /\ IF changed /\ ~Room(p)
           THEN removePeer(p) /\ UNCHANGED <<loop, qlen, AmInterested>>
           ELSE /\ qlen' = IF changed THEN Enqueued(p) ELSE qlen
                /\ AmInterested' = IF wanted THEN AmInterested \cup {p}
                                             ELSE AmInterested \ {p}
                /\ pc' = "fill" /\ cur' = p
                /\ UNCHANGED <<todo, table, conn>>
      /\ UNCHANGED <<arriving, writer, PeerChoking, AmChoking, PeerInterested,
                     pieces, fileOpen, life>>

Have(p)     == Gets(p, "Have") /\ \E i \in Piece : Claims(p, bitfield[p] \cup {i})
Bitfield(p) == Gets(p, "Bitfield") /\ \E bits \in SUBSET Piece : Claims(p, bits)

\* serveBlock: silence while choking, an error for what cannot be read.
Servable == { b \in Block : fileOpen /\ b.PieceIndex \in complete }

Request(p) ==
  /\ Gets(p, "Request")
  /\ \/ p \in AmChoking /\ UNCHANGED <<table, conn, qlen>>
     \/ p \notin AmChoking /\ Servable # {} /\ Room(p)
        /\ qlen' = Enqueued(p) /\ UNCHANGED <<table, conn>>
     \/ p \notin AmChoking /\ removePeer(p) /\ UNCHANGED qlen
  /\ UNCHANGED <<loop, arriving, writer, flags, pieces, fileOpen, life>>

-----------------------------------------------------------------------------
(* A Piece message: receiveBlock, StoreBlock, VerifyAndWrite.              *)

\* No request to p for this block is outstanding.
UnexpectedBlock(p) ==
  /\ Gets(p, "Piece")
  /\ removePeer(p)
  /\ UNCHANGED <<loop, arriving, writer, qlen, flags, pieces, fileOpen, life>>

\* p answers a request for b; bad tells whether the bytes are wrong.
Answers(p, b, bad) == Gets(p, "Piece") /\ pending[b] = p /\ bad \in BadData

Stored_fresh(b) == {b}

\* StoreBlock: b joins the blocks in memory.
Stored(b) == received \cup {b}

Corrupt(b, bad) == IF bad THEN corrupt \cup {b} ELSE corrupt

\* allBlocksReceived, once b is in.
Assembled(b) == BlocksOf(b.PieceIndex) \subseteq Stored(b)

\* What goes from memory when the piece of b does: all of its buffer.
Dropped(b) == BlocksOf(b.PieceIndex)

HashMatches_unchecked(b, bad) == TRUE

HashMatches(b, bad) == Corrupt(b, bad) \cap BlocksOf(b.PieceIndex) = {}

BlockStored(p, b, bad) ==
  /\ Answers(p, b, bad) /\ ~Assembled(b)
  /\ received' = Stored(b)
  /\ corrupt' = Corrupt(b, bad)
  /\ pending' = [pending EXCEPT ![b] = None]
  /\ pc' = "fill" /\ cur' = p
  /\ UNCHANGED <<todo, peers, conn, arriving, writer, qlen, flags, complete, good,
                 fileOpen, life>>

\* The file is closed, or WriteAt fails and may leave part of the piece
\* behind: the piece stays in memory, assembled and not complete.
PieceNotWritten(p, b, bad) ==
  /\ Answers(p, b, bad) /\ Assembled(b)
  /\ \/ ~fileOpen /\ UNCHANGED good
     \/ fileOpen /\ HashMatches(b, bad) /\ DiskFaults /\ good' = good \ {b.PieceIndex}
  /\ received' = Stored(b)
  /\ corrupt' = Corrupt(b, bad)
  /\ removePeer(p)
  /\ UNCHANGED <<loop, arriving, writer, qlen, flags, complete, fileOpen, life>>

\* The piece is dropped, and so is the peer that sent its last block.
PieceMismatch(p, b, bad) ==
  /\ Answers(p, b, bad) /\ Assembled(b) /\ fileOpen /\ ~HashMatches(b, bad)
  /\ received' = received \ Dropped(b)
  /\ corrupt' = corrupt \ Dropped(b)
  /\ removePeer(p)
  /\ UNCHANGED <<loop, arriving, writer, qlen, flags, complete, good, fileOpen, life>>

\* Bytes are right on disk only when they were right in memory.
Written(b, bad) == IF Corrupt(b, bad) \cap BlocksOf(b.PieceIndex) = {}
                     THEN good \cup {b.PieceIndex}
                     ELSE good \ {b.PieceIndex}

PieceVerified(p, b, bad) ==
  /\ Answers(p, b, bad) /\ Assembled(b) /\ fileOpen /\ HashMatches(b, bad)
  /\ complete' = complete \cup {b.PieceIndex}
  /\ good' = Written(b, bad)
  /\ received' = received \ Dropped(b)
  /\ corrupt' = corrupt \ Dropped(b)
  /\ pending' = [pending EXCEPT ![b] = None]
  /\ pc' = "broadcast" /\ cur' = p /\ todo' = ActivePeers
  /\ UNCHANGED <<peers, conn, arriving, writer, qlen, flags, fileOpen, life>>

-----------------------------------------------------------------------------
(* broadcastMessage(Have), one peer at a time, in any order.               *)

BroadcastSend(q) ==
  /\ pc = "broadcast" /\ q \in todo /\ Room(q)
  /\ todo' = todo \ {q}
  /\ qlen' = Enqueued(q)
  /\ UNCHANGED <<pc, cur, table, conn, arriving, reader, writer, flags, pieces, fileOpen, life>>

BroadcastDrop(q) ==
  /\ pc = "broadcast" /\ q \in todo /\ ~Room(q)
  /\ todo' = todo \ {q}
  /\ removePeer(q)
  /\ UNCHANGED <<pc, cur, arriving, tasks, flags, pieces, fileOpen, life>>

BroadcastDone ==
  /\ pc = "broadcast" /\ todo = {}
  /\ pc' = "fill"
  /\ UNCHANGED <<cur, todo, table, conn, arriving, tasks, flags, pieces, fileOpen, life>>

-----------------------------------------------------------------------------
(* fillRequestWindow(cur), one request at a time.                          *)

Missing_refetch(p) == { b \in Block : /\ b.PieceIndex \in bitfield[p] \ complete
                                      /\ pending[b] = None }
Missing_steal(p)   == { b \in Block : /\ b.PieceIndex \in bitfield[p] \ complete
                                      /\ b \notin received
                                      /\ pending[b] # p }

\* The blocks reserveNextRequest may reserve for p.
Missing(p) == { b \in Block : /\ b.PieceIndex \in bitfield[p] \ complete
                              /\ b \notin received
                              /\ pending[b] = None }

\* Pieces in order, and blocks in order within a piece.
Precedes(b, c) == \/ b.PieceIndex < c.PieceIndex
                  \/ b.PieceIndex = c.PieceIndex /\ b.Begin <= c.Begin

NextRequest(p) == { b \in Missing(p) : \A c \in Missing(p) : Precedes(b, c) }

\* The download mode is never paused (TorrentControl), so it closes no window.
WindowOpen(p) == /\ p \notin PeerChoking /\ p \in AmInterested
                 /\ pendingCount(p) < maxPendingPerPeer

FillSend(b) ==
  /\ pc = "fill" /\ WindowOpen(cur) /\ b \in NextRequest(cur) /\ Room(cur)
  /\ pending' = [pending EXCEPT ![b] = cur]
  /\ qlen' = Enqueued(cur)
  /\ UNCHANGED <<loop, peers, conn, arriving, reader, writer, flags, pieces, fileOpen, life>>

\* The reservation is undone and the error removes the peer.
FillFull ==
  /\ pc = "fill" /\ WindowOpen(cur) /\ Missing(cur) # {} /\ ~Room(cur)
  /\ pc' = "select" /\ cur' = None
  /\ removePeer(cur)
  /\ UNCHANGED <<todo, arriving, tasks, flags, pieces, fileOpen, life>>

FillDone ==
  /\ pc = "fill" /\ (~WindowOpen(cur) \/ Missing(cur) = {})
  /\ pc' = "select" /\ cur' = None
  /\ UNCHANGED <<todo, table, conn, arriving, tasks, flags, pieces, fileOpen, life>>

-----------------------------------------------------------------------------
Messages(p) ==
  \/ Ignored(p) \/ Choke(p) \/ Unchoke(p) \/ Interested(p) \/ NotInterested(p)
  \/ Have(p) \/ Bitfield(p) \/ Request(p) \/ UnexpectedBlock(p)
  \/ \E b \in Block, bad \in BadData :
       \/ BlockStored(p, b, bad) \/ PieceNotWritten(p, b, bad)
       \/ PieceMismatch(p, b, bad) \/ PieceVerified(p, b, bad)

Goroutines(p) ==
  \/ ReadMessage(p) \/ ReadFailed(p) \/ ReaderQuits(p)
  \/ Dequeue(p) \/ WriteFailed(p) \/ WriterQuits(p)
  \/ OfferPeer(p) \/ OfferStopped(p) \/ OfferCancelled(p)

Events(p) == PeerArrived(p) \/ ReaderDisconnected(p) \/ WriterDisconnected(p) \/ StaleMessage(p)

Handling ==
  \/ \E q \in Peer : BroadcastSend(q) \/ BroadcastDrop(q)
  \/ BroadcastDone
  \/ \E b \in Block : FillSend(b)
  \/ FillFull \/ FillDone

Run == \/ BeginRun \/ Announced \/ AnnounceFailed \/ Reannounce \/ ConnectDone
       \/ Cancel \/ StopRun \/ FinishRun \/ CloseIdle
       \/ \E p \in Peer : ConnectPeer(p)

Next == \/ Run \/ Handling
        \/ \E p \in Peer : Messages(p) \/ Goroutines(p) \/ Events(p)

Spec == Init /\ [][Next]_vars

-----------------------------------------------------------------------------
(* Correctness.                                                            *)

(***************************************************************************)
(* Only verified content is ever advertised or served: a piece marked      *)
(* Complete (which Bitfield, Have and serveBlock rely on) has the right    *)
(* bytes in the file, through corrupt blocks, failed writes and restarts.  *)
(***************************************************************************)
CompleteVerified == complete \subseteq good

(***************************************************************************)
(* StoreBlock is never called for a block that is already held or whose    *)
(* piece is complete.  In the second case it would index the nil slice     *)
(* Received and panic: an outstanding request must never outlive the need  *)
(* for its block.                                                          *)
(***************************************************************************)
StoreBlockSafe ==
  \A b \in Block : pending[b] # None => b \notin received /\ b.PieceIndex \notin complete

(***************************************************************************)
(* No request is orphaned: whoever owns an outstanding request still has a *)
(* reader that will report its disconnection (and so release the request), *)
(* unless the run is being torn down.  This includes the requests that     *)
(* fillRequestWindow makes for a peer which the preceding broadcast has    *)
(* just removed.                                                           *)
(***************************************************************************)
PendingHasReader ==
  \A b \in Block : pending[b] # None =>
    reader[pending[b]] \in { "reading", "message", "error" } \/ cancelled

(***************************************************************************)
(* No connection leaks: one that this side has not closed is in the peer   *)
(* table or still being offered to it, so that some later step (a          *)
(* disconnection, finishRun, the offer's failure) closes it.               *)
(***************************************************************************)
NoLeakedConnection ==
  \A p \in Peer : conn[p] = "open" => hasPeer(p) \/ p \in arriving

(***************************************************************************)
(* No dead peer keeps one of the maxPeers places: while the run goes on,   *)
(* an active peer has a live reader and an open connection, even when a    *)
(* peer of the same id, of this run or an earlier one, left before.        *)
(***************************************************************************)
ActiveHasReader ==
  \A p \in Peer : hasPeer(p) =>
    /\ conn[p] = "open"
    /\ reader[p] \in { "reading", "message", "error" } \/ cancelled

(***************************************************************************)
(* A request is given up only for a reason of its own: in one step it goes *)
(* from a peer to nobody only if its block arrived, its peer is closed or  *)
(* its peer chokes.  No event of another peer, of the same id or of an     *)
(* earlier run, releases it, and no step hands it to another peer.         *)
(***************************************************************************)
RequestKept ==
  [][\A b \in Block : pending[b] # None /\ pending'[b] # pending[b] =>
       /\ pending'[b] = None
       /\ \/ b \in received' \/ b.PieceIndex \in complete'
          \/ conn'[pending[b]] = "closed"
          \/ pending[b] \in PeerChoking']_vars

(***************************************************************************)
(* What the loop holds is lost only by a failed hash check: a verified     *)
(* piece stays verified, and a received block goes only with its whole     *)
(* piece, when the piece becomes complete or when the hash check fails and *)
(* the peer that sent the last block is dropped for it.                    *)
(***************************************************************************)
ProgressKept ==
  [][/\ complete \subseteq complete'
     /\ \A b \in received \ received' :
          /\ BlocksOf(b.PieceIndex) \cap received' = {}
          /\ \/ b.PieceIndex \in complete'
             \/ \E p \in ActivePeers : conn'[p] = "closed"]_vars

(***************************************************************************)
(* Everyone who declared interest is served: an active peer whose          *)
(* Interested was handled is unchoked, or was dropped because the Unchoke  *)
(* did not fit its queue.                                                  *)
(***************************************************************************)
InterestedUnchoked ==
  \A p \in PeerInterested : hasPeer(p) => p \notin AmChoking

(***************************************************************************)
(* The loop, with its peers, queues, goroutines and runs, handles blocks   *)
(* as BlockLedger says.                                                    *)
(***************************************************************************)
Ledger == INSTANCE BlockLedger WITH owner <- pending, held <- received, verified <- complete
LedgerSpec == Ledger!LSpec

-----------------------------------------------------------------------------
(* Why the invariants hold: the invariant that every step preserves.       *)

\* p was activated in the current run, and its reader still answers for it.
InRun(p) == /\ conn[p] # "new" /\ p \notin arriving /\ p \notin expired
            /\ reader[p] \in { "reading", "message", "error" } \/ cancelled

TableInv   == \A p \in Peer : hasPeer(p) => InRun(p) /\ conn[p] = "open"
PendingInv == \A b \in Block : pending[b] # None => InRun(pending[b])
HandlerInv == /\ pc \in { "broadcast", "fill" } => cur \in Peer /\ InRun(cur)
              /\ \A q \in todo : conn[q] # "new" /\ q \notin arriving
FreshInv   == /\ \A p \in Peer : conn[p] = "new" \/ p \in arriving => qlen[p] = 0
              /\ \A p \in arriving : conn[p] # "new"

(***************************************************************************)
(* The inductive invariant.  What it adds to the properties above is that  *)
(* whoever is in the table, owns a request or is being handled belongs to  *)
(* the current run (InRun): a context that is done is then the current     *)
(* one, which is why a reader of an earlier run may quit without reporting *)
(* anything and a reader of this run may not.                              *)
(***************************************************************************)
Inv == /\ TypeOK
       /\ TableInv /\ PendingInv /\ HandlerInv /\ FreshInv
       /\ StoreBlockSafe /\ CompleteVerified /\ NoLeakedConnection

-----------------------------------------------------------------------------
(* Liveness.                                                               *)
(*                                                                         *)
(* Handlers return and goroutines that can move do.  The select of the     *)
(* loop picks among its ready cases at random, and a goroutine waiting to  *)
(* send an event stays in the channel's queue, so a case that is ready     *)
(* again and again is taken: strong fairness.  Nothing is assumed of the   *)
(* remote sides, not even that connectTrackerPeers gets an answer to the   *)
(* handshake it waits for; reads and writes on a connection closed by this *)
(* side fail; a cancelled announce returns.                                *)

Fairness ==
  /\ WF_vars(Handling) /\ WF_vars(cancelled /\ AnnounceFailed)
  /\ SF_vars(StopRun) /\ WF_vars(FinishRun)
  /\ \A p \in Peer :
       /\ WF_vars(conn[p] = "closed" /\ ReadFailed(p))
       /\ WF_vars(ReaderQuits(p)) /\ WF_vars(WriterQuits(p))
       /\ WF_vars(OfferStopped(p))
       /\ SF_vars(ReaderDisconnected(p)) /\ SF_vars(StaleMessage(p))

FairSpec == Spec /\ Fairness

(***************************************************************************)
(* Cancelling a run ends it: whatever the peers still send, the loop comes *)
(* to its ctx.Done() case and RunDownload returns, unless a candidate it   *)
(* has dialled never answers the handshake and never hangs up: that read   *)
(* has no deadline and no context, and keeps the loop in                   *)
(* connectTrackerPeers, and a Close waiting for it, for ever.              *)
(***************************************************************************)
CancelStops == cancelled ~> pc = "stopped" \/ [](pc = "connect")

(***************************************************************************)
(* Every goroutine of a finished run returns, those still waiting to hand  *)
(* an incoming connection over included, unless a later run takes that     *)
(* connection on.                                                          *)
(***************************************************************************)
GoroutinesReturn ==
  \A p \in Peer :
    p \in expired ~> \/ p \notin expired
                     \/ /\ p \notin arriving
                        /\ reader[p] \in { "none", "done" }
                        /\ writer[p] \in { "none", "done" }
=============================================================================
