------------------------------- MODULE Client -------------------------------
(***************************************************************************)
(* The process-level client (client/client.go): the table of registered    *)
(* torrents behind mu, calls of RegisterTorrent, StartTorrentDownload and  *)
(* UnregisterTorrent from different goroutines, and ServePeers with one    *)
(* handler goroutine per incoming connection.                              *)
(*                                                                         *)
(* A torrent is reduced to what the client sees of it: whether it is       *)
(* between beginRun and finishRun (TorrentControl has the details) and     *)
(* whether its context is done.  peerEvents is unbuffered: an offered      *)
(* connection changes hands when the loop takes it.                        *)
(***************************************************************************)
EXTENDS Naturals

CONSTANTS
  Torrent, InfoHash,
  HashOf,      \* the info hash of each torrent
  Starter,     \* calls of StartTorrentDownload
  StartOf,     \* the info hash each asks for
  Remover,     \* calls of UnregisterTorrent
  RemoveOf,    \* the info hash each asks for
  Conn,        \* incoming connections
  WantOf,      \* the info hash in the handshake of each
  None

ASSUME ClientAssumption ==
  /\ HashOf \in [Torrent -> InfoHash] /\ WantOf \in [Conn -> InfoHash]
  /\ StartOf \in [Starter -> InfoHash] /\ RemoveOf \in [Remover -> InfoHash]
  /\ None \notin Torrent /\ None \notin Starter

VARIABLES
  torrents,   \* c.torrents
  running,    \* the torrents between beginRun and finishRun
  stopping,   \* those of them whose context is done
  starter, found,    \* where each StartTorrentDownload is, and the torrent it looked up
  remover, removed,  \* where each UnregisterTorrent is, and the torrent it took out
  awaited,    \* the run whose done channel its Close waits for
  ctxDone,    \* the context of ServePeers is done
  listening,  \* the listener is open
  serve,      \* where ServePeers is
  pending,    \* the connections in its map pending
  handler,    \* where each connection's goroutine is
  route,      \* the torrent each handler looked up
  seen,       \* the run whose done channel each handler holds
  sockets,    \* the connections that are open
  owned       \* the connections a torrent's loop has taken

registry == <<torrents, running, stopping, starter, found, remover, removed, awaited>>
serving  == <<ctxDone, listening, serve, pending, handler, route, seen, sockets, owned>>
vars     == <<registry, serving>>

TypeOK ==
  /\ torrents \in [InfoHash -> Torrent \cup {None}]
  /\ running \subseteq Torrent /\ stopping \subseteq running
  /\ starter \in [Starter -> { "idle", "found", "running", "returned" }]
  /\ found \in [Starter -> Torrent \cup {None}]
  /\ remover \in [Remover -> { "idle", "removed", "waiting", "returned" }]
  /\ removed \in [Remover -> Torrent \cup {None}]
  /\ awaited \in [Remover -> Starter \cup {None}]
  /\ ctxDone \in BOOLEAN /\ listening \in BOOLEAN
  /\ serve \in { "accepting", "closing", "waiting", "returned" }
  /\ pending \subseteq Conn /\ sockets \subseteq Conn /\ owned \subseteq Conn
  /\ handler \in [Conn -> { "none", "reading", "found", "offering", "failed", "leaving", "done",
                         "gone" }]
  /\ route \in [Conn -> Torrent \cup {None}] /\ seen \in [Conn -> Starter \cup {None}]

Init ==
  /\ torrents = [h \in InfoHash |-> None] /\ running = {} /\ stopping = {}
  /\ starter = [s \in Starter |-> "idle"] /\ found = [s \in Starter |-> None]
  /\ remover = [u \in Remover |-> "idle"] /\ removed = [u \in Remover |-> None]
  /\ awaited = [u \in Remover |-> None]
  /\ ctxDone = FALSE /\ listening = TRUE /\ serve = "accepting"
  /\ pending = {} /\ sockets = {} /\ owned = {}
  /\ handler = [c \in Conn |-> "none"] /\ route = [c \in Conn |-> None]
  /\ seen = [c \in Conn |-> None]

-----------------------------------------------------------------------------
(* The registry.                                                           *)

\* A run is named by the call that began it.
RunOf(t) == CHOOSE s \in Starter : starter[s] = "running" /\ found[s] = t

RegisterTorrent(t) ==
  /\ torrents[HashOf[t]] = None
  /\ torrents' = [torrents EXCEPT ![HashOf[t]] = t]
  /\ UNCHANGED <<running, stopping, starter, found, remover, removed, awaited, serving>>

\* getTorrent, under the read lock ...
StartTorrentDownload(s) ==
  /\ starter[s] = "idle"
  /\ LET t == torrents[StartOf[s]]
     IN  /\ starter' = [starter EXCEPT ![s] = IF t = None THEN "returned" ELSE "found"]
         /\ found' = [found EXCEPT ![s] = t]
  /\ UNCHANGED <<torrents, running, stopping, remover, removed, awaited, serving>>

\* ... and RunDownload, without it: refused when the torrent is running.
RunDownload(s) ==
  /\ starter[s] = "found"
  /\ IF found[s] \in running
       THEN starter' = [starter EXCEPT ![s] = "returned"] /\ UNCHANGED running
       ELSE /\ starter' = [starter EXCEPT ![s] = "running"]
            /\ running' = running \cup {found[s]}
  /\ UNCHANGED <<torrents, stopping, found, remover, removed, awaited, serving>>

\* The run's context is cancelled by its caller, or its announce fails.
RunStops(s) ==
  /\ starter[s] = "running" /\ found[s] \notin stopping
  /\ stopping' = stopping \cup {found[s]}
  /\ UNCHANGED <<torrents, running, starter, found, remover, removed, awaited, serving>>

finishRun_leaky(s) ==
  /\ starter[s] = "running" /\ found[s] \in stopping
  /\ starter' = [starter EXCEPT ![s] = "returned"]
  /\ UNCHANGED <<torrents, running, stopping, found, remover, removed, awaited, serving>>

\* finishRun closes the connections the torrent owns.
finishRun(s) ==
  /\ starter[s] = "running" /\ found[s] \in stopping
  /\ starter' = [starter EXCEPT ![s] = "returned"]
  /\ running' = running \ {found[s]} /\ stopping' = stopping \ {found[s]}
  /\ sockets' = sockets \ { c \in owned : route[c] = found[s] }
  /\ UNCHANGED <<torrents, found, remover, removed, awaited, ctxDone, listening, serve, pending,
                 handler, route, seen, owned>>

UnregisterTorrent(u) ==
  /\ remover[u] = "idle"
  /\ LET t == torrents[RemoveOf[u]]
     IN  /\ torrents' = [torrents EXCEPT ![RemoveOf[u]] = None]
         /\ remover' = [remover EXCEPT ![u] = IF t = None THEN "returned" ELSE "removed"]
         /\ removed' = [removed EXCEPT ![u] = t]
  /\ UNCHANGED <<running, stopping, starter, found, awaited, serving>>

\* torrent.Close, after mu has been released.
Close(u) ==
  /\ remover[u] = "removed"
  /\ IF removed[u] \in running
       THEN /\ remover' = [remover EXCEPT ![u] = "waiting"]
            /\ awaited' = [awaited EXCEPT ![u] = RunOf(removed[u])]
            /\ stopping' = stopping \cup {removed[u]}
       ELSE /\ remover' = [remover EXCEPT ![u] = "returned"]
            /\ UNCHANGED <<awaited, stopping>>
  /\ UNCHANGED <<torrents, running, starter, found, removed, serving>>

CloseWaited(u) ==
  /\ remover[u] = "waiting" /\ starter[awaited[u]] = "returned"
  /\ remover' = [remover EXCEPT ![u] = "returned"]
  /\ UNCHANGED <<torrents, running, stopping, starter, found, removed, awaited, serving>>

-----------------------------------------------------------------------------
(* ServePeers.                                                             *)

Cancel ==
  /\ ~ctxDone /\ ctxDone' = TRUE
  /\ UNCHANGED <<registry, listening, serve, pending, handler, route, seen, sockets, owned>>

\* The goroutine that watches the context.
CloseListener ==
  /\ ctxDone /\ listening
  /\ listening' = FALSE
  /\ UNCHANGED <<registry, ctxDone, serve, pending, handler, route, seen, sockets, owned>>

Accept(c) ==
  /\ serve = "accepting" /\ listening /\ handler[c] = "none"
  /\ pending' = pending \cup {c} /\ sockets' = sockets \cup {c}
  /\ handler' = [handler EXCEPT ![c] = "reading"]
  /\ UNCHANGED <<registry, ctxDone, listening, serve, route, seen, owned>>

\* Accept fails because the listener is closed, or for a reason of its own.
AcceptFails ==
  /\ serve = "accepting" /\ serve' = "closing"
  /\ UNCHANGED <<registry, ctxDone, listening, pending, handler, route, seen, sockets, owned>>

ClosePending_none ==
  /\ serve = "closing" /\ serve' = "waiting"
  /\ UNCHANGED <<registry, ctxDone, listening, pending, handler, route, seen, sockets, owned>>

\* The deferred function closes whatever is in pending.
ClosePending ==
  /\ serve = "closing" /\ serve' = "waiting"
  /\ sockets' = sockets \ pending
  /\ UNCHANGED <<registry, ctxDone, listening, pending, handler, route, seen, owned>>

HandlersDone == \A c \in Conn : handler[c] \in { "none", "done", "gone" }

ServeReturns_early ==
  /\ serve = "waiting"
  /\ serve' = "returned" /\ listening' = FALSE
  /\ UNCHANGED <<registry, ctxDone, pending, handler, route, seen, sockets, owned>>

\* handlers.Wait, then the deferred Close of the listener.
ServeReturns ==
  /\ serve = "waiting" /\ HandlersDone
  /\ serve' = "returned" /\ listening' = FALSE
  /\ UNCHANGED <<registry, ctxDone, pending, handler, route, seen, sockets, owned>>

-----------------------------------------------------------------------------
(* handleIncomingConnection and the goroutine around it.                   *)

Moves(c, from, to) == handler[c] = from /\ handler' = [handler EXCEPT ![c] = to]

\* The handshake names a registered torrent.
Lookup(c) ==
  /\ Moves(c, "reading", "found")
  /\ c \in sockets /\ torrents[WantOf[c]] # None
  /\ route' = [route EXCEPT ![c] = torrents[WantOf[c]]]
  /\ UNCHANGED <<registry, ctxDone, listening, serve, pending, seen, sockets, owned>>

\* The torrent runs, the handshake is valid and answered: an offer is made.
AcceptIncomingPeer(c) ==
  /\ Moves(c, "found", "offering")
  /\ c \in sockets /\ route[c] \in running
  /\ seen' = [seen EXCEPT ![c] = RunOf(route[c])]
  /\ UNCHANGED <<registry, ctxDone, listening, serve, pending, route, sockets, owned>>

\* No handshake can be read, its torrent is not registered or not running, the
\* handshake is not valid, or its answer cannot be written.
HandshakeFails(c) ==
  /\ Moves(c, "reading", "failed") \/ Moves(c, "found", "failed")
  /\ UNCHANGED <<registry, ctxDone, listening, serve, pending, route, seen, sockets, owned>>

\* The loop, of this run or a later one, takes the connection off peerEvents.
Taken(c) ==
  /\ Moves(c, "offering", "leaving")
  /\ route[c] \in running
  /\ owned' = owned \cup {c}
  /\ UNCHANGED <<registry, ctxDone, listening, serve, pending, route, seen, sockets>>

OfferFails(c) ==
  /\ Moves(c, "offering", "failed")
  /\ ctxDone \/ starter[seen[c]] = "returned"
  /\ UNCHANGED <<registry, ctxDone, listening, serve, pending, route, seen, sockets, owned>>

CloseFailed_not(c) ==
  /\ Moves(c, "failed", "leaving")
  /\ UNCHANGED <<registry, ctxDone, listening, serve, pending, route, seen, sockets, owned>>

CloseFailed(c) ==
  /\ Moves(c, "failed", "leaving")
  /\ sockets' = sockets \ {c}
  /\ UNCHANGED <<registry, ctxDone, listening, serve, pending, route, seen, owned>>

\* handlers.Done comes before the entry in pending is deleted.
HandlerDone(c) ==
  /\ Moves(c, "leaving", "done")
  /\ UNCHANGED <<registry, ctxDone, listening, serve, pending, route, seen, sockets, owned>>

Unlist(c) ==
  /\ Moves(c, "done", "gone")
  /\ pending' = pending \ {c}
  /\ UNCHANGED <<registry, ctxDone, listening, serve, route, seen, sockets, owned>>

-----------------------------------------------------------------------------
Handler(c) == \/ Lookup(c) \/ AcceptIncomingPeer(c) \/ HandshakeFails(c) \/ Taken(c) \/ OfferFails(c)
              \/ CloseFailed(c) \/ HandlerDone(c) \/ Unlist(c)

Next == \/ \E t \in Torrent : RegisterTorrent(t)
        \/ \E s \in Starter : StartTorrentDownload(s) \/ RunDownload(s) \/ RunStops(s) \/ finishRun(s)
        \/ \E u \in Remover : UnregisterTorrent(u) \/ Close(u) \/ CloseWaited(u)
        \/ Cancel \/ CloseListener \/ AcceptFails \/ ClosePending \/ ServeReturns
        \/ \E c \in Conn : Accept(c) \/ Handler(c)

Spec == Init /\ [][Next]_vars

-----------------------------------------------------------------------------
(***************************************************************************)
(* What UnregisterTorrent promises ("stops one torrent"): once it has      *)
(* returned, the torrent it took out of the table is not running.          *)
(***************************************************************************)
UnregisteredStops ==
  \A u \in Remover : remover[u] = "returned" /\ removed[u] # None
                       /\ torrents[HashOf[removed[u]]] # removed[u]
                     => removed[u] \notin running

(***************************************************************************)
(* ServePeers leaves nothing behind: when it has returned, no handler is   *)
(* at work, and every connection it accepted is closed or belongs to a     *)
(* running torrent that took it.                                           *)
(***************************************************************************)
ServeCleansUp ==
  serve = "returned" => /\ HandlersDone
                        /\ \A c \in sockets : c \in owned /\ route[c] \in running

(***************************************************************************)
(* An open connection is somebody's: of the handler that is to close it or *)
(* hand it over, or of a torrent whose finishRun will close it.            *)
(***************************************************************************)
SomebodyCloses ==
  \A c \in sockets : \/ handler[c] \in { "reading", "found", "offering", "failed" }
                     \/ c \in owned /\ route[c] \in running

(***************************************************************************)
(* The table and the connections hang together: a running torrent was      *)
(* started by somebody who still waits for it, only a handler hands a      *)
(* connection over, and no connection is lost between listener, handler,   *)
(* torrent and shutdown.                                                   *)
(***************************************************************************)
Inv == /\ TypeOK /\ ServeCleansUp /\ SomebodyCloses
       /\ \A c \in Conn : handler[c] = "none" => c \notin owned
       /\ \A t \in running : \E s \in Starter : starter[s] = "running" /\ found[s] = t

-----------------------------------------------------------------------------
(* Goroutines that can move do.  A handler whose connection is closed      *)
(* fails its read; one that is offering sees that the context is done or   *)
(* that the run it knows is over.                                          *)
Fairness ==
  /\ WF_vars(CloseListener) /\ WF_vars(~listening /\ AcceptFails)
  /\ WF_vars(ClosePending) /\ WF_vars(ServeReturns)
  /\ \A c \in Conn : /\ WF_vars(c \notin sockets /\ HandshakeFails(c))
                     /\ WF_vars(handler[c] = "found" /\ (AcceptIncomingPeer(c) \/ HandshakeFails(c)))
                     /\ WF_vars(OfferFails(c)) /\ WF_vars(CloseFailed(c))
                     /\ WF_vars(HandlerDone(c)) /\ WF_vars(Unlist(c))

FairSpec == Spec /\ Fairness

(***************************************************************************)
(* ServePeers ends when its context does, also while remote sides keep     *)
(* silent in the middle of a handshake.                                    *)
(***************************************************************************)
ServeEnds == ctxDone ~> serve = "returned"
=============================================================================
