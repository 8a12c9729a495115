---------------------------- MODULE ClientProofs ----------------------------
(***************************************************************************)
(* Client for any torrents, calls and connections.                         *)
(***************************************************************************)
EXTENDS Client, TLAPS

(***************************************************************************)
(* A torrent is run by one call at a time: a call between beginRun and     *)
(* finishRun has its torrent to itself, although it looked the torrent up  *)
(* before, without the lock that it begins the run under.                  *)
(***************************************************************************)
OneRun ==
  /\ \A s \in Starter : starter[s] \in { "found", "running" } => found[s] \in Torrent
  /\ \A s \in Starter : starter[s] = "running" => found[s] \in running
  /\ \A s, r \in Starter : starter[s] = "running" /\ starter[r] = "running" /\ found[s] = found[r]
                           => s = r

Started == \A t \in running : \E s \in Starter : starter[s] = "running" /\ found[s] = t

Unowned == \A c \in Conn : handler[c] = "none" => c \notin owned

Returned == serve = "returned" => HandlersDone

\* ServeCleansUp follows from SomebodyCloses once the handlers are done.
Sound == TypeOK /\ OneRun /\ Started /\ SomebodyCloses /\ Unowned /\ Returned

\* Sound is what Inv says, and who runs what.
LEMMA SoundInv == Sound => Inv
<1> SUFFICES ASSUME Sound PROVE Inv
  OBVIOUS
<1>1. ASSUME serve = "returned", NEW c \in sockets PROVE c \in owned /\ route[c] \in running
  <2>1. handler[c] \in { "none", "done", "gone" }
    BY <1>1 DEF Sound, Returned, HandlersDone, TypeOK
  <2> QED BY <2>1 DEF Sound, SomebodyCloses
<1>2. ServeCleansUp
  BY <1>1 DEF Sound, ServeCleansUp, Returned
<1> QED BY <1>2 DEF Sound, Inv, Started, Unowned

\* The run of a running torrent is the call that waits for it.
LEMMA RunOfRunning ==
  ASSUME Started, NEW t \in running
  PROVE  RunOf(t) \in Starter
BY DEF Started, RunOf

\* The invariant holds before the first call.
LEMMA InitSound == Init => Sound
<1> SUFFICES ASSUME Init PROVE Sound
  OBVIOUS
<1>1. TypeOK
  BY DEF Init, TypeOK
<1>2. OneRun /\ Started
  BY DEF Init, OneRun, Started
<1>3. SomebodyCloses /\ Unowned /\ Returned
  BY DEF Init, SomebodyCloses, Unowned, Returned
<1> QED BY <1>1, <1>2, <1>3 DEF Sound

\* The connections do not care for a call that begins no run and ends none.
LEMMA ServingKept ==
  ASSUME SomebodyCloses, Unowned, Returned, UNCHANGED serving, running \subseteq running'
  PROVE  SomebodyCloses' /\ Unowned' /\ Returned'
<1>1. /\ serve' = serve /\ handler' = handler /\ route' = route /\ sockets' = sockets
      /\ owned' = owned
  BY DEF serving
<1>2. SomebodyCloses'
  BY <1>1 DEF SomebodyCloses
<1>3. Unowned' /\ Returned'
  BY <1>1 DEF Unowned, Returned, HandlersDone
<1> QED BY <1>2, <1>3

\* The calls on the registry.
LEMMA RegistrySound ==
  ASSUME Sound,
         \/ \E t \in Torrent : RegisterTorrent(t)
         \/ \E s \in Starter : StartTorrentDownload(s) \/ RunDownload(s) \/ RunStops(s)
         \/ \E u \in Remover : UnregisterTorrent(u) \/ Close(u) \/ CloseWaited(u)
  PROVE  Sound'
<1> USE ClientAssumption DEF Sound
<1>1. ASSUME NEW t \in Torrent, RegisterTorrent(t) PROVE Sound'
  <2>1. TypeOK' /\ running' = running /\ UNCHANGED serving
    BY <1>1 DEF TypeOK, RegisterTorrent, serving
  <2>2. OneRun' /\ Started'
    BY <1>1 DEF OneRun, Started, RegisterTorrent
  <2> QED BY <2>1, <2>2, ServingKept
<1>2. ASSUME NEW s \in Starter, StartTorrentDownload(s) PROVE Sound'
  <2>1. torrents[StartOf[s]] \in Torrent \cup {None}
    BY DEF TypeOK
  <2>2. TypeOK' /\ running' = running /\ UNCHANGED serving
    BY <1>2, <2>1 DEF TypeOK, StartTorrentDownload, serving
  <2>3. OneRun'
    BY <1>2, <2>1 DEF OneRun, StartTorrentDownload, TypeOK
  <2>4. Started'
    BY <1>2, <2>1 DEF Started, StartTorrentDownload, TypeOK
  <2> QED BY <2>2, <2>3, <2>4, ServingKept
<1>3. ASSUME NEW s \in Starter, RunDownload(s) PROVE Sound'
  <2>1. found[s] \in Torrent /\ UNCHANGED serving
    BY <1>3 DEF OneRun, RunDownload, serving
  <2>2. CASE found[s] \in running
    <3>1. /\ starter' = [starter EXCEPT ![s] = "returned"] /\ starter[s] = "found"
          /\ running' = running /\ stopping' = stopping /\ found' = found /\ torrents' = torrents
          /\ remover' = remover /\ removed' = removed /\ awaited' = awaited
      BY <1>3, <2>2 DEF RunDownload
    <3>2. TypeOK'
      BY <2>1, <3>1 DEF TypeOK, serving
    <3>3. OneRun' /\ Started'
      BY <3>1 DEF OneRun, Started, TypeOK
    <3> QED BY <2>1, <3>1, <3>2, <3>3, ServingKept
  <2>3. CASE found[s] \notin running
    <3>1. /\ starter' = [starter EXCEPT ![s] = "running"] /\ starter[s] = "found"
          /\ running' = running \cup {found[s]} /\ stopping' = stopping /\ found' = found
          /\ torrents' = torrents
          /\ remover' = remover /\ removed' = removed /\ awaited' = awaited
      BY <1>3, <2>3 DEF RunDownload
    <3>2. TypeOK'
      BY <2>1, <3>1 DEF TypeOK, serving
    <3>3. OneRun'
      BY <2>1, <2>3, <3>1 DEF OneRun, TypeOK
    <3>4. Started'
      BY <2>1, <3>1 DEF Started, TypeOK
    <3> QED BY <2>1, <3>1, <3>2, <3>3, <3>4, ServingKept
  <2> QED BY <2>2, <2>3
<1>4. ASSUME NEW s \in Starter, RunStops(s) PROVE Sound'
  <2>1. found[s] \in running
    BY <1>4 DEF OneRun, RunStops
  <2>2. TypeOK' /\ running' = running /\ UNCHANGED serving
    BY <1>4, <2>1 DEF TypeOK, RunStops, serving
  <2>3. OneRun' /\ Started'
    BY <1>4 DEF OneRun, Started, RunStops
  <2> QED BY <2>2, <2>3, ServingKept
<1>5. ASSUME NEW u \in Remover, UnregisterTorrent(u) PROVE Sound'
  <2>1. torrents[RemoveOf[u]] \in Torrent \cup {None}
    BY DEF TypeOK
  <2>2. TypeOK' /\ running' = running /\ UNCHANGED serving
    BY <1>5, <2>1 DEF TypeOK, UnregisterTorrent, serving
  <2>3. OneRun' /\ Started'
    BY <1>5 DEF OneRun, Started, UnregisterTorrent
  <2> QED BY <2>2, <2>3, ServingKept
<1>6. ASSUME NEW u \in Remover, Close(u) PROVE Sound'
  <2>1. running' = running /\ UNCHANGED serving
    BY <1>6 DEF Close, serving
  <2>2. TypeOK'
    BY <1>6, RunOfRunning DEF TypeOK, Close, serving
  <2>3. OneRun' /\ Started'
    BY <1>6 DEF OneRun, Started, Close
  <2> QED BY <2>1, <2>2, <2>3, ServingKept
<1>7. ASSUME NEW u \in Remover, CloseWaited(u) PROVE Sound'
  <2>1. TypeOK' /\ running' = running /\ UNCHANGED serving
    BY <1>7 DEF TypeOK, CloseWaited, serving
  <2>2. OneRun' /\ Started'
    BY <1>7 DEF OneRun, Started, CloseWaited
  <2> QED BY <2>1, <2>2, ServingKept
<1> QED BY <1>1, <1>2, <1>3, <1>4, <1>5, <1>6, <1>7

\* finishRun ends only its own run, and closes all that the run's torrent owns.
LEMMA FinishSound ==
  ASSUME Sound, NEW s \in Starter, finishRun(s)
  PROVE  Sound'
<1> USE DEF Sound, finishRun
<1>1. TypeOK'
  BY DEF TypeOK
<1>2. OneRun'
  BY DEF OneRun, TypeOK
<1>3. Started'
  <2> SUFFICES ASSUME NEW t \in running, t # found[s]
               PROVE  \E r \in Starter : starter'[r] = "running" /\ found[r] = t
    BY DEF Started
  <2>1. PICK r \in Starter : starter[r] = "running" /\ found[r] = t
    BY DEF Started
  <2> QED BY <2>1 DEF TypeOK
<1>4. SomebodyCloses'
  BY DEF SomebodyCloses
<1>5. Unowned' /\ Returned'
  BY DEF Unowned, Returned, HandlersDone
<1> QED BY <1>1, <1>2, <1>3, <1>4, <1>5

\* Steps of ServePeers and its handlers leave the runs alone.
LEMMA RegistryKept ==
  ASSUME OneRun, Started, UNCHANGED registry
  PROVE  OneRun' /\ Started'
BY DEF OneRun, Started, registry

\* The context, the listener and ServePeers itself.
LEMMA ServeSound ==
  ASSUME Sound, Cancel \/ CloseListener \/ AcceptFails \/ ClosePending \/ ServeReturns
  PROVE  Sound'
<1> USE DEF Sound
<1>1. /\ UNCHANGED registry /\ handler' = handler /\ route' = route /\ owned' = owned
      /\ pending' = pending /\ seen' = seen
      /\ sockets' \subseteq sockets
      /\ ctxDone' \in BOOLEAN /\ listening' \in BOOLEAN
      /\ serve' \in { "accepting", "closing", "waiting", "returned" }
      /\ serve' = "returned" => HandlersDone
  BY DEF Cancel, CloseListener, AcceptFails, ClosePending, ServeReturns, TypeOK, Returned
<1>2. running' = running
  BY <1>1 DEF registry
<1>3. TypeOK'
  BY <1>1 DEF TypeOK, registry
<1>4. SomebodyCloses'
  BY <1>1, <1>2 DEF SomebodyCloses
<1>5. Unowned' /\ Returned'
  BY <1>1 DEF Unowned, Returned, HandlersDone
<1> QED BY <1>1, <1>3, <1>4, <1>5, RegistryKept

\* A connection is accepted, and each step of its handler.
LEMMA HandlerSound ==
  ASSUME Sound, NEW c \in Conn, Accept(c) \/ Handler(c)
  PROVE  Sound'
<1> USE DEF Sound, Moves
<1>0. UNCHANGED registry /\ running' = running
  BY DEF Accept, Handler, Lookup, AcceptIncomingPeer, HandshakeFails, Taken, OfferFails, CloseFailed,
         HandlerDone, Unlist, registry
<1>1. CASE Accept(c)
  <2>1. TypeOK'
    BY <1>0, <1>1 DEF TypeOK, Accept, registry
  <2>2. SomebodyCloses'
    BY <1>0, <1>1 DEF SomebodyCloses, Accept, TypeOK
  <2>3. Unowned' /\ Returned'
    BY <1>1 DEF Unowned, Returned, Accept, TypeOK
  <2> QED BY <1>0, <2>1, <2>2, <2>3, RegistryKept
<1>2. CASE Lookup(c)
  <2>1. TypeOK'
    BY <1>0, <1>2, ClientAssumption DEF TypeOK, Lookup, registry
  <2>2. SomebodyCloses'
    BY <1>0, <1>2 DEF SomebodyCloses, Lookup, TypeOK
  <2>3. Unowned' /\ Returned'
    BY <1>2 DEF Unowned, Returned, HandlersDone, Lookup, TypeOK
  <2> QED BY <1>0, <2>1, <2>2, <2>3, RegistryKept
<1>3. CASE AcceptIncomingPeer(c)
  <2>1. TypeOK'
    BY <1>0, <1>3, RunOfRunning DEF TypeOK, AcceptIncomingPeer, registry
  <2>2. SomebodyCloses'
    BY <1>0, <1>3 DEF SomebodyCloses, AcceptIncomingPeer, TypeOK
  <2>3. Unowned' /\ Returned'
    BY <1>3 DEF Unowned, Returned, HandlersDone, AcceptIncomingPeer, TypeOK
  <2> QED BY <1>0, <2>1, <2>2, <2>3, RegistryKept
<1>4. CASE HandshakeFails(c) \/ OfferFails(c)
  <2>1. TypeOK'
    BY <1>0, <1>4 DEF TypeOK, HandshakeFails, OfferFails, registry
  <2>2. SomebodyCloses'
    BY <1>0, <1>4 DEF SomebodyCloses, HandshakeFails, OfferFails, TypeOK
  <2>3. Unowned' /\ Returned'
    BY <1>4 DEF Unowned, Returned, HandlersDone, HandshakeFails, OfferFails, TypeOK
  <2> QED BY <1>0, <2>1, <2>2, <2>3, RegistryKept
<1>5. CASE Taken(c)
  <2>1. TypeOK'
    BY <1>0, <1>5 DEF TypeOK, Taken, registry
  <2>2. SomebodyCloses'
    BY <1>0, <1>5 DEF SomebodyCloses, Taken, TypeOK
  <2>3. Unowned' /\ Returned'
    BY <1>5 DEF Unowned, Returned, HandlersDone, Taken, TypeOK
  <2> QED BY <1>0, <2>1, <2>2, <2>3, RegistryKept
<1>6. CASE CloseFailed(c)
  <2>1. TypeOK'
    BY <1>0, <1>6 DEF TypeOK, CloseFailed, registry
  <2>2. SomebodyCloses'
    BY <1>0, <1>6 DEF SomebodyCloses, CloseFailed, TypeOK
  <2>3. Unowned' /\ Returned'
    BY <1>6 DEF Unowned, Returned, HandlersDone, CloseFailed, TypeOK
  <2> QED BY <1>0, <2>1, <2>2, <2>3, RegistryKept
<1>7. CASE HandlerDone(c) \/ Unlist(c)
  <2>1. TypeOK'
    BY <1>0, <1>7 DEF TypeOK, HandlerDone, Unlist, registry
  <2>2. SomebodyCloses'
    BY <1>0, <1>7 DEF SomebodyCloses, HandlerDone, Unlist, TypeOK
  <2>3. Unowned' /\ Returned'
    BY <1>7 DEF Unowned, Returned, HandlersDone, HandlerDone, Unlist, TypeOK
  <2> QED BY <1>0, <2>1, <2>2, <2>3, RegistryKept
<1> QED BY <1>1, <1>2, <1>3, <1>4, <1>5, <1>6, <1>7 DEF Handler

\* No step breaks the invariant.
LEMMA NextSound == Sound /\ [Next]_vars => Sound'
<1> SUFFICES ASSUME Sound, [Next]_vars PROVE Sound'
  OBVIOUS
<1>1. CASE UNCHANGED vars
  <2>1. UNCHANGED registry /\ UNCHANGED serving /\ running' = running
    BY <1>1 DEF vars, registry
  <2>2. TypeOK'
    BY <2>1 DEF Sound, TypeOK, registry, serving
  <2> QED BY <2>1, <2>2, RegistryKept, ServingKept DEF Sound
<1>2. CASE Next
  BY <1>2, RegistrySound, FinishSound, ServeSound, HandlerSound DEF Next
<1> QED BY <1>1, <1>2

(***************************************************************************)
(* No connection is lost: every open one is its handler's or a running     *)
(* torrent's, and ServePeers leaves no other behind.                       *)
(***************************************************************************)
THEOREM ClientSound == Spec => []Inv
BY SoundInv, InitSound, NextSound, PTL DEF Spec

(***************************************************************************)
(* No two calls of StartTorrentDownload run one torrent at the same time.  *)
(***************************************************************************)
THEOREM OneRunEach == Spec => []OneRun
<1>1. Sound => OneRun
  BY DEF Sound
<1> QED BY <1>1, InitSound, NextSound, PTL DEF Spec
=============================================================================
