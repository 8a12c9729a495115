-------------------------- MODULE ProcessesProofs --------------------------
(***************************************************************************)
(* The small protocols around the client, each for any number of its       *)
(* actors: Pairing, Supervisor, NewFile and Bulk.                          *)
(***************************************************************************)
EXTENDS Pairing, Supervisor, Bulk, NewFile, FiniteSetTheorems, TLAPS

-----------------------------------------------------------------------------
(* Pairing, for any number of slots.                                       *)

\* What the tables, loops and handlers can hold; a loop dials only its own connections.
PairingTypeOK ==
  /\ loop \in [Side -> {<<"off">>, <<"select">>} \cup Conns]
  /\ peerOf \in [Side -> Conns \cup {NoConn}]
  /\ incoming \in [Conns -> {"none", "reading", "offering"}]
  /\ answered \subseteq Conns
  /\ ends \in [Conns -> SUBSET Side]
  /\ \A s \in Side : loop[s] \in Conns => loop[s][1] = s

\* The other side of the other side is the side itself.
LEMMA OtherSide ==
  ASSUME NEW s \in Side
  PROVE  /\ Other(s) \in Side /\ Other(s) # s
         /\ \A t \in Side : t # s => t = Other(s)
<1>1. PICK a, b \in Side : a # b /\ Side = {a, b}
  BY PairingAssumption
<1>2. \E t \in Side : t # s
  BY <1>1
<1>3. Other(s) \in Side /\ Other(s) # s
  BY <1>2 DEF Other
<1> QED BY <1>1, <1>3

\* A connection is named by its dialler and a number, and differs from the
\* other states of a loop.
LEMMA ConnNames ==
  ASSUME NEW c \in Conns
  PROVE  /\ c[1] \in Side /\ c # NoConn /\ c # <<"off">> /\ c # <<"select">>
<1>1. PICK s \in Side, n \in 1 .. Slots : c = <<s, n>>
  BY DEF Conns
<1>2. c[1] \in Side
  BY <1>1
<1>3. c # NoConn
  BY <1>1 DEF NoConn
<1>4. c # <<"off">>
  BY <1>1
<1>5. c # <<"select">>
  BY <1>1
<1> QED BY <1>2, <1>3, <1>4, <1>5

\* At the start nothing is open.
LEMMA PairingInitInv == PairingInit => PairingTypeOK /\ NoStrayEnd
<1> SUFFICES ASSUME PairingInit PROVE PairingTypeOK /\ NoStrayEnd
  OBVIOUS
<1>1. \A s \in Side : loop[s] \notin Conns
  BY ConnNames DEF PairingInit
<1>2. PairingTypeOK
  BY <1>1 DEF PairingInit, PairingTypeOK
<1>3. NoStrayEnd
  BY DEF PairingInit, NoStrayEnd
<1> QED BY <1>2, <1>3

\* activatePeer keeps or closes the end it is given, and touches no other.
LEMMA Activation ==
  ASSUME PairingTypeOK, NEW s \in Side, NEW c \in Conns, activate(s, c)
  PROVE  /\ peerOf' \in [Side -> Conns \cup {NoConn}] /\ ends' \in [Conns -> SUBSET Side]
         /\ s \in ends'[c] => peerOf'[s] = c
         /\ \A d \in Conns : ends'[d] \subseteq ends[d]
         /\ \A t \in Side, d \in Conns : peerOf[t] = d => peerOf'[t] = d
<1>1. CASE peerOf[s] = NoConn
  <2>1. \A d \in Conns : d # NoConn
    BY ConnNames
  <2> QED BY <1>1, <2>1 DEF PairingTypeOK, activate
<1>2. CASE peerOf[s] # NoConn
  BY <1>2 DEF PairingTypeOK, activate
<1> QED BY <1>1, <1>2

\* A side starts its loop.
LEMMA BeginInv ==
  ASSUME PairingTypeOK, NoStrayEnd, NEW s \in Side, BeginTorrent(s)
  PROVE  (PairingTypeOK /\ NoStrayEnd)'
<1>1. \A c \in Conns : c # <<"off">> /\ c # <<"select">>
  BY ConnNames
<1>2. PairingTypeOK'
  BY <1>1 DEF PairingTypeOK, BeginTorrent
<1>3. NoStrayEnd'
  BY <1>1 DEF NoStrayEnd, PairingTypeOK, BeginTorrent
<1> QED BY <1>2, <1>3

\* Both ends of a new connection are somebody's.
LEMMA DialInv ==
  ASSUME PairingTypeOK, NoStrayEnd, NEW c \in Conns, Dial(c)
  PROVE  (PairingTypeOK /\ NoStrayEnd)'
<1>1. \A d \in Conns : d[1] \in Side /\ d # <<"select">>
  BY ConnNames
<1>2. PairingTypeOK'
  BY <1>1 DEF PairingTypeOK, Dial
<1>3. NoStrayEnd'
  <2> SUFFICES ASSUME NEW d \in Conns, NEW s \in ends'[d]
               PROVE  peerOf[s] = d \/ (s = d[1] /\ loop'[s] = d) \/ (s # d[1] /\ incoming'[d] # "none")
    BY DEF NoStrayEnd, Dial
  <2>1. CASE d = c
    BY <1>1, <2>1 DEF PairingTypeOK, Dial
  <2>2. CASE d # c
    BY <1>1, <2>2 DEF PairingTypeOK, Dial, NoStrayEnd
  <2> QED BY <2>1, <2>2
<1> QED BY <1>2, <1>3

\* The accepting side's handler answers and goes on.
LEMMA AnswerInv ==
  ASSUME PairingTypeOK, NoStrayEnd, NEW c \in Conns, AnswerHandshake(c)
  PROVE  (PairingTypeOK /\ NoStrayEnd)'
<1>1. PairingTypeOK'
  BY DEF PairingTypeOK, AnswerHandshake
<1>2. NoStrayEnd'
  BY DEF PairingTypeOK, NoStrayEnd, AnswerHandshake
<1> QED BY <1>1, <1>2

\* The dialling side's end gets into its table or is closed.
LEMMA ConnectedInv ==
  ASSUME PairingTypeOK, NoStrayEnd, NEW c \in Conns, Connected(c)
  PROVE  (PairingTypeOK /\ NoStrayEnd)'
<1>1. \A d \in Conns : d[1] \in Side /\ d # <<"select">>
  BY ConnNames
<1>2. /\ peerOf' \in [Side -> Conns \cup {NoConn}] /\ ends' \in [Conns -> SUBSET Side]
      /\ c[1] \in ends'[c] => peerOf'[c[1]] = c
      /\ \A d \in Conns : ends'[d] \subseteq ends[d]
      /\ \A t \in Side, d \in Conns : peerOf[t] = d => peerOf'[t] = d
  BY <1>1, Activation DEF Connected
<1>3. PairingTypeOK'
  BY <1>1, <1>2 DEF PairingTypeOK, Connected
<1>4. NoStrayEnd'
  <2> SUFFICES ASSUME NEW d \in Conns, NEW s \in ends'[d]
               PROVE  \/ peerOf'[s] = d \/ (s = d[1] /\ loop'[s] = d)
                      \/ (s # d[1] /\ incoming[d] # "none")
    BY DEF NoStrayEnd, Connected
  <2>1. /\ s \in Side
        /\ peerOf[s] = d \/ (s = d[1] /\ loop[s] = d) \/ (s # d[1] /\ incoming[d] # "none")
    BY <1>2 DEF NoStrayEnd
  <2>2. CASE s = d[1] /\ loop[s] = d
    <3>1. CASE d = c
      BY <1>2, <2>2, <3>1
    <3>2. CASE d # c
      BY <1>1, <2>1, <2>2, <3>2 DEF PairingTypeOK, Connected
    <3> QED BY <3>1, <3>2
  <2> QED BY <1>2, <2>1, <2>2
<1> QED BY <1>3, <1>4

\* The accepting side's end gets into its table or is closed.
LEMMA ArrivedInv ==
  ASSUME PairingTypeOK, NoStrayEnd, NEW c \in Conns, Arrived(c)
  PROVE  (PairingTypeOK /\ NoStrayEnd)'
<1>1. c[1] \in Side /\ Other(c[1]) \in Side /\ \A t \in Side : t # c[1] => t = Other(c[1])
  BY ConnNames, OtherSide
<1>2. /\ peerOf' \in [Side -> Conns \cup {NoConn}] /\ ends' \in [Conns -> SUBSET Side]
      /\ Other(c[1]) \in ends'[c] => peerOf'[Other(c[1])] = c
      /\ \A d \in Conns : ends'[d] \subseteq ends[d]
      /\ \A t \in Side, d \in Conns : peerOf[t] = d => peerOf'[t] = d
  BY <1>1, Activation DEF Arrived
<1>3. PairingTypeOK'
  BY <1>2 DEF PairingTypeOK, Arrived
<1>4. NoStrayEnd'
  <2> SUFFICES ASSUME NEW d \in Conns, NEW s \in ends'[d]
               PROVE  \/ peerOf'[s] = d \/ (s = d[1] /\ loop[s] = d)
                      \/ (s # d[1] /\ incoming'[d] # "none")
    BY DEF NoStrayEnd, Arrived
  <2>1. /\ s \in Side
        /\ peerOf[s] = d \/ (s = d[1] /\ loop[s] = d) \/ (s # d[1] /\ incoming[d] # "none")
    BY <1>2 DEF NoStrayEnd
  <2>2. CASE s # d[1] /\ incoming[d] # "none"
    <3>1. CASE d = c
      BY <1>1, <1>2, <2>1, <2>2, <3>1
    <3>2. CASE d # c
      BY <2>2, <3>2 DEF PairingTypeOK, Arrived
    <3> QED BY <3>1, <3>2
  <2> QED BY <1>2, <2>1, <2>2
<1> QED BY <1>3, <1>4

\* A broken connection has no open end.
LEMMA BreakInv ==
  ASSUME PairingTypeOK, NoStrayEnd, NEW c \in Conns, NetworkBreaks(c)
  PROVE  (PairingTypeOK /\ NoStrayEnd)'
<1>1. PairingTypeOK'
  BY DEF PairingTypeOK, NetworkBreaks
<1>2. NoStrayEnd'
  BY DEF PairingTypeOK, NoStrayEnd, NetworkBreaks
<1> QED BY <1>1, <1>2

\* removePeer closes the end it takes out of the table.
LEMMA GoneInv ==
  ASSUME PairingTypeOK, NoStrayEnd, NEW s \in Side, PeerGone(s)
  PROVE  (PairingTypeOK /\ NoStrayEnd)'
<1>1. peerOf[s] \in Conns
  BY DEF PairingTypeOK, PeerGone
<1>2. PairingTypeOK'
  BY <1>1 DEF PairingTypeOK, PeerGone
<1>3. NoStrayEnd'
  <2> SUFFICES ASSUME NEW d \in Conns, NEW t \in ends'[d]
               PROVE  \/ peerOf'[t] = d \/ (t = d[1] /\ loop[t] = d)
                      \/ (t # d[1] /\ incoming[d] # "none")
    BY DEF NoStrayEnd, PeerGone
  <2>1. t \in ends[d] /\ ~(t = s /\ d = peerOf[s])
    BY <1>1 DEF PairingTypeOK, PeerGone
  <2>2. peerOf[t] = d => peerOf'[t] = d
    BY <2>1 DEF PairingTypeOK, PeerGone
  <2> QED BY <2>1, <2>2 DEF NoStrayEnd
<1> QED BY <1>2, <1>3

\* No step leaves an end to nobody.
LEMMA PairingStepInv == PairingTypeOK /\ NoStrayEnd /\ [PairingNext]_pairing => (PairingTypeOK /\ NoStrayEnd)'
<1> SUFFICES ASSUME PairingTypeOK, NoStrayEnd, [PairingNext]_pairing
             PROVE  (PairingTypeOK /\ NoStrayEnd)'
  OBVIOUS
<1>1. CASE UNCHANGED pairing
  BY <1>1 DEF pairing, PairingTypeOK, NoStrayEnd
<1>2. ASSUME NEW s \in Side, BeginTorrent(s) \/ PeerGone(s) PROVE (PairingTypeOK /\ NoStrayEnd)'
  BY <1>2, BeginInv, GoneInv
<1>3. ASSUME NEW c \in Conns,
             \/ Dial(c) \/ AnswerHandshake(c) \/ Connected(c) \/ Arrived(c) \/ NetworkBreaks(c)
      PROVE  (PairingTypeOK /\ NoStrayEnd)'
  BY <1>3, DialInv, AnswerInv, ConnectedInv, ArrivedInv, BreakInv
<1> QED BY <1>1, <1>2, <1>3 DEF PairingNext

\* With no stray end, two quiet sides have the same connection in their tables:
\* an end that is open on the other side is in the other side's table.
LEMMA QuietSidesAgree == PairingTypeOK /\ NoStrayEnd => SidesAgree
<1> SUFFICES ASSUME PairingTypeOK, NoStrayEnd, Quiet, NEW s \in Side, NEW t \in Side
             PROVE  peerOf[s] = peerOf[t]
  BY DEF SidesAgree
<1>1. ASSUME NEW x \in Side, NEW y \in Side, peerOf[x] # NoConn PROVE peerOf[y] = peerOf[x]
  <2>1. peerOf[x] \in Conns /\ y \in ends[peerOf[x]]
    BY <1>1 DEF PairingTypeOK, Quiet
  <2> QED BY <2>1 DEF NoStrayEnd, Quiet
<1> QED BY <1>1

(***************************************************************************)
(* Two clients that dial each other, any number of times and over any      *)
(* number of connections that break, end with one connection both keep, or *)
(* with none, and with nothing open beside it.                             *)
(***************************************************************************)
THEOREM PairingAgrees == PairingSpec => []OneConnection
<1>1. PairingTypeOK /\ NoStrayEnd => OneConnection
  BY QuietSidesAgree DEF OneConnection
<1> QED BY <1>1, PairingInitInv, PairingStepInv, PTL DEF PairingSpec

-----------------------------------------------------------------------------
(* Supervisor: the commands count results and do not name them, so that    *)
(* the proof counts too.                                                   *)

SupervisorTypeOK ==
  /\ parts \in Commands
  /\ command \in { "start", "listening", "select", "collecting", "returned" }
  /\ bound \subseteq parts \cap Listeners
  /\ signalled \in BOOLEAN /\ cancelled \in BOOLEAN
  /\ part \in [parts -> { "none", "serving", "served", "canceled", "failed" }]
  /\ watcher \in [parts -> { "none", "waiting", "shutdown", "done" }]
  /\ results \in Seq(parts)
  /\ first \in { "none", "canceled", "failed" }
  /\ collected \in Nat

\* The components that have put their result into the channel.
EndedParts == { p \in parts : part[p] \in { "canceled", "failed" } }

\* Every result is in the channel or has been collected, and comes from a
\* component that has ended.
Counted == /\ Cardinality(EndedParts) = collected + Len(results)
           /\ \A i \in 1 .. Len(results) : results[i] \in EndedParts

\* Nothing is at work before the go statements, and an open listener after
\* them belongs to a component that is at work.
AtWork == /\ command \in { "start", "listening" } => /\ \A p \in parts : part[p] = "none"
                                                     /\ results = <<>>
          /\ command \in { "start", "listening", "select" } => collected = 0
          /\ command = "start" => bound = {}
          /\ command \in { "select", "collecting" } => \A p \in bound : part[p] = "serving"

\* A cancellation has a cause, and before the select has chosen, that is the signal.
Causes == /\ \A p \in parts : part[p] = "canceled" => signalled \/ cancelled
          /\ command \in { "start", "listening", "select" } => ~cancelled /\ first = "none"
          /\ command = "collecting" /\ first = "none" => signalled
          /\ first = "canceled" => signalled
          /\ first = "failed" => \E p \in parts : Failed(p)

SupervisorInv == SupervisorTypeOK /\ Counted /\ AtWork /\ Causes /\ OrderlyExit

-----------------------------------------------------------------------------
\* A command has finitely many components.
LEMMA FiniteParts ==
  ASSUME parts \in Commands
  PROVE  IsFiniteSet(parts) /\ Cardinality(parts) \in Nat
<1>1. /\ IsFiniteSet({"peers", "run"}) /\ IsFiniteSet({"peers", "run", "status"})
      /\ IsFiniteSet({"announce"}) /\ IsFiniteSet({"announce", "status"})
  <2>1. /\ {"peers", "run"} = {"peers"} \cup {"run"} /\ {"announce", "status"} = {"announce"} \cup {"status"}
        /\ {"peers", "run", "status"} = {"peers", "run"} \cup {"status"}
    OBVIOUS
  <2>2. IsFiniteSet({"peers"}) /\ IsFiniteSet({"announce"})
    BY FS_Singleton
  <2>3. IsFiniteSet({"peers", "run"}) /\ IsFiniteSet({"announce", "status"})
    BY <2>1, <2>2, FS_AddElement
  <2> QED BY <2>1, <2>2, <2>3, FS_AddElement
<1>2. \/ parts = {"peers", "run"} \/ parts = {"peers", "run", "status"}
      \/ parts = {"announce"} \/ parts = {"announce", "status"}
  BY Zenon DEF Commands
<1>3. IsFiniteSet(parts)
  BY <1>1, <1>2
<1> QED BY <1>3, FS_CardinalityType

\* As many components have ended as there are results, and no more than there are.
LEMMA EndedFinite ==
  ASSUME SupervisorTypeOK
  PROVE  /\ IsFiniteSet(EndedParts) /\ Cardinality(EndedParts) \in Nat
         /\ Cardinality(EndedParts) <= Cardinality(parts)
         /\ Cardinality(EndedParts) = Cardinality(parts) => EndedParts = parts
<1>1. IsFiniteSet(parts) /\ Cardinality(parts) \in Nat
  BY FiniteParts DEF SupervisorTypeOK
<1>2. EndedParts \in SUBSET parts
  BY DEF EndedParts
<1> QED BY <1>1, <1>2, FS_Subset, FS_CardinalityType

\* Before anything is started, nothing has ended.
LEMMA NoneEnded ==
  ASSUME \A p \in parts : part[p] = "none"
  PROVE  EndedParts = {} /\ Cardinality(EndedParts) = 0
<1>1. EndedParts = {}
  BY DEF EndedParts
<1> QED BY <1>1, FS_EmptySet

\* The invariant holds when the command starts.
LEMMA SupervisorInitInv == SupervisorInit => SupervisorInv
<1> SUFFICES ASSUME SupervisorInit PROVE SupervisorInv
  OBVIOUS
<1>1. SupervisorTypeOK
  <2>1. results \in Seq(parts)
    BY DEF SupervisorInit
  <2> QED BY <2>1 DEF SupervisorInit, SupervisorTypeOK
<1>2. \A p \in parts : part[p] = "none"
  BY DEF SupervisorInit
<1>3. Counted
  BY <1>2, NoneEnded DEF SupervisorInit, Counted
<1>4. AtWork /\ Causes /\ OrderlyExit
  BY <1>2 DEF SupervisorInit, AtWork, Causes, OrderlyExit, NothingLeftRunning, VerdictHonest
<1> QED BY <1>1, <1>3, <1>4 DEF SupervisorInv

\* Starting: Listen, ListenStatus, StartFails and Spawn.
LEMMA StartInv ==
  ASSUME SupervisorInv, Listen \/ ListenStatus \/ StartFails \/ Spawn
  PROVE  SupervisorInv'
<1> USE DEF SupervisorInv
<1>1. /\ command \in { "start", "listening" } /\ parts' = parts /\ results' = results
      /\ collected' = collected /\ first' = first /\ signalled' = signalled /\ cancelled' = cancelled
  BY DEF Listen, ListenStatus, StartFails, Spawn, startup, supervising
<1>2. (\A p \in parts : part[p] = "none") /\ results = <<>> /\ collected = 0 /\ first = "none" /\ ~cancelled
  BY <1>1 DEF AtWork, Causes
<1>3. (\A p \in parts : part'[p] = "none") \/ Spawn
  BY <1>2 DEF Listen, ListenStatus, StartFails, startup, supervising
<1>4. EndedParts' = {}
  <2>1. CASE Spawn
    BY <1>1, <2>1 DEF Spawn, EndedParts
  <2>2. CASE \A p \in parts : part'[p] = "none"
    BY <1>1, <2>2 DEF EndedParts
  <2> QED BY <1>3, <2>1, <2>2
<1>5. Counted'
  BY <1>1, <1>2, <1>4, FS_EmptySet DEF Counted
<1>6. SupervisorTypeOK'
  <2>1. /\ bound' \subseteq parts \cap Listeners
        /\ command' \in { "listening", "select", "returned" }
    BY <1>1 DEF SupervisorTypeOK, Listen, ListenStatus, StartFails, Spawn, startup, supervising,
                Listeners, HTTP
  <2>2. /\ part' \in [parts -> { "none", "serving", "served", "canceled", "failed" }]
        /\ watcher' \in [parts -> { "none", "waiting", "shutdown", "done" }]
    <3>1. CASE Spawn
      BY <3>1 DEF Spawn
    <3>2. CASE ~Spawn
      <4>1. part' = part /\ watcher' = watcher
        BY <3>2 DEF Listen, ListenStatus, StartFails
      <4> QED BY <4>1 DEF SupervisorTypeOK
    <3> QED BY <3>1, <3>2
  <2> QED BY <1>1, <2>1, <2>2 DEF SupervisorTypeOK
<1>7. AtWork'
  BY <1>1, <1>2 DEF AtWork, SupervisorTypeOK, Listen, ListenStatus, StartFails, Spawn, startup, supervising
<1>8. Causes'
  BY <1>1, <1>2 DEF Causes, Listen, ListenStatus, StartFails, Spawn, startup, supervising
<1>9. OrderlyExit'
  <2>1. CASE StartFails
    BY <1>1, <1>2, <2>1 DEF StartFails, OrderlyExit, NothingLeftRunning, VerdictHonest
  <2>2. CASE ~StartFails
    <3>1. command' # "returned"
      BY <1>1, <2>2 DEF Listen, ListenStatus, Spawn, supervising
    <3> QED BY <3>1 DEF OrderlyExit, NothingLeftRunning, VerdictHonest
  <2> QED BY <2>1, <2>2
<1> QED BY <1>5, <1>6, <1>7, <1>8, <1>9

\* Signal, and the steps of Shutdown: results, components and command stay.
LEMMA AsideInv ==
  ASSUME SupervisorInv, Signal \/ \E p \in parts : Shutdown(p) \/ ShutdownDone(p)
  PROVE  SupervisorInv'
<1> USE DEF SupervisorInv
<1>1. /\ parts' = parts /\ part' = part /\ results' = results /\ cancelled' = cancelled
      /\ command' = command /\ first' = first /\ collected' = collected /\ verdict' = verdict
      /\ bound' \subseteq bound /\ signalled' \in BOOLEAN /\ (signalled => signalled')
      /\ watcher' \in [parts -> { "none", "waiting", "shutdown", "done" }]
  BY DEF Signal, Shutdown, ShutdownDone, startup, supervising, SupervisorTypeOK
<1>2. SupervisorTypeOK'
  BY <1>1 DEF SupervisorTypeOK
<1>3. Counted'
  BY <1>1 DEF Counted, EndedParts
<1>4. AtWork' /\ Causes'
  BY <1>1 DEF AtWork, Causes, Failed
<1>5. OrderlyExit'
  BY <1>1 DEF OrderlyExit, NothingLeftRunning, VerdictHonest, Failed
<1> QED BY <1>2, <1>3, <1>4, <1>5

\* server.Serve returns: the component is not at an end yet.
LEMMA ServeReturnsInv ==
  ASSUME SupervisorInv, NEW p \in parts, ServeHTTPReturns(p)
  PROVE  SupervisorInv'
<1> USE DEF SupervisorInv
<1>1. /\ parts' = parts /\ results' = results /\ cancelled' = cancelled /\ signalled' = signalled
      /\ command' = command /\ first' = first /\ collected' = collected /\ verdict' = verdict
      /\ bound' = bound \ {p} /\ watcher' = watcher
      /\ part[p] = "serving" /\ part' = [part EXCEPT ![p] = "served"]
  BY DEF ServeHTTPReturns, supervising
<1>2. command \in { "select", "collecting" }
  BY <1>1 DEF AtWork, OrderlyExit, NothingLeftRunning, SupervisorTypeOK
<1>3. SupervisorTypeOK'
  BY <1>1 DEF SupervisorTypeOK
<1>4. EndedParts' = EndedParts
  BY <1>1 DEF EndedParts, SupervisorTypeOK
<1>5. Counted'
  BY <1>1, <1>4 DEF Counted
<1>6. AtWork'
  BY <1>1, <1>2 DEF AtWork, SupervisorTypeOK
<1>7. Causes'
  BY <1>1 DEF Causes, Failed, SupervisorTypeOK
<1>8. OrderlyExit'
  BY <1>1, <1>2 DEF OrderlyExit, NothingLeftRunning, VerdictHonest
<1> QED BY <1>3, <1>5, <1>6, <1>7, <1>8

\* A component ends: there is one result more, and one component less at work.
LEMMA EndInv ==
  ASSUME SupervisorInv, NEW p \in parts, NEW k \in { "canceled", "failed" }, Ends(p, k),
         part[p] \in { "serving", "served" }, k = "canceled" => runCtxDone,
         bound' \subseteq bound, p \notin bound',
         UNCHANGED <<parts, supervising, signalled, cancelled, watcher>>
  PROVE  SupervisorInv'
<1> USE DEF SupervisorInv
<1>1. /\ parts' = parts /\ watcher' = watcher /\ cancelled' = cancelled /\ signalled' = signalled
      /\ command' = command /\ first' = first /\ collected' = collected /\ verdict' = verdict
      /\ part' = [part EXCEPT ![p] = k] /\ results' = Append(results, p)
  BY DEF Ends, supervising
<1>2. command \in { "select", "collecting" }
  BY DEF AtWork, OrderlyExit, NothingLeftRunning, SupervisorTypeOK
<1>3. SupervisorTypeOK'
  BY <1>1 DEF SupervisorTypeOK
<1>4. EndedParts' = EndedParts \cup {p} /\ p \notin EndedParts
  BY <1>1 DEF EndedParts, SupervisorTypeOK
<1>5. Cardinality(EndedParts') = Cardinality(EndedParts) + 1
  BY <1>4, EndedFinite, FS_AddElement
<1>6. /\ Len(results') = Len(results) + 1 /\ Len(results) \in Nat
      /\ \A i \in 1 .. Len(results') : results'[i] = p \/ (i \in 1 .. Len(results) /\ results'[i] = results[i])
  BY <1>1 DEF SupervisorTypeOK
<1>7. Counted'
  <2>1. Cardinality(EndedParts') = collected' + Len(results')
    BY <1>1, <1>5, <1>6 DEF Counted, SupervisorTypeOK
  <2>2. \A i \in 1 .. Len(results') : results'[i] \in EndedParts'
    BY <1>4, <1>6 DEF Counted
  <2> QED BY <2>1, <2>2 DEF Counted
<1>8. AtWork'
  BY <1>1, <1>2 DEF AtWork, SupervisorTypeOK
<1>9. Causes'
  BY <1>1, <1>2 DEF Causes, Failed, runCtxDone, SupervisorTypeOK
<1>10. OrderlyExit'
  BY <1>1, <1>2 DEF OrderlyExit, NothingLeftRunning, VerdictHonest
<1> QED BY <1>3, <1>7, <1>8, <1>9, <1>10

\* The four ways to end.
LEMMA EndsInv ==
  ASSUME SupervisorInv,
         \/ ServePeersEnds \/ RunEnds("canceled") \/ RunEnds("failed")
         \/ \E p \in parts : ServeHTTPEnds(p)
  PROVE  SupervisorInv'
<1>1. CASE ServePeersEnds
  <2>1. /\ "peers" \in parts /\ part["peers"] = "serving" /\ bound' = bound \ {"peers"}
        /\ UNCHANGED <<parts, supervising, signalled, cancelled, watcher>>
    BY <1>1 DEF ServePeersEnds
  <2>2. CASE runCtxDone
    BY <1>1, <2>1, <2>2, EndInv DEF ServePeersEnds
  <2>3. CASE ~runCtxDone
    BY <1>1, <2>1, <2>3, EndInv DEF ServePeersEnds
  <2> QED BY <2>2, <2>3
<1>2. ASSUME NEW k \in { "canceled", "failed" }, RunEnds(k) PROVE SupervisorInv'
  <2>1. "run" \notin Listeners
    BY DEF Listeners, HTTP
  <2>2. "run" \notin bound
    BY <2>1 DEF SupervisorInv, SupervisorTypeOK
  <2>3. /\ "run" \in parts /\ part["run"] = "serving" /\ bound' = bound
        /\ UNCHANGED <<parts, supervising, signalled, cancelled, watcher>>
        /\ k = "canceled" => runCtxDone
        /\ Ends("run", k)
    BY <1>2 DEF RunEnds, startup
  <2> QED BY <2>2, <2>3, EndInv
<1>3. ASSUME NEW p \in parts, ServeHTTPEnds(p) PROVE SupervisorInv'
  <2>1. /\ part[p] = "served" /\ bound' = bound
        /\ UNCHANGED <<parts, supervising, signalled, cancelled, watcher>>
    BY <1>3 DEF ServeHTTPEnds, startup
  <2>2. p \notin bound
    BY <2>1 DEF SupervisorInv, AtWork, OrderlyExit, NothingLeftRunning, SupervisorTypeOK
  <2>3. CASE runCtxDone
    BY <1>3, <2>1, <2>2, <2>3, EndInv DEF ServeHTTPEnds
  <2>4. CASE ~runCtxDone
    BY <1>3, <2>1, <2>2, <2>4, EndInv DEF ServeHTTPEnds
  <2> QED BY <2>3, <2>4
<1> QED BY <1>1, <1>2, <1>3

\* A result is taken from the channel and counted.
LEMMA ResultTaken ==
  ASSUME SupervisorTypeOK, Counted, results # <<>>
  PROVE  /\ Head(results) \in EndedParts
         /\ Tail(results) \in Seq(parts) /\ Len(Tail(results)) = Len(results) - 1 /\ Len(results) \in Nat
         /\ \A i \in 1 .. Len(Tail(results)) : Tail(results)[i] \in EndedParts
<1>1. /\ results \in Seq(parts) /\ Len(results) \in Nat /\ Len(results) > 0
      /\ Head(results) = results[1] /\ 1 \in 1 .. Len(results)
      /\ Tail(results) \in Seq(parts) /\ Len(Tail(results)) = Len(results) - 1
      /\ \A i \in 1 .. Len(Tail(results)) : Tail(results)[i] = results[i + 1] /\ i + 1 \in 1 .. Len(results)
  BY DEF SupervisorTypeOK
<1> QED BY <1>1 DEF Counted

\* The select takes a result: a cancellation then comes from the signal.
LEMMA FirstResultInv ==
  ASSUME SupervisorInv, FirstResult
  PROVE  SupervisorInv'
<1> USE DEF SupervisorInv
<1>1. /\ parts' = parts /\ part' = part /\ bound' = bound /\ watcher' = watcher
      /\ signalled' = signalled /\ cancelled' = TRUE /\ verdict' = verdict
      /\ command = "select" /\ command' = "collecting" /\ results # <<>>
      /\ results' = Tail(results) /\ first' = part[Head(results)] /\ collected' = 1
  BY DEF FirstResult, startup
<1>2. Head(results) \in EndedParts /\ EndedParts' = EndedParts
  BY <1>1, ResultTaken DEF EndedParts
<1>3. Head(results) \in parts /\ first' \in { "canceled", "failed" }
  BY <1>1, <1>2 DEF EndedParts
<1>4. SupervisorTypeOK'
  BY <1>1, <1>3, ResultTaken DEF SupervisorTypeOK
<1>5. collected = 0
  BY <1>1 DEF AtWork
<1>6. Counted'
  <2>1. Cardinality(EndedParts)' = collected' + Len(results')
    BY <1>1, <1>2, <1>5, ResultTaken DEF Counted, SupervisorTypeOK
  <2>2. \A i \in 1 .. Len(results') : results'[i] \in EndedParts'
    BY <1>1, <1>2, ResultTaken
  <2> QED BY <2>1, <2>2 DEF Counted
<1>7. AtWork'
  BY <1>1 DEF AtWork
<1>8. Causes'
  BY <1>1, <1>3 DEF Causes, Failed, SupervisorTypeOK
<1>9. OrderlyExit'
  BY <1>1 DEF OrderlyExit, NothingLeftRunning, VerdictHonest
<1> QED BY <1>4, <1>6, <1>7, <1>8, <1>9

\* The select sees the signal, and the results still come.
LEMMA SignalSeenInv ==
  ASSUME SupervisorInv, SignalSeen
  PROVE  SupervisorInv'
<1> USE DEF SupervisorInv
<1>1. /\ parts' = parts /\ part' = part /\ bound' = bound /\ watcher' = watcher
      /\ signalled /\ signalled' = signalled /\ (cancelled => cancelled') /\ cancelled' \in BOOLEAN
      /\ command = "select" /\ command' = "collecting" /\ results' = results /\ first' = first
      /\ collected' = collected /\ verdict' = verdict
  BY DEF SignalSeen, startup, SupervisorTypeOK
<1>2. SupervisorTypeOK'
  BY <1>1 DEF SupervisorTypeOK
<1>3. Counted'
  BY <1>1 DEF Counted, EndedParts
<1>4. AtWork' /\ Causes'
  BY <1>1 DEF AtWork, Causes, Failed
<1>5. OrderlyExit'
  BY <1>1 DEF OrderlyExit, NothingLeftRunning, VerdictHonest
<1> QED BY <1>2, <1>3, <1>4, <1>5

\* One of the other results is collected.
LEMMA CollectedInv ==
  ASSUME SupervisorInv, Collect
  PROVE  SupervisorInv'
<1> USE DEF SupervisorInv
<1>1. /\ parts' = parts /\ part' = part /\ bound' = bound /\ watcher' = watcher
      /\ signalled' = signalled /\ cancelled' = cancelled /\ verdict' = verdict
      /\ command = "collecting" /\ command' = command /\ results # <<>> /\ first' = first
      /\ results' = Tail(results) /\ collected' = collected + 1
  BY DEF Collect, startup
<1>2. EndedParts' = EndedParts
  BY <1>1 DEF EndedParts
<1>3. SupervisorTypeOK'
  BY <1>1, ResultTaken DEF SupervisorTypeOK
<1>4. Counted'
  BY <1>1, <1>2, ResultTaken DEF Counted, SupervisorTypeOK
<1>5. AtWork' /\ Causes'
  BY <1>1 DEF AtWork, Causes, Failed
<1>6. OrderlyExit'
  BY <1>1 DEF OrderlyExit, NothingLeftRunning, VerdictHonest
<1> QED BY <1>3, <1>4, <1>5, <1>6

\* With as many results as components, all have ended and the channel is empty.
LEMMA ReturnInv ==
  ASSUME SupervisorInv, Return
  PROVE  SupervisorInv'
<1> USE DEF SupervisorInv
<1>1. /\ parts' = parts /\ part' = part /\ bound' = bound /\ watcher' = watcher
      /\ signalled' = signalled /\ cancelled' = TRUE /\ verdict' = Judged
      /\ command = "collecting" /\ command' = "returned" /\ results' = results /\ first' = first
      /\ collected = Cardinality(parts) /\ collected' = collected
  BY DEF Return, startup
<1>2. Len(results) \in Nat /\ collected \in Nat /\ Cardinality(EndedParts) \in Nat
  BY EndedFinite DEF SupervisorTypeOK
<1>3. Len(results) = 0 /\ EndedParts = parts
  BY <1>1, <1>2, EndedFinite DEF Counted
<1>4. results = <<>>
  BY <1>3 DEF SupervisorTypeOK
<1>5. \A p \in parts : part[p] \in { "canceled", "failed" }
  BY <1>3 DEF EndedParts
<1>6. bound = {}
  BY <1>1, <1>5 DEF AtWork, SupervisorTypeOK
<1>7. SupervisorTypeOK'
  BY <1>1 DEF SupervisorTypeOK
<1>8. Counted'
  BY <1>1 DEF Counted, EndedParts
<1>9. AtWork' /\ Causes'
  BY <1>1 DEF AtWork, Causes, Failed
<1>10. NothingLeftRunning'
  BY <1>1, <1>4, <1>5, <1>6 DEF NothingLeftRunning
<1>11. VerdictHonest'
  BY <1>1 DEF VerdictHonest, Judged, Causes, Failed, SupervisorTypeOK
<1> QED BY <1>7, <1>8, <1>9, <1>10, <1>11 DEF OrderlyExit

(***************************************************************************)
(* A command that has returned has nothing left at work and says why it    *)
(* ended, however signal, failures and cancellations meet.                 *)
(***************************************************************************)
THEOREM CommandsExitOrderly == SupervisorSpec => []OrderlyExit
<1>1. SupervisorInv /\ [SupervisorNext]_supervisor => SupervisorInv'
  <2> SUFFICES ASSUME SupervisorInv, [SupervisorNext]_supervisor PROVE SupervisorInv'
    OBVIOUS
  <2>1. CASE SupervisorNext
    BY <2>1, StartInv, AsideInv, ServeReturnsInv, EndsInv, FirstResultInv, SignalSeenInv, CollectedInv,
       ReturnInv DEF SupervisorNext
  <2>2. CASE UNCHANGED supervisor
    <3>1. /\ parts' = parts /\ bound' = bound /\ command' = command /\ first' = first
          /\ collected' = collected /\ verdict' = verdict /\ signalled' = signalled
          /\ cancelled' = cancelled /\ part' = part /\ watcher' = watcher /\ results' = results
      BY <2>2 DEF supervisor, startup, supervising
    <3>2. SupervisorTypeOK' /\ Counted' /\ AtWork' /\ Causes'
      BY <3>1 DEF SupervisorInv, SupervisorTypeOK, Counted, EndedParts, AtWork, Causes, Failed
    <3>3. OrderlyExit'
      BY <3>1 DEF SupervisorInv, OrderlyExit, NothingLeftRunning, VerdictHonest, Failed
    <3> QED BY <3>2, <3>3 DEF SupervisorInv
  <2> QED BY <2>1, <2>2
<1>2. SupervisorInv => OrderlyExit
  BY DEF SupervisorInv
<1> QED BY <1>1, <1>2, SupervisorInitInv, PTL DEF SupervisorSpec

-----------------------------------------------------------------------------
(* NewFile.                                                                *)

CreatorState == { "idle", "hashing", "writing", "linking", "linked", "removing" } \cup Ended

NewFileTypeOK ==
  /\ creator \in [Creator -> CreatorState]
  /\ temp \in [Creator -> { "none", "nothing", "part", "all" }]

\* What each process knows of its temporary file and, once it has linked it,
\* of the output.
CreationInv ==
  /\ NewFileTypeOK
  /\ output # Absent => output.holds = "all"
  /\ \A c \in Creator : /\ creator[c] = "linking" => temp[c] = "all"
                        /\ creator[c] \in { "linked", "created" } => output.by = {c}
                        /\ creator[c] \in { "idle", "hashing", "created", "failed" } => temp[c] = "none"

\* A step of a process changes only its own state, and the output only by its link.
LEMMA CreationStep ==
  ASSUME CreationInv, NewFileNext
  PROVE  CreationInv' /\ (output # Absent => output' = output)
<1> USE DEF CreationInv, NewFileTypeOK, CreatorState, Ended, Goes
<1>0. PICK c \in Creator :
         \/ StatOutput(c) \/ CreateTemp(c) \/ CreateFails(c) \/ WriteSome(c)
         \/ WriteTemp(c) \/ WriteFails(c) \/ Link(c) \/ LinkFails(c) \/ RemoveTemp(c)
         \/ Killed(c)
  BY DEF NewFileNext
<1>1. CASE StatOutput(c)
  BY <1>1 DEF StatOutput
<1>2. CASE CreateTemp(c)
  BY <1>2 DEF CreateTemp
<1>3. CASE CreateFails(c)
  BY <1>3 DEF CreateFails
<1>4. CASE WriteSome(c)
  BY <1>4 DEF WriteSome
<1>5. CASE WriteTemp(c)
  BY <1>5 DEF WriteTemp
<1>6. CASE WriteFails(c)
  BY <1>6 DEF WriteFails
<1>7. CASE Link(c)
  <2>1. \A d \in Creator : creator[d] \notin { "linked", "created" }
    BY <1>7 DEF Link, Absent
  <2>2. /\ output' = [by |-> {c}, holds |-> "all"] /\ output = Absent /\ temp' = temp
        /\ creator[c] = "linking" /\ creator' = [creator EXCEPT ![c] = "linked"]
    BY <1>7 DEF Link
  <2> QED BY <2>1, <2>2
<1>8. CASE LinkFails(c)
  BY <1>8 DEF LinkFails
<1>9. CASE RemoveTemp(c)
  BY <1>9 DEF RemoveTemp
<1>10. CASE Killed(c)
  BY <1>10 DEF Killed
<1> QED BY <1>0, <1>1, <1>2, <1>3, <1>4, <1>5, <1>6, <1>7, <1>8, <1>9, <1>10

(***************************************************************************)
(* Of any number of processes that create one output, with failures and    *)
(* kills at any step, at most one makes it, whole and for good.            *)
(***************************************************************************)
THEOREM CreatedOnceOnly == NewFileSpec => CreatedOnce
<1>1. NewFileInit => CreationInv
  BY DEF NewFileInit, CreationInv, NewFileTypeOK, CreatorState
<1>2. CreationInv /\ [NewFileNext]_creation => CreationInv'
  <2>1. ASSUME CreationInv, UNCHANGED creation PROVE CreationInv'
    BY <2>1 DEF CreationInv, NewFileTypeOK, creation
  <2> QED BY <2>1, CreationStep
<1>3. CreationInv /\ [NewFileNext]_creation => [output # Absent => output' = output]_creation
  BY CreationStep
<1>4. CreationInv => CreatedIsWhole
  BY DEF CreationInv, CreatedIsWhole
<1> QED BY <1>1, <1>2, <1>3, <1>4, PTL DEF NewFileSpec, CreatedOnce, OutputStays

-----------------------------------------------------------------------------
(* Bulk.                                                                   *)

\* What an element more, and one less, means for a sequence without repetitions.
LEMMA AppendOnce ==
  ASSUME NEW T, NEW s \in Seq(T), NEW x \in T
  PROVE  /\ Append(s, x) \in Seq(T) /\ ToSet(Append(s, x)) = ToSet(s) \cup {x}
         /\ IsInjective(s) /\ x \notin ToSet(s) => IsInjective(Append(s, x))
<1>1. /\ Len(Append(s, x)) = Len(s) + 1 /\ Len(s) \in Nat
      /\ DOMAIN s = 1 .. Len(s) /\ DOMAIN Append(s, x) = 1 .. Len(s) + 1
      /\ \A i \in 1 .. Len(s) : Append(s, x)[i] = s[i]
      /\ Append(s, x)[Len(s) + 1] = x
  OBVIOUS
<1>2. ToSet(Append(s, x)) = ToSet(s) \cup {x}
  BY <1>1 DEF ToSet
<1>3. IsInjective(s) /\ x \notin ToSet(s) => IsInjective(Append(s, x))
  BY <1>1 DEF ToSet, IsInjective
<1> QED BY <1>2, <1>3

\* The head of such a sequence is not in its tail.
LEMMA TailOnce ==
  ASSUME NEW T, NEW s \in Seq(T), s # <<>>, IsInjective(s)
  PROVE  /\ Tail(s) \in Seq(T) /\ Head(s) \in T /\ IsInjective(Tail(s))
         /\ Head(s) \in ToSet(s) /\ ToSet(Tail(s)) \subseteq ToSet(s)
         /\ Head(s) \notin ToSet(Tail(s))
<1>1. /\ Len(s) \in Nat /\ Len(s) > 0 /\ DOMAIN s = 1 .. Len(s) /\ Head(s) = s[1]
      /\ Tail(s) \in Seq(T) /\ Len(Tail(s)) = Len(s) - 1 /\ DOMAIN Tail(s) = 1 .. Len(s) - 1
      /\ \A i \in 1 .. Len(s) - 1 : Tail(s)[i] = s[i + 1]
  OBVIOUS
<1>2. \A i \in 1 .. Len(s) - 1 : i + 1 \in DOMAIN s /\ i + 1 # 1
  BY <1>1
<1>3. Head(s) \in T /\ Head(s) \in ToSet(s)
  BY <1>1 DEF ToSet
<1>4. ToSet(Tail(s)) \subseteq ToSet(s) /\ Head(s) \notin ToSet(Tail(s))
  BY <1>1, <1>2 DEF ToSet, IsInjective
<1>5. IsInjective(Tail(s))
  BY <1>1, <1>2 DEF IsInjective
<1> QED BY <1>1, <1>3, <1>4, <1>5

\* A sequence without repetitions is as long as the set of its elements is large.
LEMMA CountOnce ==
  ASSUME NEW T, NEW s \in Seq(T), IsInjective(s)
  PROVE  IsFiniteSet(ToSet(s)) /\ Cardinality(ToSet(s)) = Len(s)
<1>1. s \in Bijection(1 .. Len(s), ToSet(s))
  BY DEF ToSet, IsInjective, Bijection, Injection, Surjection
<1>2. Len(s) \in Nat /\ ExistsBijection(1 .. Len(s), ToSet(s))
  BY <1>1 DEF ExistsBijection
<1> QED BY <1>2, FS_CountingElements, FS_NatBijection

BulkTypeOK ==
  /\ bulk \in { "idle", "spawning", "collecting", "returned" }
  /\ targets \in Seq(BulkTorrents) /\ IsInjective(targets)
  /\ spawned \in 0 .. Len(targets)
  /\ worker \in [1 .. Len(targets) -> { "none", "started", "answered", "returned" }]
  /\ \A i \in 1 .. Len(targets) : i > spawned => worker[i] = "none"
  /\ channel \in Seq(BulkTorrents) /\ response \in Seq(BulkTorrents)
  /\ ctxOver \in BOOLEAN /\ ctxErr \in BOOLEAN

\* The workers that have sent their answer.
SentBy(x) == \E i \in 1 .. Len(targets) : worker[i] = "returned" /\ targets[i] = x

\* Every answer in the channel or in the response was sent by a worker of its
\* own, and is in one of the two, once; a call that returns with fewer answers
\* than torrents was cut short.
BulkInv ==
  /\ BulkTypeOK
  /\ IsInjective(channel) /\ IsInjective(response)
  /\ ToSet(channel) \cap ToSet(response) = {}
  /\ \A x \in ToSet(channel) \cup ToSet(response) : SentBy(x)
  /\ bulk = "idle" => targets = <<>> /\ channel = <<>> /\ response = <<>> /\ spawned = 0
  /\ bulk = "returned" => \/ Len(response) = Len(targets)
                          \/ ctxErr \/ (ctxOver /\ op # "PauseAllDownloads")

\* The table's copy lists every torrent once.
LEMMA CopyIsOnce ==
  ASSUME NEW order \in Orders
  PROVE  order \in Seq(BulkTorrents) /\ IsInjective(order) /\ Len(order) \in Nat
<1>1. PICK S \in SUBSET BulkTorrents : order \in SetToSeqs(S)
  BY DEF Orders
<1>2. Cardinality(S) \in Nat
  BY BulkAssumption, FS_Subset, FS_CardinalityType
<1>3. /\ order \in [1 .. Cardinality(S) -> S]
      /\ \A i, j \in 1 .. Cardinality(S) : i # j => order[i] # order[j]
  BY <1>1 DEF SetToSeqs
<1>4. order \in Seq(S)
  BY <1>2, <1>3
<1>5. order \in Seq(BulkTorrents) /\ Len(order) \in Nat
  BY <1>4
<1>6. IsInjective(order)
  BY <1>3 DEF IsInjective
<1> QED BY <1>5, <1>6

\* A call begins with nothing asked and nothing answered.
LEMMA CopyInv ==
  ASSUME BulkInv, NEW o, CopyTable(o)
  PROVE  BulkInv'
<1> USE DEF BulkInv, BulkTypeOK, CopyTable
<1>1. targets' \in Seq(BulkTorrents) /\ IsInjective(targets)' /\ Len(targets') \in Nat
  BY CopyIsOnce DEF IsInjective
<1>2. channel' = <<>> /\ response' = <<>> /\ spawned' = 0
  OBVIOUS
<1>3. ToSet(channel)' = {} /\ ToSet(response)' = {}
  BY <1>2 DEF ToSet
<1>4. worker' \in [1 .. Len(targets') -> { "none", "started", "answered", "returned" }]
  OBVIOUS
<1>5. BulkTypeOK'
  BY <1>1, <1>2, <1>4
<1>6. IsInjective(channel)' /\ IsInjective(response)'
  BY <1>2 DEF IsInjective
<1> QED BY <1>2, <1>3, <1>5, <1>6

\* StartWorker and AskTorrent leave the answers alone, and so do the context
\* and the two ways to return.
LEMMA SilentInv ==
  ASSUME BulkInv,
         \/ ContextEnds \/ StartWorker \/ BulkReturns \/ CutShort
         \/ \E i \in DOMAIN worker : AskTorrent(i)
  PROVE  BulkInv'
<1> USE DEF BulkInv, BulkTypeOK
<1>0. Len(targets) \in Nat
  OBVIOUS
<1>1. /\ targets' = targets /\ channel' = channel /\ response' = response /\ op' = op
      /\ \A i \in 1 .. Len(targets) : worker[i] = "returned" => worker'[i] = "returned"
      /\ worker' \in [1 .. Len(targets) -> { "none", "started", "answered", "returned" }]
      /\ spawned' \in 0 .. Len(targets)
      /\ \A i \in 1 .. Len(targets) : i > spawned' => worker'[i] = "none"
  <2>1. CASE ContextEnds \/ BulkReturns \/ CutShort
    BY <2>1 DEF ContextEnds, BulkReturns, CutShort
  <2>2. CASE StartWorker
    <3>1. CASE spawned < Len(targets)
      <4>1. spawned + 1 \in 1 .. Len(targets)
        BY <1>0, <3>1
      <4>2. /\ spawned' = spawned + 1 /\ worker' = [worker EXCEPT ![spawned + 1] = "started"]
            /\ targets' = targets /\ channel' = channel /\ response' = response /\ op' = op
        BY <2>2, <3>1 DEF StartWorker
      <4>3. worker[spawned + 1] # "returned" /\ spawned' \in 0 .. Len(targets)
        BY <1>0, <4>1, <4>2
      <4>4. \A i \in 1 .. Len(targets) : i > spawned' => worker'[i] = "none"
        BY <1>0, <4>1, <4>2
      <4> QED BY <4>1, <4>2, <4>3, <4>4
    <3>2. CASE ~(spawned < Len(targets))
      BY <2>2, <3>2 DEF StartWorker
    <3> QED BY <3>1, <3>2
  <2>3. CASE \E i \in DOMAIN worker : AskTorrent(i)
    BY <2>3 DEF AskTorrent
  <2> QED BY <2>1, <2>2, <2>3
<1>2. \A x \in ToSet(channel) \cup ToSet(response) : SentBy(x)'
  BY <1>1 DEF SentBy
<1>3. /\ bulk' \in { "idle", "spawning", "collecting", "returned" }
      /\ ctxOver' \in BOOLEAN /\ ctxErr' \in BOOLEAN
      /\ bulk' = "idle" => bulk = "idle" /\ spawned' = 0
      /\ bulk' = "returned" => \/ Len(response) = Len(targets)
                               \/ ctxErr' \/ (ctxOver' /\ op # "PauseAllDownloads")
  BY DEF ContextEnds, StartWorker, BulkReturns, CutShort, AskTorrent
<1>4. BulkTypeOK'
  BY <1>1, <1>3 DEF IsInjective
<1>5. ToSet(channel)' = ToSet(channel) /\ ToSet(response)' = ToSet(response)
  BY <1>1 DEF ToSet
<1>6. IsInjective(channel)' /\ IsInjective(response)'
  BY <1>1 DEF IsInjective
<1> QED BY <1>1, <1>2, <1>3, <1>4, <1>5, <1>6

\* The answer a worker sends is its own torrent's, which nobody else sent.
LEMMA SendInv ==
  ASSUME BulkInv, NEW i \in DOMAIN worker, SendAnswer(i)
  PROVE  BulkInv'
<1> USE DEF BulkInv, BulkTypeOK, SendAnswer
<1>1. /\ i \in 1 .. Len(targets) /\ targets[i] \in BulkTorrents /\ DOMAIN targets = 1 .. Len(targets)
      /\ worker[i] = "answered" /\ worker' = [worker EXCEPT ![i] = "returned"]
      /\ channel' = Append(channel, targets[i])
  OBVIOUS
<1>2. ~SentBy(targets[i])
  BY <1>1 DEF SentBy, IsInjective
<1>3. targets[i] \notin ToSet(channel) /\ targets[i] \notin ToSet(response)
  BY <1>2
<1>4. /\ channel' \in Seq(BulkTorrents) /\ IsInjective(channel)'
      /\ ToSet(channel)' = ToSet(channel) \cup {targets[i]}
  BY <1>1, <1>3, AppendOnce
<1>5. /\ targets' = targets /\ response' = response /\ spawned' = spawned /\ bulk' = bulk
      /\ ctxOver' = ctxOver /\ ctxErr' = ctxErr /\ op' = op /\ bulk # "idle"
      /\ ToSet(response)' = ToSet(response) /\ IsInjective(response)' /\ IsInjective(targets)'
  <2>1. bulk # "idle"
    <3>1. Len(targets) # 0
      BY <1>1
    <3> QED BY <3>1
  <2> QED BY <2>1
<1>6. \A x \in ToSet(channel)' \cup ToSet(response)' : SentBy(x)'
  <2>1. SentBy(targets[i])'
    BY <1>1, <1>5 DEF SentBy
  <2>2. \A x : SentBy(x) => SentBy(x)'
    BY <1>1, <1>5 DEF SentBy
  <2> QED BY <1>4, <1>5, <2>1, <2>2
<1>7. BulkTypeOK'
  BY <1>1, <1>4, <1>5
<1> QED BY <1>3, <1>4, <1>5, <1>6, <1>7

\* An answer goes from the channel to the response.
LEMMA CollectInv ==
  ASSUME BulkInv, CollectAnswer
  PROVE  BulkInv'
<1> USE DEF BulkInv, BulkTypeOK, CollectAnswer
<1>1. channel # <<>> /\ response' = Append(response, Head(channel)) /\ channel' = Tail(channel)
  OBVIOUS
<1>2. /\ channel' \in Seq(BulkTorrents) /\ Head(channel) \in BulkTorrents /\ IsInjective(channel)'
      /\ Head(channel) \in ToSet(channel) /\ ToSet(channel)' \subseteq ToSet(channel)
      /\ Head(channel) \notin ToSet(channel)'
  BY <1>1, TailOnce
<1>3. /\ response' \in Seq(BulkTorrents) /\ IsInjective(response)'
      /\ ToSet(response)' = ToSet(response) \cup {Head(channel)}
  BY <1>1, <1>2, AppendOnce
<1>4. /\ targets' = targets /\ worker' = worker /\ bulk' = "collecting" /\ spawned' = spawned
      /\ ctxOver' = ctxOver /\ ctxErr' = ctxErr /\ IsInjective(targets)'
  OBVIOUS
<1>5. \A x : SentBy(x) => SentBy(x)'
  BY <1>4 DEF SentBy
<1>6. BulkTypeOK'
  BY <1>2, <1>3, <1>4
<1> QED BY <1>2, <1>3, <1>4, <1>5, <1>6

\* The invariant is inductive.
LEMMA BulkStepInv == BulkInv /\ [BulkNext]_fanout => BulkInv'
<1> SUFFICES ASSUME BulkInv, [BulkNext]_fanout PROVE BulkInv'
  OBVIOUS
<1>1. CASE UNCHANGED fanout
  <2>1. /\ op' = op /\ bulk' = bulk /\ targets' = targets /\ spawned' = spawned /\ worker' = worker
        /\ channel' = channel /\ response' = response /\ ctxOver' = ctxOver /\ ctxErr' = ctxErr
    BY <1>1 DEF fanout
  <2> QED BY <2>1 DEF BulkInv, BulkTypeOK, SentBy
<1>2. CASE BulkNext
  BY <1>2, CopyInv, SilentInv, SendInv, CollectInv DEF BulkNext, TorrentStatuses, PauseAllDownloads
<1> QED BY <1>1, <1>2

\* The invariant holds before the call.
LEMMA BulkInitInv == BulkInit => BulkInv
<1> SUFFICES ASSUME BulkInit PROVE BulkInv
  OBVIOUS
<1>1. Len(targets) = 0 /\ ToSet(channel) = {} /\ ToSet(response) = {}
  BY DEF BulkInit, ToSet
<1>2. IsInjective(targets) /\ IsInjective(channel) /\ IsInjective(response)
  BY DEF BulkInit, IsInjective
<1>3. worker \in [1 .. Len(targets) -> { "none", "started", "answered", "returned" }]
  <2>1. <<>> \in Seq({ "none", "started", "answered", "returned" }) /\ Len(<<>>) = 0
    OBVIOUS
  <2> QED BY <1>1, <2>1 DEF BulkInit
<1>4. BulkTypeOK
  <2>1. targets \in Seq(BulkTorrents) /\ channel \in Seq(BulkTorrents) /\ response \in Seq(BulkTorrents)
    BY DEF BulkInit
  <2>2. spawned \in 0 .. Len(targets) /\ \A i \in 1 .. Len(targets) : FALSE
    BY <1>1 DEF BulkInit
  <2> QED BY <1>2, <1>3, <2>1, <2>2 DEF BulkInit, BulkTypeOK
<1> QED BY <1>1, <1>2, <1>4 DEF BulkInit, BulkInv

\* Answers are the torrents' own, and a worker that has not sent has none under way.
LEMMA AnswersKnown ==
  ASSUME BulkInv
  PROVE  /\ ToSet(channel) \subseteq ToSet(targets) /\ ToSet(response) \subseteq ToSet(targets)
         /\ \A i \in 1 .. Len(targets) : /\ targets[i] \in ToSet(targets)
                                         /\ worker[i] = "answered" => targets[i] \notin ToSet(channel)
<1>1. targets \in Seq(BulkTorrents) /\ DOMAIN targets = 1 .. Len(targets) /\ IsInjective(targets)
  BY DEF BulkInv, BulkTypeOK
<1>2. \A x : SentBy(x) => x \in ToSet(targets)
  BY <1>1 DEF SentBy, ToSet
<1>3. \A i \in 1 .. Len(targets) : targets[i] \in ToSet(targets)
  BY <1>1 DEF ToSet
<1>4. \A i \in 1 .. Len(targets) : worker[i] = "answered" => ~SentBy(targets[i])
  BY <1>1 DEF SentBy, IsInjective
<1> QED BY <1>2, <1>3, <1>4 DEF BulkInv

(***************************************************************************)
(* A bulk call answers for every torrent once, or says that it was cut     *)
(* short: as many different answers as torrents are the answers of all.    *)
(***************************************************************************)
THEOREM BulkAnswersExact == BulkSpec => []AnswersExact
<1>1. ASSUME BulkInv PROVE AnswersExact
  <2> USE <1>1 DEF BulkInv, BulkTypeOK
  <2>1. ToSet(response) \subseteq ToSet(targets)
    BY AnswersKnown
  <2>2. ASSUME Len(response) = Len(targets) PROVE ToSet(response) = ToSet(targets)
    <3>1. /\ IsFiniteSet(ToSet(targets)) /\ Cardinality(ToSet(targets)) = Len(targets)
          /\ Cardinality(ToSet(response)) = Len(response)
      BY CountOnce
    <3> QED BY <2>1, <2>2, <3>1, FS_Subset
  <2> QED BY <2>1, <2>2 DEF AnswersExact
<1> QED BY <1>1, BulkInitInv, BulkStepInv, PTL DEF BulkSpec

(***************************************************************************)
(* There is room in the channel for every worker that has its answer, also *)
(* when the collector has left: no send ever blocks.                       *)
(***************************************************************************)
THEOREM SendsNeverBlock ==
  BulkSpec => [](\A i \in 1 .. Len(targets) : worker[i] = "answered" => Len(channel) < Len(targets))
<1>1. ASSUME BulkInv, NEW i \in 1 .. Len(targets), worker[i] = "answered"
      PROVE  Len(channel) < Len(targets)
  <2> USE <1>1 DEF BulkInv, BulkTypeOK
  <2>1. targets[i] \in ToSet(targets) /\ targets[i] \notin ToSet(channel)
    BY AnswersKnown
  <2>2. ToSet(channel) \in SUBSET ToSet(targets)
    BY AnswersKnown
  <2>3. /\ IsFiniteSet(ToSet(targets)) /\ Cardinality(ToSet(targets)) = Len(targets)
        /\ Cardinality(ToSet(channel)) = Len(channel)
    BY CountOnce
  <2>4. Len(channel) <= Len(targets) /\ Len(channel) # Len(targets)
    BY <2>1, <2>2, <2>3, FS_Subset
  <2>5. Len(channel) \in Nat /\ Len(targets) \in Nat
    OBVIOUS
  <2> QED BY <2>4, <2>5
<1>2. BulkInv => \A i \in 1 .. Len(targets) : worker[i] = "answered" => Len(channel) < Len(targets)
  BY <1>1
<1> QED BY <1>2, BulkInitInv, BulkStepInv, PTL DEF BulkSpec
============================================================================
