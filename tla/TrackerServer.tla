--------------------------- MODULE TrackerServer ---------------------------
(***************************************************************************)
(* The tracker (tracker/server.go): the table of swarms behind one mutex,  *)
(* announce requests handled by concurrent HTTP handlers, and snapshots    *)
(* taken by an observer.  A handler reads the clock before it takes the    *)
(* mutex, so updates may reach the table out of the order of their times.  *)
(*                                                                         *)
(* A member of Handler serves one request after the other, of any peer: a  *)
(* peer that gave up on a request and sent another has two in flight.      *)
(* Addresses, ports and byte counts are carried along unread and are left  *)
(* out.  heard, overtaken and answer only record what happened, for the    *)
(* properties.                                                             *)
(***************************************************************************)
EXTENDS Integers, FiniteSets

CONSTANTS
  InfoHash, PeerID,
  Allowed,               \* allowedInfoHashes, or InfoHash for none
  Handler,               \* the goroutines that serve announce requests
  peerTTL,
  maxPeersPerAnnounce,
  MaxTime,               \* bound: when the clock stops
  None

ASSUME TrackerAssumption ==
  /\ Allowed \subseteq InfoHash
  /\ peerTTL \in Nat /\ maxPeersPerAnnounce \in Nat \ {0} /\ MaxTime \in Nat
  /\ None \notin Nat

\* Every event but stopped, completed and no event included, is treated alike.
Event == { "started", "stopped" }
Time  == 0 .. MaxTime

VARIABLES
  clock,
  swarms,     \* the info hashes with an entry in s.swarms
  lastSeen,   \* LastSeen of each peer in each swarm; None: no entry
  asked,      \* the request each handler is about to apply, with its time
  heard,      \* the newest announce of each peer, by its time, that was applied
  overtaken,  \* the peers of which an older announce was applied after it
  answer      \* the last answer or snapshot: its time and the entries it shows

history == <<heard, overtaken>>
vars    == <<clock, swarms, lastSeen, asked, history, answer>>

Entry    == [peer : PeerID, seen : Time]
Announce == [infoHash : InfoHash, peer : PeerID, event : Event, now : Time]
Table    == [InfoHash -> [PeerID -> Time \cup {None}]]

Empty == [h \in InfoHash |-> [i \in PeerID |-> None]]

TypeOK ==
  /\ clock \in Time
  /\ swarms \subseteq InfoHash
  /\ lastSeen \in Table
  /\ heard \in [InfoHash -> [PeerID -> Announce \cup {None}]]
  /\ overtaken \subseteq InfoHash \X PeerID
  /\ asked \in [Handler -> Announce \cup {None}]
  /\ answer \in [now : Time, entries : SUBSET Entry]

Init ==
  /\ clock = 0
  /\ swarms = {} /\ lastSeen = Empty
  /\ asked = [r \in Handler |-> None]
  /\ heard = Empty /\ overtaken = {} /\ answer = [now |-> 0, entries |-> {}]

-----------------------------------------------------------------------------
Expired_early(seen, now) == seen # None /\ now - seen >= peerTTL
Expired_never(seen, now) == FALSE

Expired(seen, now) == seen # None /\ now - seen > peerTTL

Pruned(h, now) == [i \in PeerID |-> IF Expired(lastSeen[h][i], now) THEN None ELSE lastSeen[h][i]]

Listed(swarm) == { i \in PeerID : swarm[i] # None }

Entries(swarm) == { [peer |-> i, seen |-> swarm[i]] : i \in Listed(swarm) }

Tick == /\ clock < MaxTime
        /\ clock' = clock + 1
        /\ UNCHANGED <<swarms, lastSeen, asked, history, answer>>

\* ServeHTTP up to the call of announce: a request for a torrent that is not
\* allowed is answered with a failure and goes no further.
ServeHTTP(r, h, i, e) ==
  /\ asked[r] = None /\ h \in Allowed
  /\ asked' = [asked EXCEPT ![r] = [infoHash |-> h, peer |-> i, event |-> e, now |-> clock]]
  /\ UNCHANGED <<clock, swarms, lastSeen, history, answer>>

\* The time an announce leaves in the table.
Mark(a) == IF a.event = "stopped" THEN None ELSE a.now

Updated_alias(a) ==
  LET swarm == Pruned(a.infoHash, a.now)
  IN  IF Listed(swarm) = {} /\ a.infoHash \in swarms THEN swarm
      ELSE [swarm EXCEPT ![a.peer] = Mark(a)]

\* The swarm after the announce a.
Updated(a) == [Pruned(a.infoHash, a.now) EXCEPT ![a.peer] = Mark(a)]

Keys_grow(h, swarm) == swarms \cup {h}

\* An emptied swarm is deleted from the table.
Keys(h, swarm) == IF Listed(swarm) = {} THEN swarms \ {h} ELSE swarms \cup {h}

Others_self(swarm, i) == Listed(swarm)

Others(swarm, i) == Listed(swarm) \ {i}

\* Map iteration picks any maxPeersPerAnnounce of the others.
Chosen(swarm, i) ==
  LET others == Others(swarm, i)
  IN  IF Cardinality(others) <= maxPeersPerAnnounce THEN {others}
      ELSE { s \in SUBSET others : Cardinality(s) = maxPeersPerAnnounce }

\* What is heard of a peer: an announce may come after one that is newer.
Heard(a) ==
  LET h == a.infoHash  i == a.peer
  IN  IF heard[h][i] # None /\ a.now < heard[h][i].now
        THEN overtaken' = overtaken \cup {<<h, i>>} /\ UNCHANGED heard
        ELSE heard' = [heard EXCEPT ![h][i] = a] /\ overtaken' = overtaken \ {<<h, i>>}

announce(r) ==
  LET a == asked[r]
      swarm == Updated(a)
  IN  /\ a # None
      /\ lastSeen' = [lastSeen EXCEPT ![a.infoHash] = swarm]
      /\ swarms' = Keys(a.infoHash, swarm)
      /\ \E peers \in Chosen(swarm, a.peer) :
           answer' = [now |-> a.now,
                      entries |-> { entry \in Entries(swarm) : entry.peer \in peers }]
      /\ Heard(a)
      /\ asked' = [asked EXCEPT ![r] = None]
      /\ UNCHANGED clock

\* Snapshot; time passes between its reading of the clock and its lock.
Snapshot(now) ==
  /\ now <= clock
  /\ lastSeen' = [h \in InfoHash |-> Pruned(h, now)]
  /\ swarms' = { h \in swarms : Listed(Pruned(h, now)) # {} }
  /\ answer' = [now |-> now, entries |-> UNION { Entries(Pruned(h, now)) : h \in InfoHash }]
  /\ UNCHANGED <<clock, asked, history>>

Next == \/ Tick
        \/ \E r \in Handler, h \in InfoHash, i \in PeerID, e \in Event : ServeHTTP(r, h, i, e)
        \/ \E r \in Handler : announce(r)
        \/ \E now \in Time : Snapshot(now)

Spec == Init /\ [][Next]_vars

-----------------------------------------------------------------------------
(***************************************************************************)
(* Answers and snapshots are fresh: no peer is handed to a client or shown *)
(* to an observer once its TTL had passed at the time of the request,      *)
(* whatever happened while the handler waited for the mutex.               *)
(***************************************************************************)
NothingStale == \A entry \in answer.entries : answer.now - entry.seen <= peerTTL

(***************************************************************************)
(* A client is never told of itself, and gets all the other peers it may:  *)
(* nobody is left out of an answer that has room.                          *)
(***************************************************************************)
AnswersFull ==
  [][\A r \in Handler : asked[r] # None /\ asked'[r] = None =>
       LET told == { entry.peer : entry \in answer'.entries }
           others == Listed(lastSeen'[asked[r].infoHash]) \ {asked[r].peer}
       IN  told \subseteq others /\ (told = others \/ Cardinality(told) = maxPeersPerAnnounce)]_vars

(***************************************************************************)
(* The table does not grow with torrents nobody serves: s.swarms has an    *)
(* entry for exactly the allowed info hashes that have a peer.             *)
(***************************************************************************)
NoEmptySwarm == /\ \A h \in InfoHash : h \in swarms <=> Listed(lastSeen[h]) # {}
                /\ swarms \subseteq Allowed

(***************************************************************************)
(* A peer leaves the table only by its own stopped announce, or because a  *)
(* request or snapshot whose time is past the TTL of its LastSeen prunes   *)
(* it: never by the announces of others before that, not even at the very  *)
(* last moment.                                                            *)
(***************************************************************************)
DroppedForCause ==
  [][\A h \in InfoHash, i \in PeerID : lastSeen[h][i] # None /\ lastSeen'[h][i] = None =>
       \/ clock - lastSeen[h][i] > peerTTL
       \/ \E r \in Handler : /\ asked[r] # None /\ asked'[r] = None
                             /\ asked[r].infoHash = h /\ asked[r].peer = i
                             /\ asked[r].event = "stopped"]_vars

\* What the table says of peer i in swarm h, next to its newest announce.
ListedAsHeard(h, i) ==
  LET newest == heard[h][i]
  IN  /\ lastSeen[h][i] # None => newest # None /\ lastSeen[h][i] <= newest.now
      /\ newest # None /\ <<h, i>> \notin overtaken =>
           IF newest.event = "stopped" THEN lastSeen[h][i] = None
           ELSE clock - newest.now <= peerTTL => lastSeen[h][i] = newest.now

(***************************************************************************)
(* Who is heard is listed: from the newest announce of a peer until its    *)
(* TTL has passed it stays in its swarm with the time of that announce,    *)
(* and a peer whose newest announce was a stop is not there, whatever the  *)
(* announces of others and snapshots prune.  This holds unless an older    *)
(* announce of the same peer is applied after the newest: the code lets    *)
(* that happen and then sets LastSeen back, so that until its next         *)
(* announce the peer may be dropped within the TTL of its newest one, or   *)
(* listed although it has stopped.  Even then no entry is younger than the *)
(* newest announce, and nobody is listed of whom nothing was heard.        *)
(***************************************************************************)
HeardIsListed == \A h \in InfoHash, i \in PeerID : ListedAsHeard(h, i)

\* No time in the table or in a handler is ahead of the clock.
TimeInv == /\ \A h \in InfoHash, i \in PeerID : lastSeen[h][i] # None => lastSeen[h][i] <= clock
           /\ \A r \in Handler : asked[r] # None => /\ asked[r].now <= clock
                                                     /\ asked[r].infoHash \in Allowed

Inv == TypeOK /\ TimeInv /\ NoEmptySwarm
=============================================================================
