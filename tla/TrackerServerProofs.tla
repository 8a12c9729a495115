------------------------ MODULE TrackerServerProofs ------------------------
(***************************************************************************)
(* TrackerServer for any torrents, peers and handlers, any TTL and any     *)
(* size of answers.                                                        *)
(***************************************************************************)
EXTENDS TrackerServer, TLAPS

\* Times are natural numbers, and None is not one of them.
LEMMA Times == /\ Time \subseteq Nat /\ Time \subseteq Int /\ None \notin Time
               /\ peerTTL \in Nat /\ MaxTime \in Nat /\ 0 \in Time
BY TrackerAssumption DEF Time

\* What is in a swarm after the prune at a time: exactly the entries that are not too old.
LEMMA PrunedSwarm ==
  ASSUME TypeOK, NEW h \in InfoHash, NEW now \in Time
  PROVE  /\ Pruned(h, now) \in [PeerID -> Time \cup {None}]
         /\ \A i \in PeerID : Pruned(h, now)[i] # None =>
              Pruned(h, now)[i] = lastSeen[h][i] /\ now - lastSeen[h][i] <= peerTTL
         /\ \A i \in PeerID : lastSeen[h][i] # None /\ now - lastSeen[h][i] <= peerTTL =>
              Pruned(h, now)[i] = lastSeen[h][i]
<1>1. \A i \in PeerID : lastSeen[h][i] \in Time \cup {None}
  BY DEF TypeOK, Table
<1>2. \A i \in PeerID : Pruned(h, now)[i] = IF Expired(lastSeen[h][i], now) THEN None
                                            ELSE lastSeen[h][i]
  BY DEF Pruned
<1>3. \A i \in PeerID : lastSeen[h][i] # None =>
        (Expired(lastSeen[h][i], now) <=> ~(now - lastSeen[h][i] <= peerTTL))
  <2> SUFFICES ASSUME NEW t \in Time
               PROVE  (now - t > peerTTL) <=> ~(now - t <= peerTTL)
    BY <1>1 DEF Expired
  <2> QED BY Times
<1>4. Pruned(h, now) \in [PeerID -> Time \cup {None}]
  BY <1>1 DEF Pruned
<1> QED BY <1>2, <1>3, <1>4

\* An announce touches the swarm by pruning it and by its own entry.
LEMMA UpdatedSwarm ==
  ASSUME TypeOK, NEW a \in Announce
  PROVE  /\ Updated(a) \in [PeerID -> Time \cup {None}]
         /\ Updated(a)[a.peer] = Mark(a) /\ Mark(a) \in Time \cup {None}
         /\ \A i \in PeerID \ {a.peer} : Updated(a)[i] = Pruned(a.infoHash, a.now)[i]
<1>1. a.infoHash \in InfoHash /\ a.peer \in PeerID /\ a.now \in Time
  BY DEF Announce
<1>2. Pruned(a.infoHash, a.now) \in [PeerID -> Time \cup {None}]
  BY <1>1, PrunedSwarm
<1>3. Mark(a) \in Time \cup {None}
  BY <1>1 DEF Mark
<1> QED BY <1>1, <1>2, <1>3 DEF Updated

\* The entries of a swarm.
LEMMA SwarmEntries ==
  ASSUME NEW swarm \in [PeerID -> Time \cup {None}]
  PROVE  /\ Entries(swarm) \subseteq Entry
         /\ \A entry \in Entries(swarm) : /\ entry.peer \in Listed(swarm)
                                          /\ entry.seen = swarm[entry.peer]
         /\ \A i \in Listed(swarm) : \E entry \in Entries(swarm) : entry.peer = i
<1>1. \A i \in Listed(swarm) : i \in PeerID /\ swarm[i] \in Time
  BY DEF Listed
<1>2. \A entry \in Entries(swarm) : \E i \in Listed(swarm) : entry = [peer |-> i, seen |-> swarm[i]]
  BY DEF Entries
<1>3. \A i \in Listed(swarm) : [peer |-> i, seen |-> swarm[i]] \in Entries(swarm)
  BY DEF Entries
<1>4. Entries(swarm) \subseteq Entry
  BY <1>1, <1>2 DEF Entry
<1>5. \A entry \in Entries(swarm) : entry.peer \in Listed(swarm) /\ entry.seen = swarm[entry.peer]
  BY <1>2
<1>6. \A i \in Listed(swarm) : \E entry \in Entries(swarm) : entry.peer = i
  BY <1>3
<1> QED BY <1>4, <1>5, <1>6

\* An empty tracker satisfies the invariant.
LEMMA InitInv == Init => Inv /\ NothingStale /\ HeardIsListed
<1> SUFFICES ASSUME Init PROVE Inv /\ NothingStale /\ HeardIsListed
  OBVIOUS
<1> USE DEF Init, Empty
<1>1. TypeOK
  BY Times DEF TypeOK, Table
<1>2. TimeInv /\ NoEmptySwarm
  BY DEF TimeInv, NoEmptySwarm, Listed
<1>3. NothingStale /\ HeardIsListed
  BY DEF NothingStale, HeardIsListed, ListedAsHeard
<1> QED BY <1>1, <1>2, <1>3 DEF Inv

\* Time passes: nothing in the table gets ahead of the clock.
LEMMA TickInv ==
  ASSUME Inv, NothingStale, HeardIsListed, Tick
  PROVE  (Inv /\ NothingStale /\ HeardIsListed)'
<1> USE DEF Inv, Tick
<1>0. /\ clock \in Time /\ clock' \in Time /\ clock' = clock + 1
      /\ \A t \in Time : t <= clock => t <= clock'
      /\ \A t \in Time : clock' - t <= peerTTL => clock - t <= peerTTL
  BY Times DEF TypeOK, Time
<1>1. TypeOK'
  BY <1>0 DEF TypeOK, history
<1>2. TimeInv'
  BY <1>0 DEF TimeInv, TypeOK, Table, Announce
<1>3. NoEmptySwarm'
  BY DEF NoEmptySwarm, Listed
<1>4. HeardIsListed'
  <2> SUFFICES ASSUME NEW h \in InfoHash, NEW i \in PeerID PROVE ListedAsHeard(h, i)'
    BY DEF HeardIsListed
  <2>1. ListedAsHeard(h, i) /\ (heard[h][i] # None => heard[h][i].now \in Time)
    BY DEF HeardIsListed, TypeOK, Announce
  <2> QED BY <1>0, <2>1 DEF ListedAsHeard, history
<1>5. NothingStale'
  BY DEF NothingStale
<1> QED BY <1>1, <1>2, <1>3, <1>4, <1>5

\* A handler notes a request of an allowed torrent with the time it reads.
LEMMA ServeInv ==
  ASSUME Inv, NothingStale, HeardIsListed,
         NEW r \in Handler, NEW h \in InfoHash, NEW i \in PeerID, NEW e \in Event,
         ServeHTTP(r, h, i, e)
  PROVE  (Inv /\ NothingStale /\ HeardIsListed)'
<1> USE DEF Inv, ServeHTTP
<1>0. [infoHash |-> h, peer |-> i, event |-> e, now |-> clock] \in Announce /\ clock <= clock
  BY Times DEF Announce, TypeOK
<1>1. TypeOK'
  BY <1>0 DEF TypeOK, history
<1>2. TimeInv'
  BY <1>0 DEF TimeInv, TypeOK
<1>3. NoEmptySwarm'
  BY DEF NoEmptySwarm, Listed
<1>4. HeardIsListed' /\ NothingStale'
  BY DEF HeardIsListed, ListedAsHeard, NothingStale, history
<1> QED BY <1>1, <1>2, <1>3, <1>4

\* Handler r applies the request a and answers with peers.
Applies(r, a, peers) ==
  /\ a = asked[r] /\ a # None /\ a.infoHash \in Allowed /\ a.now <= clock
  /\ peers \in Chosen(Updated(a), a.peer)
  /\ lastSeen' = [lastSeen EXCEPT ![a.infoHash] = Updated(a)]
  /\ swarms' = Keys(a.infoHash, Updated(a))
  /\ answer' = [now |-> a.now,
                entries |-> { entry \in Entries(Updated(a)) : entry.peer \in peers }]
  /\ Heard(a)
  /\ asked' = [asked EXCEPT ![r] = None]
  /\ clock' = clock

\* What announce(r) does, in terms of the request a it applies.
LEMMA AnnounceStep ==
  ASSUME Inv, NEW r \in Handler, announce(r)
  PROVE  \E a \in Announce, peers \in SUBSET PeerID : Applies(r, a, peers)
<1> DEFINE a == asked[r]
<1>1. a \in Announce /\ a.infoHash \in Allowed /\ a.now <= clock
  BY DEF Inv, TypeOK, TimeInv, announce
<1>2. PICK peers \in Chosen(Updated(a), a.peer) :
        answer' = [now |-> a.now,
                   entries |-> { entry \in Entries(Updated(a)) : entry.peer \in peers }]
  BY DEF announce
<1>3. peers \subseteq PeerID
  BY DEF Chosen, Others, Listed
<1> QED BY <1>1, <1>2, <1>3 DEF announce, Applies

\* The entries that survive an announce are at most peerTTL old at its time.
LEMMA AnnouncedFresh ==
  ASSUME TypeOK, NEW a \in Announce, NEW entry \in Entries(Updated(a))
  PROVE  entry \in Entry /\ a.now - entry.seen <= peerTTL
<1>1. a.infoHash \in InfoHash /\ a.peer \in PeerID /\ a.now \in Time
  BY DEF Announce
<1>2. Updated(a) \in [PeerID -> Time \cup {None}]
  BY UpdatedSwarm
<1>3. /\ entry \in Entry /\ entry.peer \in Listed(Updated(a))
      /\ entry.seen = Updated(a)[entry.peer]
  BY <1>2, SwarmEntries
<1>4. entry.peer \in PeerID /\ entry.seen # None
  BY <1>3 DEF Listed
<1>5. CASE entry.peer = a.peer
  <2>1. entry.seen = a.now
    BY <1>3, <1>4, <1>5, UpdatedSwarm DEF Mark
  <2>2. \A t \in Time : t - t <= peerTTL
    BY Times
  <2> QED BY <2>1, <2>2, <1>1, <1>3
<1>6. CASE entry.peer # a.peer
  BY <1>1, <1>3, <1>4, <1>6, UpdatedSwarm, PrunedSwarm
<1> QED BY <1>5, <1>6

\* What is heard with an announce: nothing of the other peers, and of its own
\* peer nothing newer than what was heard already, if that is newer.
LEMMA HeardStep ==
  ASSUME TypeOK, NEW a \in Announce, a # None, Heard(a)
  PROVE  /\ heard' \in [InfoHash -> [PeerID -> Announce \cup {None}]]
         /\ overtaken' \subseteq InfoHash \X PeerID
         /\ \A h \in InfoHash, i \in PeerID : h # a.infoHash \/ i # a.peer =>
              heard'[h][i] = heard[h][i] /\ (<<h, i>> \in overtaken' <=> <<h, i>> \in overtaken)
         /\ heard'[a.infoHash][a.peer] # None /\ a.now <= heard'[a.infoHash][a.peer].now
         /\ <<a.infoHash, a.peer>> \notin overtaken' => heard'[a.infoHash][a.peer] = a
<1> DEFINE h == a.infoHash
           i == a.peer
<1>0. \A s, t \in Time : t <= t /\ (s < t => s <= t)
  BY Times
<1>1. h \in InfoHash /\ i \in PeerID /\ a.now \in Time
  BY DEF Announce
<1>2. heard \in [InfoHash -> [PeerID -> Announce \cup {None}]] /\ overtaken \subseteq InfoHash \X PeerID
  BY DEF TypeOK
<1>3. CASE heard[h][i] # None /\ a.now < heard[h][i].now
  <2>1. heard' = heard /\ overtaken' = overtaken \cup {<<h, i>>}
    BY <1>3 DEF Heard
  <2>2. heard[h][i].now \in Time
    BY <1>1, <1>2, <1>3 DEF Announce
  <2>3. a.now <= heard[h][i].now
    BY <1>0, <1>1, <1>3, <2>2
  <2> QED BY <1>1, <1>2, <1>3, <2>1, <2>3
<1>4. CASE ~(heard[h][i] # None /\ a.now < heard[h][i].now)
  <2>1. heard' = [heard EXCEPT ![h][i] = a] /\ overtaken' = overtaken \ {<<h, i>>}
    BY <1>4 DEF Heard
  <2> QED BY <1>0, <1>1, <1>2, <2>1
<1> QED BY <1>3, <1>4

\* A prune by a time that is not ahead of the clock removes nobody who is fresh.
LEMMA PruneKeeps ==
  ASSUME TypeOK, NEW h \in InfoHash, NEW i \in PeerID, NEW now \in Time, now <= clock,
         ListedAsHeard(h, i),
         clock' = clock, heard'[h][i] = heard[h][i],
         <<h, i>> \in overtaken' <=> <<h, i>> \in overtaken,
         lastSeen'[h][i] = Pruned(h, now)[i]
  PROVE  ListedAsHeard(h, i)'
<1>1. clock \in Time /\ (heard[h][i] # None => heard[h][i].now \in Time)
  BY DEF TypeOK, Announce
<1>2. lastSeen'[h][i] # None => lastSeen'[h][i] = lastSeen[h][i]
  BY PrunedSwarm
<1>3. ASSUME heard[h][i] # None, lastSeen[h][i] = heard[h][i].now,
             clock - heard[h][i].now <= peerTTL
      PROVE  lastSeen'[h][i] = heard[h][i].now
  <2>1. lastSeen[h][i] # None /\ now - lastSeen[h][i] <= peerTTL
    BY <1>1, <1>3, Times
  <2> QED BY <1>3, <2>1, PrunedSwarm
<1>4. lastSeen'[h][i] # None => heard[h][i] # None /\ lastSeen'[h][i] <= heard[h][i].now
  BY <1>2 DEF ListedAsHeard
<1>5. heard[h][i] # None /\ <<h, i>> \notin overtaken =>
        IF heard[h][i].event = "stopped" THEN lastSeen'[h][i] = None
        ELSE clock - heard[h][i].now <= peerTTL => lastSeen'[h][i] = heard[h][i].now
  BY <1>2, <1>3 DEF ListedAsHeard
<1> QED BY <1>4, <1>5 DEF ListedAsHeard

\* An announce keeps the invariant, whatever its time is by now.
LEMMA AnnounceInv ==
  ASSUME Inv, NothingStale, HeardIsListed, NEW r \in Handler, announce(r)
  PROVE  (Inv /\ NothingStale /\ HeardIsListed)'
<1> USE DEF Inv, Applies
<1>0. PICK a \in Announce, peers \in SUBSET PeerID : Applies(r, a, peers)
  BY AnnounceStep
<1>1. a.infoHash \in InfoHash /\ a.peer \in PeerID /\ a.now \in Time /\ clock \in Time
  BY DEF Announce, TypeOK
<1>2. /\ Updated(a) \in [PeerID -> Time \cup {None}]
      /\ Updated(a)[a.peer] = Mark(a) /\ Mark(a) \in Time \cup {None}
      /\ \A i \in PeerID \ {a.peer} : Updated(a)[i] = Pruned(a.infoHash, a.now)[i]
  BY UpdatedSwarm
<1>3. lastSeen \in Table
  BY DEF TypeOK
<1>4. /\ lastSeen'[a.infoHash] = Updated(a)
      /\ \A h \in InfoHash \ {a.infoHash} : lastSeen'[h] = lastSeen[h]
  BY <1>0, <1>1, <1>3 DEF Table
<1>5. /\ \A h \in InfoHash, i \in PeerID : h # a.infoHash \/ i # a.peer =>
           heard'[h][i] = heard[h][i] /\ (<<h, i>> \in overtaken' <=> <<h, i>> \in overtaken)
      /\ heard'[a.infoHash][a.peer] # None /\ a.now <= heard'[a.infoHash][a.peer].now
      /\ <<a.infoHash, a.peer>> \notin overtaken' => heard'[a.infoHash][a.peer] = a
  BY <1>0, HeardStep
<1>6. TypeOK'
  <2>1. swarms' \subseteq InfoHash
    BY <1>0, <1>1 DEF Keys, TypeOK
  <2>2. lastSeen' \in Table
    BY <1>0, <1>1, <1>2, <1>3 DEF Table
  <2>3. /\ heard' \in [InfoHash -> [PeerID -> Announce \cup {None}]]
        /\ overtaken' \subseteq InfoHash \X PeerID
    BY <1>0, HeardStep
  <2>4. asked' \in [Handler -> Announce \cup {None}]
    BY <1>0 DEF TypeOK
  <2>5. { entry \in Entries(Updated(a)) : entry.peer \in peers } \subseteq Entry
    BY <1>2, SwarmEntries
  <2>6. answer' \in [now : Time, entries : SUBSET Entry]
    BY <1>0, <1>1, <2>5
  <2> QED BY <2>1, <2>2, <2>3, <2>4, <2>6, <1>0, <1>1 DEF TypeOK
<1>7. TimeInv'
  <2>1. ASSUME NEW h \in InfoHash, NEW i \in PeerID, lastSeen'[h][i] # None
        PROVE  lastSeen'[h][i] <= clock
    <3>1. CASE h # a.infoHash
      BY <1>4, <2>1, <3>1 DEF TimeInv
    <3>2. CASE h = a.infoHash /\ i = a.peer
      <4>1. lastSeen'[h][i] = Mark(a)
        BY <1>2, <1>4, <3>2
      <4>2. lastSeen'[h][i] = a.now
        BY <4>1, <2>1 DEF Mark
      <4> QED BY <4>2, <1>0
    <3>3. CASE h = a.infoHash /\ i # a.peer
      <4>1. lastSeen'[h][i] = Pruned(a.infoHash, a.now)[i]
        BY <1>2, <1>4, <3>3
      <4>2. lastSeen'[h][i] = lastSeen[h][i]
        BY <4>1, <2>1, <1>1, <3>3, PrunedSwarm
      <4> QED BY <4>2, <2>1 DEF TimeInv
    <3> QED BY <3>1, <3>2, <3>3
  <2>2. \A q \in Handler : asked'[q] # None => asked'[q] = asked[q]
    BY <1>0 DEF TypeOK
  <2> QED BY <2>1, <2>2, <1>0 DEF TimeInv
<1>8. NoEmptySwarm'
  <2>1. \A h \in InfoHash : h # a.infoHash => (h \in swarms' <=> h \in swarms)
    BY <1>0 DEF Keys
  <2>2. a.infoHash \in swarms' <=> Listed(Updated(a)) # {}
    BY <1>0 DEF Keys
  <2>3. swarms' \subseteq Allowed
    BY <1>0 DEF Keys, NoEmptySwarm
  <2>4. ASSUME NEW h \in InfoHash PROVE h \in swarms' <=> Listed(lastSeen'[h]) # {}
    <3>1. CASE h = a.infoHash
      BY <2>2, <1>4, <3>1
    <3>2. CASE h # a.infoHash
      BY <2>1, <1>4, <3>2 DEF NoEmptySwarm
    <3> QED BY <3>1, <3>2
  <2> QED BY <2>3, <2>4 DEF NoEmptySwarm, Listed
<1>9. NothingStale'
  <2>1. /\ answer'.now = a.now
        /\ answer'.entries \subseteq Entries(Updated(a))
    BY <1>0
  <2> QED BY <2>1, AnnouncedFresh DEF NothingStale
<1>10. HeardIsListed'
  <2> SUFFICES ASSUME NEW h \in InfoHash, NEW i \in PeerID PROVE ListedAsHeard(h, i)'
    BY DEF HeardIsListed
  <2>0. ListedAsHeard(h, i)
    BY DEF HeardIsListed
  <2>1. CASE h = a.infoHash /\ i = a.peer
    <3>1. lastSeen'[h][i] = Mark(a)
      BY <1>2, <1>4, <2>1
    <3> QED BY <3>1, <1>5, <2>1 DEF ListedAsHeard, Mark
  <2>2. CASE h # a.infoHash
    BY <1>0, <1>4, <1>5, <2>0, <2>2 DEF ListedAsHeard
  <2>3. CASE h = a.infoHash /\ i # a.peer
    <3>1. lastSeen'[h][i] = Pruned(h, a.now)[i]
      BY <1>2, <1>4, <2>3
    <3>2. /\ heard'[h][i] = heard[h][i] /\ (<<h, i>> \in overtaken' <=> <<h, i>> \in overtaken)
          /\ clock' = clock /\ a.now <= clock
      BY <1>0, <1>5, <2>3
    <3> QED BY <1>1, <2>0, <3>1, <3>2, PruneKeeps
  <2> QED BY <2>1, <2>2, <2>3
<1> QED BY <1>6, <1>7, <1>8, <1>9, <1>10

\* A snapshot keeps the invariant, although it prunes with a time of the past.
LEMMA SnapshotInv ==
  ASSUME Inv, NothingStale, HeardIsListed, NEW now \in Time, Snapshot(now)
  PROVE  (Inv /\ NothingStale /\ HeardIsListed)'
<1> USE DEF Inv
<1>0. /\ now <= clock /\ clock' = clock /\ asked' = asked /\ clock \in Time
      /\ heard' = heard /\ overtaken' = overtaken
      /\ \A h \in InfoHash : lastSeen'[h] = Pruned(h, now)
      /\ swarms' = { h \in swarms : Listed(Pruned(h, now)) # {} }
      /\ answer' = [now |-> now, entries |-> UNION { Entries(Pruned(h, now)) : h \in InfoHash }]
  BY DEF Snapshot, TypeOK, history
<1>1. \A h \in InfoHash : Pruned(h, now) \in [PeerID -> Time \cup {None}]
  BY PrunedSwarm
<1>2. \A h \in InfoHash, i \in PeerID : lastSeen'[h][i] # None =>
        lastSeen'[h][i] = lastSeen[h][i] /\ now - lastSeen[h][i] <= peerTTL
  BY <1>0, PrunedSwarm
<1>3. ASSUME NEW entry \in answer'.entries
      PROVE  entry \in Entry /\ now - entry.seen <= peerTTL
  <2>1. PICK h \in InfoHash : entry \in Entries(Pruned(h, now))
    BY <1>0, <1>3
  <2>2. /\ entry \in Entry /\ entry.peer \in Listed(Pruned(h, now))
        /\ entry.seen = Pruned(h, now)[entry.peer]
    BY <1>1, <2>1, SwarmEntries
  <2>3. entry.peer \in PeerID /\ entry.seen # None
    BY <2>2 DEF Listed
  <2> QED BY <2>2, <2>3, PrunedSwarm
<1>4. TypeOK'
  <2>1. lastSeen' \in Table
    BY <1>1 DEF Snapshot, Table
  <2>2. answer' \in [now : Time, entries : SUBSET Entry]
    <3>1. answer'.entries \subseteq Entry
      BY <1>3
    <3> QED BY <3>1, <1>0
  <2> QED BY <2>1, <2>2, <1>0 DEF TypeOK
<1>5. TimeInv'
  BY <1>0, <1>2 DEF TimeInv
<1>6. NoEmptySwarm'
  <2>1. \A h \in InfoHash : Listed(Pruned(h, now)) \subseteq Listed(lastSeen[h])
    BY PrunedSwarm DEF Listed
  <2>2. ASSUME NEW h \in InfoHash PROVE h \in swarms' <=> Listed(lastSeen'[h]) # {}
    BY <2>1, <1>0 DEF NoEmptySwarm
  <2> QED BY <2>2, <1>0 DEF NoEmptySwarm, Listed
<1>7. NothingStale'
  BY <1>0, <1>3 DEF NothingStale
<1>8. HeardIsListed'
  BY <1>0, PruneKeeps DEF HeardIsListed
<1> QED BY <1>4, <1>5, <1>6, <1>7, <1>8

\* The three together are inductive.
LEMMA StepInv ==
  Inv /\ NothingStale /\ HeardIsListed /\ [Next]_vars => (Inv /\ NothingStale /\ HeardIsListed)'
<1> SUFFICES ASSUME Inv, NothingStale, HeardIsListed, [Next]_vars
             PROVE  (Inv /\ NothingStale /\ HeardIsListed)'
  OBVIOUS
<1>1. CASE Tick
  BY <1>1, TickInv
<1>2. ASSUME NEW r \in Handler, NEW h \in InfoHash, NEW i \in PeerID, NEW e \in Event,
             ServeHTTP(r, h, i, e)
      PROVE  (Inv /\ NothingStale /\ HeardIsListed)'
  BY <1>2, ServeInv
<1>3. ASSUME NEW r \in Handler, announce(r) PROVE (Inv /\ NothingStale /\ HeardIsListed)'
  BY <1>3, AnnounceInv
<1>4. ASSUME NEW now \in Time, Snapshot(now) PROVE (Inv /\ NothingStale /\ HeardIsListed)'
  BY <1>4, SnapshotInv
<1>5. CASE UNCHANGED vars
  BY <1>5 DEF vars, Inv, TypeOK, TimeInv, NoEmptySwarm, Listed, NothingStale, HeardIsListed,
              ListedAsHeard, history
<1> QED BY <1>1, <1>2, <1>3, <1>4, <1>5 DEF Next

(***************************************************************************)
(* The table is well formed at every step: no time is ahead of the clock   *)
(* and s.swarms has an entry for exactly the torrents with a peer.         *)
(***************************************************************************)
THEOREM TableSound == Spec => []Inv
BY InitInv, StepInv, PTL DEF Spec

(***************************************************************************)
(* No answer or snapshot shows a peer that was past its TTL.               *)
(***************************************************************************)
THEOREM AnswersFresh == Spec => []NothingStale
BY InitInv, StepInv, PTL DEF Spec

(***************************************************************************)
(* A peer is listed as its newest announce says, until its TTL has passed  *)
(* since, unless an older announce of the same peer was applied later.     *)
(***************************************************************************)
THEOREM HeardStays == Spec => []HeardIsListed
BY InitInv, StepInv, PTL DEF Spec

(***************************************************************************)
(* A peer leaves the table only past its TTL or by its own stop.           *)
(***************************************************************************)
THEOREM DroppedOnlyForCause == Spec => DroppedForCause
<1>1. ASSUME Inv, [Next]_vars, NEW h \in InfoHash, NEW i \in PeerID,
             lastSeen[h][i] # None, lastSeen'[h][i] = None
      PROVE  \/ clock - lastSeen[h][i] > peerTTL
             \/ \E r \in Handler : /\ asked[r] # None /\ asked'[r] = None
                                   /\ asked[r].infoHash = h /\ asked[r].peer = i
                                   /\ asked[r].event = "stopped"
  <2>1. TypeOK /\ lastSeen[h][i] \in Time /\ clock \in Time
    BY <1>1 DEF Inv, TypeOK, Table
  <2>2. ASSUME NEW now \in Time, now <= clock, Pruned(h, now)[i] = None
        PROVE  clock - lastSeen[h][i] > peerTTL
    <3>1. ~(now - lastSeen[h][i] <= peerTTL)
      BY <1>1, <2>1, <2>2, PrunedSwarm
    <3>2. \A t, m, c \in Time : m <= c /\ ~(m - t <= peerTTL) => c - t > peerTTL
      BY Times
    <3> QED BY <3>1, <3>2, <2>1, <2>2
  <2>3. ASSUME NEW r \in Handler, announce(r)
        PROVE  \/ clock - lastSeen[h][i] > peerTTL
               \/ /\ asked[r] # None /\ asked'[r] = None
                  /\ asked[r].infoHash = h /\ asked[r].peer = i
                  /\ asked[r].event = "stopped"
    <3> USE DEF Applies
    <3>1. PICK a \in Announce, peers \in SUBSET PeerID : Applies(r, a, peers)
      BY <1>1, <2>3, AnnounceStep
    <3>2. /\ a.infoHash \in InfoHash /\ a.peer \in PeerID /\ a.now \in Time
          /\ a # None /\ asked'[r] = None
      BY <3>1, <2>1, <2>3 DEF Announce, TypeOK, announce
    <3>3. h = a.infoHash /\ lastSeen'[h] = Updated(a)
      BY <1>1, <2>1, <3>1, <3>2 DEF TypeOK, Table
    <3>4. CASE i = a.peer
      <4>1. Mark(a) = None
        BY <1>1, <2>1, <3>3, <3>4, UpdatedSwarm
      <4>2. a.event = "stopped"
        BY <4>1, <3>2, Times DEF Mark
      <4> QED BY <4>2, <3>1, <3>2, <3>3, <3>4
    <3>5. CASE i # a.peer
      <4>1. Pruned(h, a.now)[i] = None
        BY <1>1, <2>1, <3>3, <3>5, UpdatedSwarm
      <4> QED BY <4>1, <3>1, <3>2, <2>2
    <3> QED BY <3>4, <3>5
  <2>4. ASSUME NEW now \in Time, Snapshot(now) PROVE clock - lastSeen[h][i] > peerTTL
    BY <1>1, <2>2, <2>4 DEF Snapshot
  <2>5. ~Tick /\ ~UNCHANGED vars
    BY <1>1 DEF Tick, vars
  <2>6. ASSUME NEW r \in Handler, NEW g \in InfoHash, NEW j \in PeerID, NEW e \in Event
        PROVE  ~ServeHTTP(r, g, j, e)
    BY <1>1 DEF ServeHTTP
  <2> QED BY <1>1, <2>3, <2>4, <2>5, <2>6 DEF Next
<1>2. Inv /\ [Next]_vars =>
        [\A h \in InfoHash, i \in PeerID : lastSeen[h][i] # None /\ lastSeen'[h][i] = None =>
           \/ clock - lastSeen[h][i] > peerTTL
           \/ \E r \in Handler : /\ asked[r] # None /\ asked'[r] = None
                                 /\ asked[r].infoHash = h /\ asked[r].peer = i
                                 /\ asked[r].event = "stopped"]_vars
  BY <1>1
<1> QED BY <1>2, TableSound, PTL DEF Spec, DroppedForCause

(***************************************************************************)
(* No client is told of itself, and nobody is left out of an answer with   *)
(* room: whichever peers the iteration over the map picks.                 *)
(***************************************************************************)
THEOREM AnswersAreFull == Spec => AnswersFull
<1>1. ASSUME Inv, [Next]_vars, NEW r \in Handler, asked[r] # None, asked'[r] = None
      PROVE  LET told == { entry.peer : entry \in answer'.entries }
                 others == Listed(lastSeen'[asked[r].infoHash]) \ {asked[r].peer}
             IN  told \subseteq others /\ (told = others \/ Cardinality(told) = maxPeersPerAnnounce)
  <2>1. announce(r)
    <3>1. ~Tick /\ ~UNCHANGED vars
      BY <1>1 DEF Tick, vars
    <3>2. ASSUME NEW q \in Handler, NEW g \in InfoHash, NEW j \in PeerID, NEW e \in Event,
                 ServeHTTP(q, g, j, e)
          PROVE  FALSE
      BY <1>1, <3>2 DEF ServeHTTP, Inv, TypeOK
    <3>3. ASSUME NEW now \in Time PROVE ~Snapshot(now)
      BY <1>1 DEF Snapshot
    <3>4. ASSUME NEW q \in Handler, announce(q) PROVE q = r
      BY <1>1, <3>4 DEF announce, Inv, TypeOK
    <3> QED BY <1>1, <3>1, <3>2, <3>3, <3>4 DEF Next
  <2> USE DEF Applies
  <2>2. PICK a \in Announce, peers \in SUBSET PeerID : Applies(r, a, peers)
    BY <1>1, <2>1, AnnounceStep
  <2>3. Updated(a) \in [PeerID -> Time \cup {None}] /\ a.infoHash \in InfoHash
    BY <1>1, UpdatedSwarm DEF Inv, Announce
  <2>4. lastSeen'[a.infoHash] = Updated(a)
    BY <1>1, <2>2, <2>3 DEF Inv, TypeOK, Table
  <2> DEFINE others == Listed(Updated(a)) \ {a.peer}
             told == { entry.peer : entry \in answer'.entries }
  <2>5. peers \subseteq others /\ (peers = others \/ Cardinality(peers) = maxPeersPerAnnounce)
    BY <2>2 DEF Chosen, Others
  <2>6. told = peers
    <3>1. \A p \in told : p \in peers
      BY <2>2
    <3>2. ASSUME NEW p \in peers PROVE p \in told
      <4>1. PICK entry \in Entries(Updated(a)) : entry.peer = p
        BY <2>3, <2>5, SwarmEntries
      <4>2. entry \in answer'.entries
        BY <4>1, <2>2
      <4> QED BY <4>1, <4>2
    <3> QED BY <3>1, <3>2
  <2> QED BY <2>2, <2>4, <2>5, <2>6
<1>2. Inv /\ [Next]_vars =>
        [\A r \in Handler : asked[r] # None /\ asked'[r] = None =>
           LET told == { entry.peer : entry \in answer'.entries }
               others == Listed(lastSeen'[asked[r].infoHash]) \ {asked[r].peer}
           IN  told \subseteq others /\ (told = others \/ Cardinality(told) = maxPeersPerAnnounce)]_vars
  BY <1>1
<1> QED BY <1>2, TableSound, PTL DEF Spec, AnswersFull
=============================================================================
