# MoleSwarm: models, checks and proofs

TLA+ models of MoleSwarm, a BitTorrent client and tracker in Go, the TLC runs
that check them on small instances, and TLAPS proofs for instances of any size.
Paths are relative to the root of the repository.

## 1. The system

| Part | Source | State it keeps | Operations |
|---|---|---|---|
| piece arithmetic | `torrent/pieces.go` | none | count, offset, length, block requests, bytes left |
| event loop, peers, transfer | `torrent/run.go`, `peers.go`, `transfer.go`, `peer.go`, `pieces.go` | `peers`, `pending`, pieces, per-peer flags and queues, connections | one handler per event and message; a reader and a writer goroutine per peer |
| lifecycle and requests | `torrent/run.go`, `requests.go`, `torrent.go` | `running`, `cancel`, `done`, `closeErr`, `file`, `downloadMode`, two request channels | `RunDownload`, `Close`, `ReqStatus`, `PauseDownload`, `ResumeDownload` |
| staged storage | `torrent/file.go`, `piece.go` | piece states, generations, buffers, the file | accept a block, take a job, verify and write, apply the result, recheck |
| tracker server | `tracker/server.go` | swarms, peers and when they were last seen | announce, snapshot, prune |
| process-level client | `client/client.go` | the table of torrents, the listener, pending handshakes | register, start, unregister, `ServePeers` |
| bulk operations | `client/management.go` | none of their own | `TorrentStatuses`, `PauseAllDownloads`: ask every torrent at once |
| status, discovery | `torrent/status.go`, `torrent/discovery.go` | none of their own | reports, announces, handshakes |
| peer wire | `protocol/message.go`, `protocol/handshake.go` | none; a peer's bitfield in `torrent/peer.go` | read and write messages and handshakes |
| bencode, metainfo | `protocol/bencode.go`, `protocol/metainfo.go` | none | decode, encode, parse, hash |
| tracker wire | `tracker/announce.go`, `tracker/client.go` | none | the query of an announce and its answer, on both ends |
| commands | `cmd/torrent/main.go`, `cmd/tracker/main.go` | listeners, components, configuration | `create`, `seed`, `download`, `tracker serve`: start, wait, stop |
| daemon | `torrentd/*` | metainfo records | unfinished; does not compile |

How they interact.  The client's `ServePeers` starts a goroutine per incoming
connection; it reads the handshake, finds the torrent and calls
`AcceptIncomingPeer`, which offers the connection to the torrent's loop on the
unbuffered channel `peerEvents`.  The loop dials what the tracker lists.  Each
active peer has a reader, which sends events on `peerEvents`, and a writer,
which takes messages from the bounded channel `outgoing`.  The loop never
blocks on a writer: a full queue is an error that removes the peer.  The loop
alone touches peers, requests and pieces; other goroutines reach it through
channels, by cancelling its context, and through the fields behind
`lifecycleMu`.  The tracker serves every announce in its own HTTP handler, with
one mutex around the table.  The commands run the client's listener, the
torrent and a status page, or the tracker and its status page, as components
under one context, and stop all of them when one ends or a signal comes.

What is hard.  Events of connections that are gone, of a connection with the
same id, or of an earlier run; queues that fill up in the middle of a handler;
contexts that end between a check and its use; locks released between a lookup
and the call it was made for; hash failures and failing writes with blocks of
several peers in one piece; crashes around a write; times taken before a lock;
two clients that dial each other; collectors that leave before their workers;
numbers, lengths and texts from outside at the edges of what is allowed.
`PROJECT.json` lists each of these at its line under `hazards`.

## 2. Modules

| Module | Models | Instance for TLC | Proofs |
|---|---|---|---|
| `PieceGeometry` | the arithmetic of pieces and blocks, with wrap-around of uint32 as `% Word`, and what makes it right | `MCFormats` | `FormatsProofs` |
| `Geometries` | the inputs of `PieceGeometry` | `MCFormats` | `FormatsProofs` |
| `TorrentLoop` | the event loop with its peers, goroutines, blocks and runs | `MCTorrentLoop` | `TorrentLoopProofs` |
| `BlockLedger` | what the loop promises about blocks: the abstract specification | | refinement in `TorrentLoopProofs` |
| `Seeders` | `TorrentLoop` composed with remote sides that behave as this program's serving side does | `MCSeeders` | |
| `TorrentControl` | the lifecycle of a torrent and its requests | `MCTorrentControl` | `TorrentControlProofs` |
| `FileStorage` | staged storage with workers and crashes | `MCFileStorage` | `FileStorageProofs` |
| `PieceStore` | what staged storage promises about whole pieces: the abstract specification | | refinement in `FileStorageProofs` |
| `TrackerServer` | the tracker's table under concurrent handlers | `MCTrackerServer` | `TrackerServerProofs` |
| `Client` | registry, starts, removals and `ServePeers` | `MCClient`, `MCProcesses` | `ClientProofs` |
| `Pairing` | two clients that dial each other | `MCProcesses` | `ProcessesProofs` |
| `Supervisor` | start and stop of the commands and their components | `MCProcesses` | `ProcessesProofs` |
| `Bulk` | operations on all torrents of a client | `MCProcesses` | `ProcessesProofs` |
| `NewFile` | the output file of `create`, with several processes and crashes | `MCProcesses` | `ProcessesProofs` |
| `PeerWire` | messages, handshakes and bitfields | `MCFormats` | `ConnectionsProofs` |
| `Connections` | the inputs of `PeerWire`, and its properties | `MCFormats` | `ConnectionsProofs` |
| `Durations` | int64, durations and the interval of the loop's timer | `MCFormats` | |
| `Decimal` | natural numbers as digits | `MCFormats` | `ConnectionsProofs` |
| `AnnounceQuery` | the query of an announce, built and parsed; intervals in seconds | `MCFormats` | `ConnectionsProofs` |
| `Announces` | the inputs of `AnnounceQuery`, and its properties | `MCFormats` | `ConnectionsProofs` |
| `TrackerConfig` | environment, flags and allow list of the tracker | `MCFormats` | `FormatsProofs` |
| `Configurations` | the inputs of `TrackerConfig`, and its properties | `MCFormats` | `FormatsProofs` |
| `Bencode` | the decoder and the encoder | `MCFormats` | |
| `MetaInfo` | metainfo files, `create`, `fetchMetaInfo`, `VerifyExisting` | `MCFormats` | |
| `TrackerWire` | the answers to announces | `MCFormats` | |
| `Samples` | the variable that holds one input | `MCFormats` | |
| `Formats` | all inputs together, and the properties of the three modules above that are recursive or rest on recursion | `MCFormats` | |

`Bencode` extends `Durations` and `Decimal`, and so does `AnnounceQuery`;
`MetaInfo` extends `Bencode` and `PieceGeometry`, `TrackerWire` extends `Bencode`
and `AnnounceQuery`, `TrackerConfig` extends `Durations`.  `Geometries`,
`Connections`, `Announces` and `Configurations` extend `Samples` and the module
whose inputs they make, and `Formats` extends all of these, `MetaInfo` and
`TrackerWire`.  The recursive definitions of bencode are in modules of
their own, above everything that has theorems.
`MCProcesses` puts five machines that share nothing into one state space: the
variable `machine` says which of them moves.

Definitions named like `Released_none` or `beginRun_unguarded`, with the name of
another definition before the underscore, are plausible mistakes in that
definition.  Nothing uses them; substituting one shows that the property listed
with it in `PROJECT.json` would catch the mistake.

### TorrentLoop

`peers` and `pending` are the maps of the same names, from ids and blocks, with
`None` for no entry.  A member of `Peer` is one `*peer` value, that is, one
connection; `IdOf` gives the id in its handshake, so that two connections may
share an id.  `pc` says where the loop's goroutine is: in an announce
(`start`), in `connectTrackerPeers` (`connect`), at its select, in the middle of
a broadcast or of `fillRequestWindow`, or on its way through the deferred
`finishRun`.

A handler is one step, because nothing else touches what it reads, except for
the lengths of the queues, which writers shorten at any time.  The two handlers
that send several messages (the broadcast of Have and `fillRequestWindow`)
therefore send one per step, in any order of the peers for the broadcast (map
iteration) and in order of pieces and blocks for requests.

What a remote side sends is chosen when the loop handles it, from all ten
kinds; bad bytes, unexpected blocks and disconnections at any time are
included.  Bytes are right or wrong.  `received` and `corrupt` are the blocks
in memory, `complete` the flags, `good` what the file really holds.  `expired`
marks goroutines whose context belongs to a run that is over.  The counters
`uploaded` and `downloaded` are left out: they only feed reports.

### Seeders

The same actions of the loop, with remote sides that send exactly what
`activatePeer`, `handleProtocolMessage` and `serveBlock` would: a full bitfield,
Unchoke after Interested, and a right block after each request.  Members of
`Leaving` may hang up at any time.

### TorrentControl

The loop of `TorrentLoop` is reduced to where it may wait: at its select, in an
announce, in a dial (`connect`, with the number of candidates still to try) or in
the handshake that follows it.  In exchange any
number of calls of `RunDownload`, `Close` and the request methods interleave at
every lock, channel operation and context check.  A run has a number: `done`
and `cancel` as they are read under the lock are that number, `ended` holds the
numbers whose `done` is closed and `cancelled` those whose context is done.
`closeErr` is left out.  So are the broadcasts of `changeDownloadMode`: no case
of its switch can be reached (section 6).

### FileStorage

The states of `piece`, its generation and buffer, and per worker the job or
result it holds.  `WriteAt` is two steps, so that a crash can fall between them
and leave a partial piece.  A crash empties the memory, and `newFileStorage`
sets states from what the file holds.  This code is called only by tests so
far; the model follows their protocol (one job to one worker, one result
applied once), and the proofs show that under it no result is ever stale.

### TrackerServer

A handler notes the time (`ServeHTTP`) and later, in one step under the mutex,
prunes, updates and answers (`announce`).  `Snapshot` may take any time not
ahead of the clock.  The choice of peers from a Go map is any choice of the
right size.  `heard` (the newest announce of each peer, by its time),
`overtaken` (the peers of which an older announce was applied after that one)
and `answer` (the last answer, with the times of its entries) are history, for
the properties only.

### Client

A torrent is reduced to whether it is between `beginRun` and `finishRun` and
whether its context is done.  `StartTorrentDownload` is two steps, the lookup
and `RunDownload`; `UnregisterTorrent` is the deletion, `Close`, and its wait.
`ServePeers` and each handler move independently, up to the last two statements
of the handler's deferred function, which are separate steps.

### Pairing

Two loops and the connections between them.  A loop that dials is at that
connection, in `connectPeer`, and takes nothing else; the handler on the other
side answers the handshake and then offers the connection to its own loop.
`activate` is `activatePeer`: the connection that is in the table stays.
`ends` holds the sides whose end of a connection is open; a reader whose
connection is closed on the other side reports it (`PeerGone`).  The network may
drop an active connection, and dials come back with every announce, without a
bound: a connection's name is used again when nothing of it is left.  Both
simultaneous connections can be lost, each closed by the side that kept the
other, until a later announce; `SidesAgree` is about where this ends.

### Supervisor

`runSingleTorrent` and the tracker's `serve` have one shape and are one model;
`parts` says which components the command has.  `part` holds where a component
is and then the kind of its error: a cancellation or a failure.  `results` is
the channel, `watcher` the goroutine that calls `Shutdown`.  `ServePeers`
and `RunDownload` end once.  `ServePeers` does when its context is done, as
`ServeEnds` of `Client` says; of `RunDownload` that is not assumed (section 4).
The command in the repository still calls `torrent.NewClient` and `RunTorrent`,
names from before the client became a package of its own; the model takes them
for `client.New` and `StartTorrentDownload`.

### Bulk

One call of `TorrentStatuses` or `PauseAllDownloads`.  The order of `targets` is
any order, as of a map.  A torrent may answer or not, as `RequestsReturn` of
`TorrentControl` leaves open; what it answers does not matter here.

### NewFile

Every system call of `create` and `writeNewFile` is a step that may fail, and a
process may be killed between any two.  The removal of the temporary file is
taken to succeed, and the machine keeps running: nothing here is about power
loss, against which the code does not guard (no `Sync`).

### PeerWire, AnnounceQuery, TrackerWire, Bencode, MetaInfo, TrackerConfig

Pure operators with the names of the functions.  Bytes are kept, but small: a
byte of the peer wire has `Bits` bits and a word `WordBytes` bytes; a byte of a
bencoded text is a symbol, where a dictionary key counts as one, and `Alphabet`
gives the order of the symbols.  `MaxInt64`, `Second`, `PortValues` and the size
limits are constants, so that the edges are within reach.  SHA-1 and SHA-256
are taken to be free of collisions: a digest shows what was hashed.  In
`TrackerConfig` the standard library's parsers and the file system are
constants: the texts that are durations or hashes, and the files that can be
read.

`Geometries`, `Connections`, `Announces`, `Configurations` and `Formats` make
inputs of them, most of them growing step by step: contents by a byte, streams
by a message, frames by a fault, texts by a token, dictionaries by an
entry, command lines by a flag.  The properties compare the two ends (what one
side writes with what the other reads), what is accepted with its one encoding,
and what is served with what the operator wrote.

## 3. Runs

| Run | Properties | Instance |
|---|---|---|
| `formats` | `GeometryExact` (`BlocksTile`, `BlocksServable`, `BytesLeftExact`); `PeersUnderstood` (`Canonical`, `StaysInStep`, `ClaimsExact`); `IdentityKept` (`BencodeCanonical`, `RewriteKeepsIdentity`, `FetchAuthentic`, `CreateSeedable`); `AnnouncesUnderstood` (`RequestUnderstood`, `AnswerUnderstood`, `TimerNeverBusy`, `IntervalHeard`); `ConfigurationSound` (`ServesWhatIsNamed`, `ClientsOutliveInterval`) | contents up to 14 bytes, piece lengths up to 16, blocks of 3, words of 16; every message with extreme payloads and two faults, streams of two messages cut anywhere; texts of four tokens after a beginning; every metainfo of the listed entries; two peers per answer; every interval; two flags after every environment |
| `loop_download` | `Inv`, `CompleteVerified`, `StoreBlockSafe`, `ProgressKept`, `LedgerSpec` | two peers, a piece of two blocks, queue of 1, right and wrong bytes, failing writes |
| `loop_same_id` | `PendingHasReader`, `NoLeakedConnection`, `ActiveHasReader`, `InterestedUnchoked`, `RequestKept` | a dialled and an incoming connection with one id, two runs, two pieces, downloading and serving |
| `loop_live` | `CancelStops`, `GoroutinesReturn` | two connections, two runs |
| `seeders` | `RequestsResolve`, `CompletesUndisturbed` | two seeders that may leave, two pieces |
| `seeder_leaves` (violation) | `LeecherCompletes` | two seeders, one may leave |
| `control` | `Inv` (with `OneLoop`), `CloseMeansClosed`, `FileNotPulledAway`, `OnlyOwnRunCancelled`, `RequestsReturn`, `CloseReturns` | two runs, two requests that meet in one channel or use both, one Close, one candidate per answer of the tracker |
| `control_pause` (violation) | `PauseTakesEffect` | one run, two requests |
| `storage` | `Inv` (with `OneOwner`, `CompleteOnDisk`), `NoRefetch`, `StoreSpec`, `Settles` | two pieces (two blocks; one short block), two workers, two attempts per piece and process, any number of crashes |
| `tracker` | `Inv`, `NothingStale`, `HeardIsListed`, `AnswersFull`, `DroppedForCause` | three peers, two handlers, answers of one peer, TTL 1, time up to 3; two info hashes, one allowed |
| `processes` | `Client`: `Inv` (with `ServeCleansUp`, `SomebodyCloses`); `Pairing`: `OneConnection` (`SidesAgree`, `NoStrayEnd`); `Supervisor`: `OrderlyExit` (`NothingLeftRunning`, `VerdictHonest`); `Bulk`: `AnswersExact`; `NewFile`: `CreatedOnce` (`CreatedIsWhole`, `OutputStays`); all of them: `NobodyWaitsForEver` (`ServeEnds`, `DialsEnd`, `DeadPeersLeave`, `CommandEnds`, `WorkersReturn`) | two starts, one removal, one incoming connection; two connections dialled by each of two sides; the four shapes of a command; up to three torrents; three creators |
| `client_unregister` (violation) | `UnregisteredStops` | one start, one removal |

What each property says is in the comment above its definition.  A property with
others in brackets is their conjunction, and `PROJECT.json` has a
mutant that breaks each of them.

Bounds.  Two connections are what an event can be confused between, and one
place or one id is enough for them to compete; a queue of length 1 is full in
the middle of every handler that sends twice; a piece of two blocks has a first
and a last block, which may come from different peers, and two pieces of one
block give a window something to reserve after a broadcast.  `MaxRuns` is 2
where one run's leftovers could meet the next.  In `processes`, connections of a client share
nothing but the set of pending ones, each adding and removing only itself, so
one connection meets every start, removal and stop of `ServePeers`.  `MaxCandidates` is
1 in `control`: a cancelled run can be stuck in one handshake only, and reannounces
bring another candidate.  `MaxGeneration`, `MaxTime` and
`MaxLength` only stop counters: two attempts show a retry, and times past twice
the TTL show an entry that is fresh, at its limit, and past it, twice.  The theorems of
section 5 have no such bounds.  In `Pairing` one connection of a side can be
dying while the next is dialled, which takes two names per side.  In `formats`
the limits (`maxMetaInfoSize`, `maxResponseSize`, `maxPeerMessageSize`,
`maxBencodingDepth`) are set so that some inputs lie below, at and above them.

Symmetry is used in `loop_download` (peers along with their ids) and `tracker`
(peers, handlers), which check no liveness.  The view in `MCTorrentLoop`
drops the flags and the queue of a connection that is closed, not in the table
and not being handled: no later step reads them before the connection's last
events are thrown away, and no property mentions them.

Deadlock is not checked: a torrent whose runs are over, a client whose
`ServePeers` has returned, a command that has ended, an input at its bound and a
tracker nobody calls may stop.

## 4. Fairness

Weak fairness for goroutines that can move and for handlers, which return.
Strong fairness for the cases of the loop's select and for sends that compete
for a channel: Go chooses among ready cases at random and serves the senders
waiting on a channel in order.  Nothing is assumed of the tracker and of other peers, except
in `Seeders`, where a seeder sends what it owes, and in `Pairing`, where the
other side is this program too.  A read or write on a connection this side has
closed fails, and an announce or a dial returns once its context is done, as the
standard library promises.

A handshake has neither: `connectPeer` reads it on the loop's goroutine with no
deadline and no context (`torrent/peers.go:94`), so that a peer which accepts the
connection and then says nothing holds the loop, the requests to it and `Close`
for ever.  The models have these behaviours, and the liveness properties name
them as the one way out: `CancelStops` and `CloseReturns` promise an end unless
the loop is in a handshake (in `TorrentLoop`, in `connectTrackerPeers`) from some
point on for ever; `RequestsReturn` promises an answer unless the run that was
asked waits for ever in an announce, a dial or a handshake, since only a cancelled
run is sure to come back from the first two; `CommandEnds` allows a
`RunDownload` that goes on for ever after its context is done, and `WorkersReturn`
a torrent that never answers a request whose context goes on.  Everything else that could
hold up a call, such as an abandoned request in a channel, a full reply channel
or a later run, is ruled out.  No document of the repository says that the hang
cannot happen, so it is not listed among the violations.
  In `FileStorage` a write that is tried again and again
succeeds in the end.  In `Pairing` the report of a dead connection is
strongly fair: it competes with the other cases of the select and is shut out
while the loop dials.  In `Supervisor` `ServePeers` ends when its
context is done, and `Shutdown` after its five seconds at the latest.  In `MCProcesses` the
fairness of all machines is conjoined; no fair action of a machine is enabled in
its initial states, so that a machine that does not move asks for nothing.
Nobody is assumed to cancel, close, crash, signal, fail or call.

## 5. Proofs

All with TLAPS, for every value of the constants that satisfies the named
assumptions (types of the constants, `None` is nobody, a queue has room for one
message, an answer of the tracker for one peer, a byte for every message id,
`MaxCandidates` a natural number).  `PairingAssumption` says that
there are two sides, `BulkAssumption` that a client has finitely many torrents.

`TorrentLoopProofs`.  `Inv` is inductive.  Besides types it says that whoever is
in the table, owns a request or is being handled belongs to the current run and
has a reader that has not returned, unless the run is cancelled (`InRun`), and
that queues of new connections are empty, so that the Bitfield fits.
`PendingHasReader` needs it because `fillRequestWindow` may reserve requests for
a peer that the broadcast before it removed: the request is safe only since the
reader of this run still has to report.  There is one lemma per group of actions
(run, goroutines, events, messages, handlers).  From `Inv` follow `Verified`,
`NoStorePanic`, `NoOrphanRequest`, `NoLeak` and `NoZombie`; the action properties
`RequestsKept` and `ProgressIsKept` use it together with a lemma on how each
step changes `pending`.  `InterestAnswered` needs besides that a connection not
yet in the table has no interest on record (`UnchokedInv`); lemma `FlagSteps`
separates the two messages that touch the flags from all other steps.
`LoopImplementsLedger` proves the refinement: every
step is a step of `BlockLedger` under `owner <- pending, held <- received,
verified <- complete`, or leaves these three alone.

`TorrentControlProofs`.  `Inv` adds to `OneLoop` that the run under way carries
the last number and its `done` is open (`RunInv`), that a run about to end has
closed the file (`FileInv`), and what a Close that has returned knows
(`HeldInv`); `ClosedIsClosed` and `FileKept` rest on it, and so does
`CancelledOnPurpose`: whoever cancels in a step is the loop's own caller, the
loop that ends, or a Close that holds this run's number.

`FileStorageProofs`.  `CompleteOnDisk`, `OneOwner` and `NoRefetch` are inductive
only together with what a worker knows (`WorkerInv`: from the hash to the write
the bytes are right and not yet in the file; a result without an error means
they are) and with an empty memory while the process is down.
`StorageImplementsStore` proves the refinement of `PieceStore` under
`open <- up, inFile <- InFile, wanted <- Wanted, served <- Served`.  That
`WriteAt` may destroy what it overwrites, and `PieceStore` loses nothing, is
where it needs `WorkerInv`: nobody writes a piece that is in the file already.

`TrackerServerProofs`.  `Inv`, `NothingStale` and `HeardIsListed` are inductive
together: `HeardIsListed` needs that no handler's time is ahead of the clock
(`TimeInv`), so that pruning by an old or a new time removes nobody who is fresh
now (`PruneKeeps`).  It compares the table with the newest announce of each peer
by its time, not with the one applied last.  The two differ when an older
announce of the same peer gets the mutex later: the code then sets `LastSeen`
back (`tracker/server.go:201-205`), so that the peer can be dropped within the
TTL of its newest announce, or be listed after its stop, until it announces
again.  The property makes an exception for exactly these peers (`overtaken`),
and says of them, too, that their entries are not younger than what was heard.
Lemmas say what a prune keeps (`PrunedSwarm`), what one announce does to the
table and to the history (`UpdatedSwarm`, `HeardStep`, `AnnounceStep`), and what
may be in an answer (`AnnouncedFresh`).  `DroppedOnlyForCause` and `AnswersAreFull` are action
properties on top of them.

`ClientProofs`.  `Inv` (`ServeCleansUp`, `SomebodyCloses`) is not inductive: a
connection handed to a torrent is closed by its run, so the proof needs that a
torrent's run belongs to exactly one call (`OneRun`, a theorem of its own),
that a running torrent has such a call (`Started`), that a connection without a
handler is not yet owned (`Unowned`), and that `ServePeers` returns after its
handlers (`Returned`).

`ProcessesProofs`.
* `PairingAgrees`: the invariant is the type of the tables, loops and handlers,
  which ties each dial to its own side, and `NoStrayEnd`; when nothing is under
  way, an entry in one table then forces the same entry in the other.
* `CommandsExitOrderly`: the code counts results and does not name them, so the
  invariant counts: the components that have ended are the results collected and
  the ones in the channel (`Counted`); `AtWork` says which components have been
  started where, and `Causes` why one may have been cancelled.
* `CreatedOnceOnly`: the temporary file is whole when it is linked, and whoever
  has linked made the output (`CreationInv`).
* `BulkAnswersExact`, `SendsNeverBlock`: channel and response are disjoint and
  without repetition, and each answer was sent by its own goroutine (`BulkInv`).
  Full length then means all torrents, and a goroutine that still has to send
  leaves the channel room, by counting subsets of the targets.

`FormatsProofs`, of geometry.  For every metainfo that `NewPieceSet` accepts (any content
length, any piece length up to the largest word), every block size and every
width of the wire's integers.  `PieceInside` and `BeginsInside` show that
nothing wraps around: pieces lie in the content, and the offsets of blocks are
the multiples of `blockSize` in the piece.  A byte's piece and block are then
given by two divisions, and by no others (`ByteHasBlock`, `ByteHasOneBlock`).
`BytesLeftAlwaysExact` follows the recursion of `BytesLeft` by induction, in the
form of the least number at which it and the count would differ (`Least`, from
the library's theorem that `<` is well founded): this needs no theorem with an
operator as its parameter, which the provers could not use.

`FormatsProofs`, of the tracker's configuration.  For every environment, any
number of flags in any order, and any file system (`ParsersAssumption`:
durations are int64, a directory lists texts).  `EnvironmentRead` says what the
variables leave, `FlagKeeps` that one more flag keeps the settings those that
the flags so far name (`ReadSoFar`, the invariant along the command line; which
`-torrent-dir` was last is why it speaks of places), and `FlagsRead` follows the
flags to the end.  `TrackerServesWhatIsNamed` is then about `AllowList`: a list
that was named never turns into nil.  `TrackerKeepsItsClients` has a hypothesis
that the code needs: three times the interval fits into an int64.  A longer
interval (from about 97 years on) makes a TTL that wraps around, as it does in
`NewServer`; `ClientsOutliveInterval` says the same.

`ConnectionsProofs`, of the peer wire.  For every size of bytes, words, ids and
messages that `WireAssumption` allows.  Recursive functions have to be shown to
exist before anything can be said about them: `Recursion` does that for
functions on `0 .. n`, `OneSolution` says there is one, and `Induction` is
`Least` again.
* `FramesAlwaysCanonical`: `PutUint32Inverse` and `Uint32Inverse` for words,
  `Decoded` and `Encoded` for bodies, type by type, and `Accepted` for frames.
* `StreamsStayInStep`: `StreamWritten` gives the marks between the messages of a
  stream, `RoundInStep` shows that each round of the reader moves from one mark
  to the next or finds the cut, and `ReaderInStep` counts the rounds.  The
  handshake before them is `HandshakeRead`.
* `PeersAlwaysUnderstood`: the inductive invariant `Reached` says what samples
  there can be, and that a bitfield shows exactly the claims (`Holds`), which
  `SetBit`, `PieceSet` and `BitfieldOf` keep: one bit is set, within a longer
  bitfield if need be, and no other changes.

`ConnectionsProofs`, of announces.  `ParsedBack`: a number that is written in
digits is read as the same number, by following both recursions.
`RequestsAlwaysUnderstood` is then about which parameters of the URL survive
(`QueryBuilt`), for any URL and any request with ids of the right length, a port
that is not zero and numbers of 64 bits.  `TimersNeverBusy` is about the range
check before the multiplication.

Only model-checked:
* the liveness properties `CancelStops`, `GoroutinesReturn`, `RequestsResolve`,
  `CompletesUndisturbed`, `RequestsReturn`, `CloseReturns`, `Settles` and
  `NobodyWaitsForEver`, since the prover has no fairness or ENABLED;
* `IdentityKept`, and of `AnnouncesUnderstood` the parts `AnswerUnderstood` and
  `IntervalHeard`: decoder and encoder of bencode are mutually recursive over
  nested values, and RECURSIVE operators are beyond the prover in or below a
  module with theorems.  The other parts, `RequestUnderstood` and `TimerNeverBusy`,
  follow from `RequestsAlwaysUnderstood` and `TimersNeverBusy`, but are stated in
  the run together with the rest;
* the three violations, which are counterexamples.

## 6. What the violations show

* `control_pause`: a pause is acknowledged and does nothing.
  `changeDownloadMode` switches on the mode the torrent is in instead of the
  mode asked for (`torrent/torrent.go:142`).
* `seeder_leaves`: the requests of a seeder that leaves are released
  (`torrent/peers.go:113`), but a seeder that stays and has nothing outstanding
  is not asked for them, because only its own messages refill its window.
* `client_unregister`: `UnregisterTorrent` can return before a
  `StartTorrentDownload` that had already looked the torrent up runs it
  (`client/client.go:145`).

## 7. Not modelled

* `torrentd`: `record.go` does not compile (`strings.Join` and `delete` with one
  argument, methods without the results they declare, fields that do not exist)
  and `daemon.go` is a stub.  There is no behaviour to be faithful to.
* `torrent/status.go`, the JSON status pages, `inspect` and the printing of the
  commands: reports of state that is modelled where it changes.
* Argument counts, URL syntax and hexadecimal of the torrent command; the HTTP
  transfers themselves; addresses, which matter only as what a compact answer
  can express.
* The paused branch of `fillRequestWindow`, which nothing can reach, the byte
  counters `uploaded` and `downloaded`, and `closeErr`.
* The output file of `download` between two processes: it is opened without
  `O_EXCL` after a check, and nothing says what two downloads to one path should
  do.
* `listenPort`, which `StartTorrentDownload` reads without the mutex while
  `ListenForPeers` may write it: the commands listen before they start anything.

## 8. Plan

Done: loop and ledger, geometry, control, storage, tracker, client, then two
clients dialling each other, the commands, bulk operations and all formats.
The safety properties of every state machine, the two refinements, geometry,
the peer wire, announces and the tracker's configuration are proved (section 5).
Left:

1. Bencode for every text: the decoder as a function of the length of the text
   and the encoder as one of the depth of the value.  Numbers are there
   (`ParsedBack`); the order of dictionary keys and the nesting are not.
2. `torrentd`, once it compiles.
