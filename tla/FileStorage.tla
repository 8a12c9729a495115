---------------------------- MODULE FileStorage ----------------------------
(***************************************************************************)
(* fileStorage and piece (torrent/file.go, torrent/piece.go): the pieces   *)
(* of a download kept together with the file their bytes go to.  One owner *)
(* accepts blocks, hands an assembled piece's buffer to a worker, which    *)
(* hashes and writes it, and applies the worker's result.  The process may *)
(* crash at any point; newFileStorage rechecks what the file holds.        *)
(*                                                                         *)
(* Only the tests drive this code so far.  They fix the protocol modelled  *)
(* here: a job goes to one worker, and its result is applied once.         *)
(*                                                                         *)
(* Bytes are right or wrong; a piece in the file is absent, partial        *)
(* (anything that does not hash to the metainfo's value) or good.          *)
(***************************************************************************)
EXTENDS PieceGeometry

CONSTANTS
  Info,           \* length and piece length of the metainfo
  Worker,         \* goroutines that run verifyAndWritePiece
  MaxGeneration   \* bound: how often one piece is prepared between restarts

ASSUME GenerationAssumption == MaxGeneration \in Nat

Piece       == 0 .. Count(Info) - 1
Block       == BlockRequests(Info)
BlocksOf(i) == { b \in Block : b.PieceIndex = i }

VARIABLES
  up,          \* the process runs and newFileStorage has returned
  state,       \* piece.state
  generation,  \* piece.generation
  buffer,      \* the pieces with buffer # nil
  received,    \* the blocks whose receivedBlocks flag is set
  wrong,       \* the pieces whose assembled bytes, wherever they are, are not right
  stage,       \* each worker: idle, about to hash, in WriteAt, holding a result
  job,         \* pieceFinalizeJob of each worker: its piece and generation
  err,         \* pieceFinalizeResult.err of each worker
  disk         \* what the file holds of each piece

memory  == <<state, generation, buffer, received, wrong>>
workers == <<stage, job, err>>
vars    == <<up, memory, workers, disk>>

pieceState == { "missing", "receiving", "assembled", "finalizing", "complete" }
Job        == [piece : Piece, generation : Nat]
NoJob      == [piece |-> 0, generation |-> 0]

TypeOK ==
  /\ up \in BOOLEAN
  /\ state \in [Piece -> pieceState]
  /\ generation \in [Piece -> Nat]
  /\ buffer \subseteq Piece /\ wrong \subseteq Piece
  /\ received \subseteq Block
  /\ stage \in [Worker -> { "idle", "hash", "write", "result" }]
  /\ job \in [Worker -> Job \cup {NoJob}]
  /\ err \in [Worker -> { "nil", "mismatch", "storage" }]
  /\ disk \in [Piece -> { "absent", "partial", "good" }]

Blank == /\ state = [i \in Piece |-> "missing"]
         /\ generation = [i \in Piece |-> 0]
         /\ buffer = {} /\ received = {} /\ wrong = {}
         /\ stage = [w \in Worker |-> "idle"]
         /\ job = [w \in Worker |-> NoJob]
         /\ err = [w \in Worker |-> "nil"]

\* The file may be there already, with anything in it.
Init == /\ up = FALSE /\ Blank
        /\ disk \in [Piece -> { "absent", "partial", "good" }]

-----------------------------------------------------------------------------
(* The owner.                                                              *)

rechecked_short(i) == disk[i] = "good" /\ i # Count(Info) - 1

\* recheck: long enough, and the hash of its bytes is right.
rechecked(i) == disk[i] = "good"

newFileStorage ==
  /\ ~up
  /\ up' = TRUE
  /\ state' = [i \in Piece |-> IF rechecked(i) THEN "complete" ELSE "missing"]
  /\ UNCHANGED <<generation, buffer, received, wrong, workers, disk>>

\* prepare, which a missing piece goes through first.
Prepared(i) == /\ state[i] = "missing" => generation[i] < MaxGeneration
               /\ generation' = [generation EXCEPT ![i] = IF state[i] = "missing" THEN @ + 1 ELSE @]
               /\ buffer' = buffer \cup {i}

\* Looking for a block of a missing piece prepares the piece.
nextMissingBlock(i) ==
  /\ up /\ state[i] = "missing"
  /\ Prepared(i)
  /\ state' = [state EXCEPT ![i] = "receiving"]
  /\ UNCHANGED <<up, received, wrong, workers, disk>>

\* Until prepare is called again, the flags of a piece are nil.
Flags(i) == IF state[i] = "receiving" THEN received \cap BlocksOf(i) ELSE {}

acceptBlock(b, bad) ==
  LET i == b.PieceIndex
      all == Flags(i) \cup {b} = BlocksOf(i)
  IN  /\ up /\ state[i] \in { "missing", "receiving" } /\ b \notin received
      /\ Prepared(i)
      /\ state' = [state EXCEPT ![i] = IF all THEN "assembled" ELSE "receiving"]
      /\ received' = IF all THEN received \ BlocksOf(i) ELSE received \cup {b}
      /\ wrong' = IF bad THEN wrong \cup {i} ELSE wrong
      /\ UNCHANGED <<up, workers, disk>>

takeFinalizeJob_kept(i, w) ==
  /\ up /\ state[i] \in { "assembled", "finalizing" } /\ stage[w] = "idle"
  /\ state' = [state EXCEPT ![i] = "finalizing"]
  /\ buffer' = buffer \ {i}
  /\ stage' = [stage EXCEPT ![w] = "hash"]
  /\ job' = [job EXCEPT ![w] = [piece |-> i, generation |-> generation[i]]]
  /\ UNCHANGED <<up, generation, received, wrong, err, disk>>

takeFinalizeJob(i, w) ==
  /\ up /\ state[i] = "assembled" /\ i \in buffer /\ stage[w] = "idle"
  /\ state' = [state EXCEPT ![i] = "finalizing"]
  /\ buffer' = buffer \ {i}
  /\ stage' = [stage EXCEPT ![w] = "hash"]
  /\ job' = [job EXCEPT ![w] = [piece |-> i, generation |-> generation[i]]]
  /\ UNCHANGED <<up, generation, received, wrong, err, disk>>

Current(w) == LET i == job[w].piece
              IN  state[i] = "finalizing" /\ generation[i] = job[w].generation

markComplete(w) ==
  /\ state' = [state EXCEPT ![job[w].piece] = "complete"]
  /\ UNCHANGED <<buffer, wrong>>

reject(w) ==
  /\ state' = [state EXCEPT ![job[w].piece] = "missing"]
  /\ buffer' = buffer \ {job[w].piece}
  /\ wrong' = wrong \ {job[w].piece}

restore_lost(w) == UNCHANGED <<state, buffer, wrong>>

restore(w) ==
  /\ state' = [state EXCEPT ![job[w].piece] = "assembled"]
  /\ buffer' = buffer \cup {job[w].piece}
  /\ UNCHANGED wrong

\* A result that is not current changes nothing.
applyFinalizeResult(w) ==
  /\ up /\ stage[w] = "result"
  /\ IF ~Current(w) THEN UNCHANGED <<state, buffer, wrong>>
     ELSE \/ err[w] = "nil" /\ markComplete(w)
          \/ err[w] = "mismatch" /\ reject(w)
          \/ err[w] = "storage" /\ restore(w)
  /\ stage' = [stage EXCEPT ![w] = "idle"]
  /\ job' = [job EXCEPT ![w] = NoJob]
  /\ err' = [err EXCEPT ![w] = "nil"]
  /\ UNCHANGED <<up, generation, received, disk>>

-----------------------------------------------------------------------------
(* verifyAndWritePiece, in a worker.                                       *)

VerifyPiece_always(w) == TRUE
VerifyPiece(w) == job[w].piece \notin wrong

HashMismatch(w) ==
  /\ stage[w] = "hash" /\ ~VerifyPiece(w)
  /\ stage' = [stage EXCEPT ![w] = "result"]
  /\ err' = [err EXCEPT ![w] = "mismatch"]
  /\ UNCHANGED <<up, memory, job, disk>>

\* WriteAt is under way: from here on a crash finds part of the bytes.
WriteAt(w) ==
  /\ stage[w] = "hash" /\ VerifyPiece(w)
  /\ stage' = [stage EXCEPT ![w] = "write"]
  /\ disk' = [disk EXCEPT ![job[w].piece] = "partial"]
  /\ UNCHANGED <<up, memory, job, err>>

Written(w) ==
  /\ stage[w] = "write"
  /\ stage' = [stage EXCEPT ![w] = "result"]
  /\ disk' = [disk EXCEPT ![job[w].piece] =
                IF job[w].piece \in wrong THEN "partial" ELSE "good"]
  /\ UNCHANGED <<up, memory, job, err>>

\* WriteAt fails or is short.
WriteFailed(w) ==
  /\ stage[w] = "write"
  /\ stage' = [stage EXCEPT ![w] = "result"]
  /\ err' = [err EXCEPT ![w] = "storage"]
  /\ UNCHANGED <<up, memory, job, disk>>

\* The process ends, workers and all; the file stays.
Crash ==
  /\ up /\ up' = FALSE
  /\ state' = [i \in Piece |-> "missing"]
  /\ generation' = [i \in Piece |-> 0]
  /\ buffer' = {} /\ received' = {} /\ wrong' = {}
  /\ stage' = [w \in Worker |-> "idle"]
  /\ job' = [w \in Worker |-> NoJob]
  /\ err' = [w \in Worker |-> "nil"]
  /\ UNCHANGED disk

-----------------------------------------------------------------------------
Verify(w) == HashMismatch(w) \/ WriteAt(w)

Next == \/ newFileStorage \/ Crash
        \/ \E i \in Piece : nextMissingBlock(i) \/ \E w \in Worker : takeFinalizeJob(i, w)
        \/ \E b \in Block, bad \in BOOLEAN : acceptBlock(b, bad)
        \/ \E w \in Worker : Verify(w) \/ Written(w) \/ WriteFailed(w) \/ applyFinalizeResult(w)

Spec == Init /\ [][Next]_vars

-----------------------------------------------------------------------------
(***************************************************************************)
(* Complete means on disk: the bytes readBlock serves of a complete piece  *)
(* are right, after any number of failed writes, retries and crashes.      *)
(***************************************************************************)
CompleteOnDisk == \A i \in Piece : state[i] = "complete" => disk[i] = "good"

(***************************************************************************)
(* A buffer has one owner: a worker holds a piece exactly while the piece  *)
(* is finalizing, no two workers hold the same one, and the piece keeps    *)
(* its buffer otherwise.  So no result is ever stale under this protocol.  *)
(***************************************************************************)
OneOwner ==
  /\ \A w \in Worker : stage[w] # "idle" => Current(w)
  /\ \A w, v \in Worker : stage[w] # "idle" /\ stage[v] # "idle" /\ job[w].piece = job[v].piece
                            => w = v
  /\ \A i \in Piece : i \in buffer <=> state[i] \in { "receiving", "assembled" }

(***************************************************************************)
(* Nothing that was written is fetched again: a piece whose right bytes    *)
(* are in the file is complete, or its worker is about to say so, also     *)
(* after a crash between the write and applyFinalizeResult.                *)
(***************************************************************************)
NoRefetch == \A i \in Piece : up /\ disk[i] = "good" => state[i] \in { "finalizing", "complete" }

\* What a worker knows: its bytes are right from the hash on, and in the file
\* once the write is reported.
WorkerInv == \A w \in Worker :
  /\ stage[w] # "idle" => up /\ job[w].piece \in Piece
  /\ stage[w] \in { "hash", "write" } => err[w] = "nil" /\ disk[job[w].piece] # "good"
  /\ stage[w] = "write" => job[w].piece \notin wrong
  /\ stage[w] = "result" /\ err[w] = "nil" => disk[job[w].piece] = "good"
  /\ stage[w] = "result" /\ err[w] # "nil" => disk[job[w].piece] # "good"
  /\ stage[w] = "idle" => err[w] = "nil"

\* A process that is down keeps nothing in memory.
DownInv == ~up => Blank

Inv == TypeOK /\ CompleteOnDisk /\ OneOwner /\ NoRefetch /\ WorkerInv /\ DownInv

\* The variables of PieceStore.
InFile == { i \in Piece : disk[i] = "good" }
Wanted == { i \in Piece : up /\ state[i] \in { "missing", "receiving" } }
Served == { i \in Piece : state[i] = "complete" }

(***************************************************************************)
(* Behind its states, generations, buffers and workers, the storage treats *)
(* whole pieces as PieceStore says: what reaches the file stays, is served *)
(* and is never wanted again, and nothing else is served, across crashes.  *)
(***************************************************************************)
Pieces == INSTANCE PieceStore WITH open <- up, inFile <- InFile, wanted <- Wanted, served <- Served
StoreSpec == Pieces!PSpec

-----------------------------------------------------------------------------
(* Workers run, results are applied, an assembled piece is taken by some   *)
(* worker, and a disk that is tried again and again works in the end.      *)
Fairness ==
  /\ \A w \in Worker : /\ WF_vars(Verify(w)) /\ WF_vars(applyFinalizeResult(w))
                       /\ WF_vars(WriteFailed(w)) /\ SF_vars(Written(w))
  /\ \A i \in Piece : SF_vars(\E w \in Worker : takeFinalizeJob(i, w))

FairSpec == Spec /\ Fairness

(***************************************************************************)
(* An assembled piece settles: it becomes complete, or missing after a     *)
(* hash failure, unless the process crashes first; storage failures are    *)
(* retried without fetching the blocks again.                              *)
(***************************************************************************)
Settles == \A i \in Piece : state[i] = "assembled" ~>
                              (~up \/ state[i] \in { "complete", "missing" })
=============================================================================
