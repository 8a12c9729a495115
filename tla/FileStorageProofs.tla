------------------------- MODULE FileStorageProofs -------------------------
(***************************************************************************)
(* FileStorage for every geometry and any number of workers, and that it   *)
(* implements PieceStore.                                                  *)
(***************************************************************************)
EXTENDS FileStorage, TLAPS

\* Before newFileStorage has run, nothing is claimed.
LEMMA InitInv == Init => Inv
<1> SUFFICES ASSUME Init PROVE Inv
  OBVIOUS
<1> USE DEF Init, Blank
<1>1. TypeOK
  BY DEF TypeOK, pieceState
<1>2. CompleteOnDisk /\ NoRefetch /\ DownInv
  BY DEF CompleteOnDisk, NoRefetch, DownInv
<1>3. OneOwner /\ WorkerInv
  BY DEF OneOwner, WorkerInv
<1> QED BY <1>1, <1>2, <1>3 DEF Inv

\* The piece of a block is a piece.
LEMMA BlockPiece == ASSUME NEW b \in Block PROVE b.PieceIndex \in Piece
BY DEF Block, BlockRequests, Piece

\* Opening the file preserves the invariant: recheck trusts only what hashes right.
LEMMA OpenInv == ASSUME Inv, newFileStorage PROVE Inv'
<1> USE DEF Inv, newFileStorage, rechecked, memory, workers
<1>1. Blank
  BY DEF DownInv
<1>2. TypeOK'
  BY DEF TypeOK, pieceState
<1>3. CompleteOnDisk' /\ NoRefetch' /\ DownInv'
  BY DEF CompleteOnDisk, NoRefetch, DownInv, TypeOK
<1>4. OneOwner' /\ WorkerInv'
  BY <1>1 DEF OneOwner, WorkerInv, Blank
<1> QED BY <1>2, <1>3, <1>4

\* A crash preserves the invariant: it leaves only the file.
LEMMA CrashInv == ASSUME Inv, Crash PROVE Inv'
<1> USE DEF Inv, Crash
<1>1. TypeOK'
  BY DEF TypeOK, pieceState
<1>2. CompleteOnDisk' /\ NoRefetch' /\ DownInv'
  BY DEF CompleteOnDisk, NoRefetch, DownInv, Blank
<1>3. OneOwner' /\ WorkerInv'
  BY DEF OneOwner, WorkerInv
<1> QED BY <1>1, <1>2, <1>3

\* The owner's steps on one piece, short of finalization.
LEMMA ReceiveInv ==
  ASSUME Inv, NEW i \in Piece, Prepared(i), up, up' = up,
         state[i] \in { "missing", "receiving" },
         NEW s \in { "receiving", "assembled" }, state' = [state EXCEPT ![i] = s],
         UNCHANGED <<workers, disk>>, received' \subseteq Block,
         wrong' \subseteq Piece, wrong' \subseteq wrong \cup {i}
  PROVE  Inv'
<1> USE DEF Inv, Prepared, workers
<1>0. generation' \in [Piece -> Nat] /\ \A j \in Piece \ {i} : generation'[j] = generation[j]
  BY DEF TypeOK
<1>1. TypeOK'
  BY <1>0 DEF TypeOK, pieceState
<1>2. CompleteOnDisk' /\ NoRefetch' /\ DownInv'
  BY DEF CompleteOnDisk, NoRefetch, DownInv, TypeOK
<1>3. \A w \in Worker : stage[w] # "idle" => job[w].piece \in Piece \ {i}
  BY DEF OneOwner, Current, WorkerInv
<1>4. \A w \in Worker : stage'[w] # "idle" => Current(w)'
  BY <1>0, <1>3 DEF OneOwner, Current, TypeOK
<1>5. \A j \in Piece : j \in buffer' <=> state'[j] \in { "receiving", "assembled" }
  BY DEF OneOwner, TypeOK
<1>6. OneOwner'
  BY <1>4, <1>5 DEF OneOwner
<1>7. WorkerInv'
  BY <1>3 DEF WorkerInv
<1> QED BY <1>1, <1>2, <1>6, <1>7

\* Handing the buffer to an idle worker keeps one owner.
LEMMA TakeInv ==
  ASSUME Inv, NEW i \in Piece, NEW w \in Worker, takeFinalizeJob(i, w)
  PROVE  Inv'
<1> USE DEF Inv, takeFinalizeJob
<1>0. /\ job'[w] = [piece |-> i, generation |-> generation[i]] /\ stage'[w] = "hash"
      /\ \A v \in Worker \ {w} : job'[v] = job[v] /\ stage'[v] = stage[v]
      /\ state'[i] = "finalizing" /\ \A j \in Piece \ {i} : state'[j] = state[j]
  BY DEF TypeOK
<1>1. TypeOK'
  BY DEF TypeOK, pieceState, Job
<1>2. CompleteOnDisk' /\ NoRefetch' /\ DownInv'
  BY <1>0 DEF CompleteOnDisk, NoRefetch, DownInv, TypeOK
<1>3. \A v \in Worker : stage[v] # "idle" => job[v].piece \in Piece \ {i}
  BY DEF OneOwner, Current, WorkerInv
<1>4. \A v \in Worker : stage'[v] # "idle" => Current(v)'
  BY <1>0, <1>3 DEF OneOwner, Current
<1>5. ASSUME NEW u \in Worker, NEW v \in Worker, stage'[u] # "idle", stage'[v] # "idle",
             job'[u].piece = job'[v].piece
      PROVE  u = v
  <2>1. CASE u = w \/ v = w
    BY <1>0, <1>3, <1>5, <2>1
  <2>2. CASE u # w /\ v # w
    BY <1>0, <1>5, <2>2 DEF OneOwner
  <2> QED BY <2>1, <2>2
<1>6. \A j \in Piece : j \in buffer' <=> state'[j] \in { "receiving", "assembled" }
  BY <1>0 DEF OneOwner
<1>7. OneOwner'
  BY <1>4, <1>5, <1>6 DEF OneOwner
<1>8. WorkerInv'
  <2>1. disk[i] # "good" /\ err[w] = "nil"
    BY DEF NoRefetch, WorkerInv
  <2> QED BY <1>0, <2>1 DEF WorkerInv
<1> QED BY <1>1, <1>2, <1>7, <1>8

\* A worker works only on its own piece.
LEMMA WorkInv ==
  ASSUME Inv, NEW w \in Worker, Verify(w) \/ Written(w) \/ WriteFailed(w)
  PROVE  Inv'
<1> USE DEF Inv
<1>0. /\ stage[w] # "idle" /\ job[w].piece \in Piece /\ up /\ Current(w)
      /\ stage'[w] # "idle" /\ \A v \in Worker \ {w} : stage'[v] = stage[v] /\ err'[v] = err[v]
      /\ UNCHANGED <<up, memory, job>>
      /\ \A j \in Piece \ {job[w].piece} : disk'[j] = disk[j]
  BY DEF Verify, HashMismatch, WriteAt, Written, WriteFailed, WorkerInv, OneOwner, TypeOK
<1>1. TypeOK'
  BY DEF Verify, HashMismatch, WriteAt, Written, WriteFailed, memory, TypeOK
<1>2. CompleteOnDisk' /\ NoRefetch' /\ DownInv'
  BY <1>0 DEF CompleteOnDisk, NoRefetch, DownInv, Current, memory
<1>3. OneOwner'
  BY <1>0 DEF OneOwner, Current, memory
<1>4. \A v \in Worker \ {w} : stage[v] # "idle" => job[v].piece \in Piece \ {job[w].piece}
  BY <1>0 DEF OneOwner, WorkerInv
<1>5. WorkerInv'
  <2>1. ASSUME NEW v \in Worker \ {w}
        PROVE  WorkerInv!(v)'
    BY <1>0, <1>4 DEF WorkerInv, memory
  <2>2. WorkerInv!(w)'
    BY <1>0 DEF WorkerInv, Verify, HashMismatch, WriteAt, Written, WriteFailed, VerifyPiece,
                memory, TypeOK
  <2> QED BY <2>1, <2>2 DEF WorkerInv
<1> QED BY <1>1, <1>2, <1>3, <1>5

\* The result of a worker is current, and applying it ends the worker's ownership.
LEMMA ApplyInv ==
  ASSUME Inv, NEW w \in Worker, applyFinalizeResult(w)
  PROVE  Inv'
<1> DEFINE i == job[w].piece
<1> USE DEF Inv, applyFinalizeResult
<1>0. /\ i \in Piece /\ state[i] = "finalizing" /\ Current(w) /\ up
      /\ stage'[w] = "idle" /\ err'[w] = "nil"
      /\ \A v \in Worker \ {w} : stage'[v] = stage[v] /\ err'[v] = err[v] /\ job'[v] = job[v]
  BY DEF WorkerInv, OneOwner, Current, TypeOK
<1>1. \/ err[w] = "nil" /\ markComplete(w)
      \/ err[w] = "mismatch" /\ reject(w)
      \/ err[w] = "storage" /\ restore(w)
  BY <1>0
<1>2. \A j \in Piece \ {i} : state'[j] = state[j] /\ (j \in buffer' <=> j \in buffer)
  BY <1>0, <1>1 DEF markComplete, reject, restore, TypeOK
<1>3. TypeOK'
  BY <1>0, <1>1 DEF markComplete, reject, restore, TypeOK, pieceState
<1>4. \/ err[w] = "nil" /\ disk[i] = "good" /\ state'[i] = "complete" /\ i \notin buffer'
      \/ disk[i] # "good" /\ state'[i] = "missing" /\ i \notin buffer'
      \/ disk[i] # "good" /\ state'[i] = "assembled" /\ i \in buffer'
  BY <1>0, <1>1 DEF markComplete, reject, restore, TypeOK, WorkerInv, OneOwner
<1>5. CompleteOnDisk' /\ NoRefetch' /\ DownInv'
  BY <1>0, <1>2, <1>4 DEF CompleteOnDisk, NoRefetch, DownInv
<1>6. \A v \in Worker \ {w} : stage[v] # "idle" => job[v].piece \in Piece \ {i}
  BY <1>0 DEF OneOwner, WorkerInv
<1>7. OneOwner'
  <2>1. \A v \in Worker : stage'[v] # "idle" => Current(v)'
    BY <1>0, <1>2, <1>6 DEF OneOwner, Current
  <2>2. ASSUME NEW u \in Worker, NEW v \in Worker, stage'[u] # "idle", stage'[v] # "idle",
               job'[u].piece = job'[v].piece
        PROVE  u = v
    <3>1. u # w /\ v # w
      BY <1>0, <2>2
    <3> QED BY <1>0, <2>2, <3>1 DEF OneOwner
  <2>3. \A j \in Piece : j \in buffer' <=> state'[j] \in { "receiving", "assembled" }
    BY <1>2, <1>4 DEF OneOwner
  <2> QED BY <2>1, <2>2, <2>3 DEF OneOwner
<1>8. WorkerInv'
  <2>1. wrong' \subseteq wrong
    BY <1>1 DEF markComplete, reject, restore
  <2> QED BY <1>0, <1>6, <2>1 DEF WorkerInv
<1> QED BY <1>3, <1>5, <1>7, <1>8

\* The invariant is inductive.
LEMMA NextInv == Inv /\ [Next]_vars => Inv'
<1> SUFFICES ASSUME Inv, [Next]_vars PROVE Inv'
  OBVIOUS
<1>1. CASE UNCHANGED vars
  BY <1>1 DEF Inv, TypeOK, CompleteOnDisk, OneOwner, NoRefetch, WorkerInv, DownInv, Blank,
              Current, vars, memory, workers
<1>2. ASSUME NEW i \in Piece, nextMissingBlock(i)
      PROVE  Inv'
  BY <1>2, ReceiveInv DEF nextMissingBlock, Inv, TypeOK
<1>3. ASSUME NEW b \in Block, NEW bad \in BOOLEAN, acceptBlock(b, bad)
      PROVE  Inv'
  <2> DEFINE i == b.PieceIndex
  <2>1. i \in Piece
    BY BlockPiece
  <2>2. received' \subseteq Block /\ wrong' \subseteq Piece /\ wrong' \subseteq wrong \cup {i}
    BY <1>3, <2>1 DEF acceptBlock, Inv, TypeOK
  <2>3. PICK s \in { "receiving", "assembled" } : state' = [state EXCEPT ![i] = s]
    BY <1>3 DEF acceptBlock
  <2>4. Prepared(i) /\ up /\ up' = up /\ state[i] \in { "missing", "receiving" }
        /\ UNCHANGED <<workers, disk>>
    BY <1>3 DEF acceptBlock
  <2> QED BY <2>1, <2>2, <2>3, <2>4, ReceiveInv
<1> QED BY <1>1, <1>2, <1>3, OpenInv, CrashInv, TakeInv, WorkInv, ApplyInv DEF Next

\* The invariant holds in every reachable state.
THEOREM Invariance == Spec => []Inv
BY InitInv, NextInv, PTL DEF Spec

\* A piece counts as complete only with its right bytes in the file, across crashes.
THEOREM CompleteIsOnDisk == Spec => []CompleteOnDisk
<1>1. Inv => CompleteOnDisk
  BY DEF Inv
<1> QED BY <1>1, Invariance, PTL

\* The buffer of a piece has one owner at any time, and no result is stale.
THEOREM SingleOwner == Spec => []OneOwner
<1>1. Inv => OneOwner
  BY DEF Inv
<1> QED BY <1>1, Invariance, PTL

\* A piece that is in the file is not downloaded again.
THEOREM WrittenIsKept == Spec => []NoRefetch
<1>1. Inv => NoRefetch
  BY DEF Inv
<1> QED BY <1>1, Invariance, PTL

-----------------------------------------------------------------------------
(* Staged storage implements PieceStore.                                   *)

\* Opening and dying are what they are in PieceStore.
LEMMA LifeRefines ==
  ASSUME Inv, newFileStorage \/ Crash
  PROVE  Pieces!PNext
<1> USE DEF Inv, TypeOK, InFile, Wanted, Served
<1>1. CASE newFileStorage
  <2>1. Wanted' = Piece \ InFile /\ Served' = InFile /\ InFile' = InFile
    BY <1>1 DEF newFileStorage, rechecked
  <2> QED BY <1>1, <2>1 DEF newFileStorage, Pieces!Open, Pieces!PNext
<1>2. CASE Crash
  <2>1. Wanted' = {} /\ Served' = {} /\ InFile' = InFile
    BY <1>2 DEF Crash
  <2> QED BY <1>2, <2>1 DEF Crash, Pieces!Die, Pieces!PNext
<1> QED BY <1>1, <1>2

\* A step that moves one piece to a state of the same kind says nothing to PieceStore.
LEMMA SameKind ==
  ASSUME Inv, up' = up, disk' = disk, NEW i \in Piece, NEW s \in pieceState,
         state' = [state EXCEPT ![i] = s],
         s = "complete" <=> state[i] = "complete",
         s \in { "missing", "receiving" } <=> state[i] \in { "missing", "receiving" }
  PROVE  UNCHANGED Pieces!store
BY DEF Inv, TypeOK, InFile, Wanted, Served, Pieces!store

\* Blocks arrive, and the last one makes the piece leave the wanted ones.
LEMMA ReceiveRefines ==
  ASSUME Inv, NEW i \in Piece, NEW s \in { "receiving", "assembled" }, up, up' = up,
         state[i] \in { "missing", "receiving" }, state' = [state EXCEPT ![i] = s], disk' = disk
  PROVE  [Pieces!PNext]_(Pieces!store)
<1>1. CASE s = "receiving"
  BY <1>1, SameKind DEF pieceState
<1>2. CASE s = "assembled"
  <2>1. i \in Wanted /\ Wanted' = Wanted \ {i} /\ Served' = Served /\ InFile' = InFile
    BY <1>2 DEF Inv, TypeOK, InFile, Wanted, Served
  <2> QED BY <2>1 DEF Pieces!Assemble, Pieces!PNext
<1> QED BY <1>1, <1>2

\* A worker changes what the file holds of a piece nobody wants or serves.
LEMMA WorkRefines ==
  ASSUME Inv, NEW w \in Worker, Verify(w) \/ Written(w) \/ WriteFailed(w)
  PROVE  [Pieces!PNext]_(Pieces!store)
<1> DEFINE i == job[w].piece
<1>1. stage[w] # "idle" /\ i \in Piece /\ up /\ state[i] = "finalizing" /\ UNCHANGED <<up, state>>
  BY DEF Inv, WorkerInv, OneOwner, Current, Verify, HashMismatch, WriteAt, Written, WriteFailed,
         memory
<1>2. Wanted' = Wanted /\ Served' = Served
  BY <1>1 DEF Wanted, Served
<1>3. CASE HashMismatch(w) \/ WriteFailed(w)
  BY <1>1, <1>2, <1>3 DEF HashMismatch, WriteFailed, InFile, Pieces!store
<1>4. CASE WriteAt(w)
  <2>1. disk[i] # "good" /\ disk' = [disk EXCEPT ![i] = "partial"]
    BY <1>4 DEF WriteAt, Inv, WorkerInv
  <2>2. InFile' = InFile
    BY <1>1, <2>1 DEF InFile, Inv, TypeOK
  <2> QED BY <1>1, <1>2, <2>2 DEF Pieces!store
<1>5. CASE Written(w)
  <2>1. disk[i] # "good" /\ disk' = [disk EXCEPT ![i] = "good"]
    BY <1>5 DEF Written, Inv, WorkerInv
  <2>2. InFile' = InFile \cup {i} /\ i \notin Wanted \cup InFile
    BY <1>1, <2>1 DEF InFile, Wanted, Inv, TypeOK
  <2> HIDE DEF i
  <2> QED BY <1>1, <1>2, <2>2 DEF Pieces!Store, Pieces!PNext
<1> QED BY <1>3, <1>4, <1>5 DEF Verify

\* The owner applies a result: the piece is served, wanted again, or tried again.
LEMMA ApplyRefines ==
  ASSUME Inv, NEW w \in Worker, applyFinalizeResult(w)
  PROVE  [Pieces!PNext]_(Pieces!store)
<1> DEFINE i == job[w].piece
<1>1. i \in Piece /\ up /\ state[i] = "finalizing" /\ Current(w) /\ UNCHANGED <<up, disk>>
  BY DEF Inv, WorkerInv, OneOwner, Current, applyFinalizeResult
<1>2. CASE err[w] = "nil" /\ markComplete(w)
  <2>1. state' = [state EXCEPT ![i] = "complete"] /\ disk[i] = "good"
    BY <1>2 DEF markComplete, Inv, WorkerInv, applyFinalizeResult
  <2>2. /\ i \in InFile \ (Wanted \cup Served)
        /\ Served' = Served \cup {i} /\ Wanted' = Wanted /\ InFile' = InFile
    BY <1>1, <2>1 DEF Inv, TypeOK, InFile, Wanted, Served
  <2> HIDE DEF i
  <2> QED BY <1>1, <2>2 DEF Pieces!Serve, Pieces!PNext
<1>3. CASE err[w] = "mismatch" /\ reject(w)
  <2>1. state' = [state EXCEPT ![i] = "missing"] /\ disk[i] # "good"
    BY <1>3 DEF reject, Inv, WorkerInv, applyFinalizeResult
  <2>2. /\ i \notin Wanted \cup InFile
        /\ Wanted' = Wanted \cup {i} /\ Served' = Served /\ InFile' = InFile
    BY <1>1, <2>1 DEF Inv, TypeOK, InFile, Wanted, Served
  <2> HIDE DEF i
  <2> QED BY <1>1, <2>2 DEF Pieces!Reject, Pieces!PNext
<1>4. CASE err[w] = "storage" /\ restore(w)
  BY <1>1, <1>4, SameKind DEF restore, pieceState
<1> QED BY <1>1, <1>2, <1>3, <1>4 DEF applyFinalizeResult

(***************************************************************************)
(* Staged storage implements PieceStore, for any metainfo, any number of   *)
(* workers and any number of crashes: what verifyAndWritePiece has put     *)
(* into the file stays there, recheck finds all of it, and only that is    *)
(* served.                                                                 *)
(***************************************************************************)
THEOREM StorageImplementsStore == Spec => StoreSpec
<1>1. Init => Pieces!PInit
  BY DEF Init, Blank, InFile, Wanted, Served, Pieces!PInit
<1>2. ASSUME Inv, [Next]_vars
      PROVE  [Pieces!PNext]_(Pieces!store)
  <2>1. CASE UNCHANGED vars
    BY <2>1 DEF vars, memory, InFile, Wanted, Served, Pieces!store
  <2>2. CASE newFileStorage \/ Crash
    BY <1>2, <2>2, LifeRefines
  <2>3. ASSUME NEW i \in Piece, nextMissingBlock(i)
        PROVE  [Pieces!PNext]_(Pieces!store)
    BY <1>2, <2>3, ReceiveRefines DEF nextMissingBlock
  <2>4. ASSUME NEW i \in Piece, NEW w \in Worker, takeFinalizeJob(i, w)
        PROVE  [Pieces!PNext]_(Pieces!store)
    BY <1>2, <2>4, SameKind DEF takeFinalizeJob, pieceState
  <2>5. ASSUME NEW b \in Block, NEW bad \in BOOLEAN, acceptBlock(b, bad)
        PROVE  [Pieces!PNext]_(Pieces!store)
    <3>1. PICK s \in { "receiving", "assembled" } : state' = [state EXCEPT ![b.PieceIndex] = s]
      BY <2>5 DEF acceptBlock
    <3> QED BY <1>2, <2>5, <3>1, BlockPiece, ReceiveRefines DEF acceptBlock
  <2> QED BY <1>2, <2>1, <2>2, <2>3, <2>4, <2>5, WorkRefines, ApplyRefines DEF Next
<1> QED BY <1>1, <1>2, Invariance, PTL DEF Spec, StoreSpec, Pieces!PSpec
=============================================================================
