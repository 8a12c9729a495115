----------------------------- MODULE PieceStore -----------------------------
(***************************************************************************)
(* What staged storage promises about whole pieces, whatever workers,      *)
(* failing writes, retries and crashes do: the abstract specification that *)
(* FileStorage implements.                                                 *)
(*                                                                         *)
(* A piece is wanted, on its way to the file, or served.  Its right bytes, *)
(* once in the file, stay there; they are served from then on at the       *)
(* latest when the file is opened the next time, and are never wanted      *)
(* again.  Only what is in the file is served.                             *)
(***************************************************************************)
CONSTANT Piece

VARIABLES
  open,    \* the storage is in use
  inFile,  \* pieces whose right bytes are in the file
  wanted,  \* pieces of which blocks are accepted
  served   \* pieces whose blocks are read from the file for others

store == <<open, inFile, wanted, served>>

PInit == open = FALSE /\ inFile \subseteq Piece /\ wanted = {} /\ served = {}

Open == /\ ~open /\ open' = TRUE
        /\ wanted' = Piece \ inFile /\ served' = inFile
        /\ UNCHANGED inFile

\* All bytes of a piece have come.
Assemble(i) == /\ open /\ i \in wanted
               /\ wanted' = wanted \ {i}
               /\ UNCHANGED <<open, inFile, served>>

Store(i) == /\ open /\ i \notin wanted \cup inFile
            /\ inFile' = inFile \cup {i}
            /\ UNCHANGED <<open, wanted, served>>

\* Its bytes were not right.
Reject(i) == /\ open /\ i \notin wanted \cup inFile
             /\ wanted' = wanted \cup {i}
             /\ UNCHANGED <<open, inFile, served>>

Serve(i) == /\ open /\ i \in inFile \ (wanted \cup served)
            /\ served' = served \cup {i}
            /\ UNCHANGED <<open, inFile, wanted>>

Die == open /\ open' = FALSE /\ wanted' = {} /\ served' = {} /\ UNCHANGED inFile

PNext == \/ Open \/ Die
         \/ \E i \in Piece : Assemble(i) \/ Store(i) \/ Reject(i) \/ Serve(i)

PSpec == PInit /\ [][PNext]_store
=============================================================================
