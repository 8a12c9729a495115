----------------------------- MODULE MCSeeders -----------------------------
(* Two seeders, of which one or both may leave.                            *)
EXTENDS Seeders, TLC

CONSTANTS p1, p2, idA, idB

Two == (p1 :> idA) @@ (p2 :> idB)

\* Two pieces of one block, the second shorter.
TwoPieces == [Length |-> 3, PieceLength |-> 2]
=============================================================================
