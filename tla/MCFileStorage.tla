--------------------------- MODULE MCFileStorage ---------------------------
(* Two pieces, the last one short, and two workers.                        *)
EXTENDS FileStorage

CONSTANTS w1, w2

\* A piece of two blocks and a piece of one, shorter than a block.
ShortLast == [Length |-> 5, PieceLength |-> 4]
=============================================================================
