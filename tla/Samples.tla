------------------------------- MODULE Samples -------------------------------
(***************************************************************************)
(* One input of a pure part of the program; its field of says for which.   *)
(***************************************************************************)
VARIABLE sample

Is(what) == sample.of = what
=============================================================================
