-------------------------- MODULE MCTorrentControl --------------------------
(* Two runs or one, requests that may meet in one channel, and a Close.    *)
EXTENDS TorrentControl, TLC

CONSTANTS c1, c2, r1, r2, k1

\* Both ask for the status, or one of them for a pause.
StatusOrPause == (c1 :> {"status", "paused"}) @@ (c2 :> {"status"})

AllRequests == [c \in {c1, c2} |-> Request]
=============================================================================
