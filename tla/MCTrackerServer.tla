-------------------------- MODULE MCTrackerServer --------------------------
(* Three peers, two handlers, and two torrents of which one is allowed.    *)
EXTENDS TrackerServer, TLC

CONSTANTS p1, p2, p3, r1, r2, h1, h2

Alike == Permutations({p1, p2, p3}) \cup Permutations({r1, r2})
=============================================================================
