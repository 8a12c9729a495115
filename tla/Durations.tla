------------------------------ MODULE Durations ------------------------------
(***************************************************************************)
(* Go's int64, the durations that are counted in it, and the interval the  *)
(* torrent's loop makes of a tracker's answer (torrent/discovery.go).      *)
(***************************************************************************)
EXTENDS Integers

CONSTANTS
  MaxInt64,   \* in place of 2^63 - 1
  Second      \* time.Second

ASSUME DurationAssumption == MaxInt64 \in Nat /\ Second \in Nat \ {0}

\* Arithmetic wraps around.
Int64(n) == ((n + MaxInt64 + 1) % (2 * MaxInt64 + 2)) - (MaxInt64 + 1)

normalizeTrackerInterval(interval) == IF interval < Second THEN 30 * Second ELSE interval
=============================================================================
