------------------------- MODULE MCHeartbeatTracker -------------------------
(***************************************************************************)
(* One sensor and two overlapping scrapes for HeartbeatTracker.            *)
(***************************************************************************)
EXTENDS HeartbeatTracker, TLC

CONSTANTS a, m1, m2

MCSensors == {a}
MCScrapes == {m1, m2}

Symmetry == Permutations(MCScrapes)

=============================================================================
