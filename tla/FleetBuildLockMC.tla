-------------------------- MODULE FleetBuildLockMC --------------------------
(* Instances of FleetBuildLock for TLC. *)
EXTENDS FleetBuildLock, TLC

CONSTANTS d1, d2, t1, t2

TwoDeps    == {d1, d2}
TwoTasks   == {t1, t2}
OneEachOfTwo == (t1 :> d1) @@ (t2 :> d2)

AllFaults == {"crash", "cancel", "old", "delete", "outage", "config", "slow", "expire", "row"}
=============================================================================
