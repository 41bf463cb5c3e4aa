--------------------------- MODULE DeploymentsMC ---------------------------
(* Instances of Deployments for TLC. *)
EXTENDS Deployments, TLC

CONSTANTS p1, p2, p3

TwoProcs   == {p1, p2}
ThreeProcs == {p1, p2, p3}
Symmetry   == Permutations(Procs)

OperatorOps == {"trigger", "slow", "push", "retry", "cancel", "bulkcancel", "approve", "promote",
                "autoreview"}
MishapOps   == {"push", "trigger", "rollback", "bulkcancel", "hold", "requeue", "crash", "transient",
                "die", "autofix", "fault", "nodocker", "sweep", "healthhook", "autopromote"}
LiveOps     == {"push", "transient", "crash", "die", "sweep", "reap", "plan"}

\* Two automatic deployments and nothing else, then one thing more at a time.
HoldOps     == {"push", "hold"}
CancelOps   == {"push", "cancel"}
=============================================================================
