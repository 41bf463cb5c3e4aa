----------------------------- MODULE CutoverMC -----------------------------
(* Instances of Cutover for TLC. *)
EXTENDS Cutover, TLC

CONSTANTS p1, p2, p3, d1, d2

TwoPromoters   == {p1, p2}
ThreePromoters == {p1, p2, p3}
TwoDeps        == {d1, d2}

AllFaults == {"api", "crash", "sick", "reap", "sweep", "supersede"}

\* Promotions differ in nothing but their names.
Interchangeable == Permutations(Promoters) \cup Permutations(Deps)
=============================================================================
