------------------------- MODULE EcosystemWavesMC -------------------------
EXTENDS EcosystemWaves
CONSTANTS a, b, c

\* b is independent of c: while it is slow, c may be released early.
Plan  == <<<<a, b>>, <<c>>>>
Needs == [s \in {a, b, c} |-> IF s = c THEN {a} ELSE {}]
=============================================================================
