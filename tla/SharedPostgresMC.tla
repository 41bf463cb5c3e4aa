-------------------------- MODULE SharedPostgresMC --------------------------
(* Instances of SharedPostgres for TLC. *)
EXTENDS SharedPostgres, TLC

CONSTANTS w1, v1, o1, f1, f2

OneWatcher == {w1}
Tenant   == {v1}
Operator == {o1}
Nobody   == {}
OneFresh == {f1}
TwoFresh == {f1, f2}

AllFaults == {"stop", "crash", "api", "raise", "die", "age"}
Outage    == {"stop"}

\* Nothing is promised of what follows such an event.
Unspoiled == ~spoiled
=============================================================================
