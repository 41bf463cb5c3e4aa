----------------------------- MODULE NameSwitch -----------------------------
(***************************************************************************)
(* What a promotion promises about the canonical name of a service:        *)
(* "Preserve current live container ... Verify promoted container health   *)
(* ... If any step fails, restore the previous live container name".       *)
(* The name may be down or serve an unproven container while one promotion *)
(* is under way; when it ends, the name serves what the promotion reports: *)
(* the new revision after a success, the one from before after a failure,  *)
(* nothing when a deployment fails after the name was switched.            *)
(* Nothing is promised once `spoiled` is set.                              *)
(***************************************************************************)
CONSTANTS Promoters, Revisions, None

VARIABLES
  serving,   \* the revision the canonical name serves, None if it is down
  busy,      \* the promotion under way, None if there is none
  target,    \* target[p]: the revision p is to bring up, None before it begins
  before,    \* what the name served when the promotion under way began
  outcome,   \* outcome[p]: what p has reported so far
  spoiled    \* an event happened for which nothing is promised

vars == <<serving, busy, target, before, outcome, spoiled>>

Init ==
  /\ serving \in Revisions \cup {None}
  /\ busy = None /\ before = None
  /\ target = [p \in Promoters |-> None]
  /\ outcome = [p \in Promoters |-> "pending"]
  /\ spoiled = FALSE

Begin(p, r) ==
  /\ busy = None /\ outcome[p] = "pending"
  /\ busy' = p /\ before' = serving
  /\ target' = [target EXCEPT ![p] = r]
  /\ UNCHANGED <<serving, outcome, spoiled>>

\* In between the name is down, tries the new revision or has the old one again.
Change ==
  /\ busy # None
  /\ serving' \in {None, target[busy], before}
  /\ UNCHANGED <<busy, target, before, outcome, spoiled>>

End(p, result) ==
  /\ busy = p
  /\ serving = IF result = "promoted" THEN target[p] ELSE before
  /\ outcome' = [outcome EXCEPT ![p] = result]
  /\ busy' = None /\ before' = None
  /\ UNCHANGED <<serving, target, spoiled>>

\* The deployment's own checks fail after the name was switched: the new revision is
\* taken away, and the one from before is gone already.
Withdraw(p) ==
  /\ busy = p /\ serving \in {target[p], None}
  /\ serving' = None
  /\ outcome' = [outcome EXCEPT ![p] = "withdrawn"]
  /\ busy' = None /\ before' = None
  /\ UNCHANGED <<target, spoiled>>

\* A promotion that does not begin.
Refuse(p) ==
  /\ busy # p /\ outcome[p] = "pending"
  /\ outcome' = [outcome EXCEPT ![p] = "failed"]
  /\ UNCHANGED <<serving, busy, target, before, spoiled>>

\* A promoter that dies while the name serves what it served before, or the new revision.
Abandon(p) ==
  /\ outcome[p] = "pending"
  /\ outcome' = [outcome EXCEPT ![p] = "abandoned"]
  /\ IF busy = p
       THEN /\ serving \in {before, target[p]}
            /\ busy' = None /\ before' = None
       ELSE UNCHANGED <<busy, before>>
  /\ UNCHANGED <<serving, target, spoiled>>

Spoil == spoiled' = TRUE

Next ==
  \/ Spoil
  \/ Change
  \/ \E p \in Promoters : \/ End(p, "promoted") \/ End(p, "failed") \/ Withdraw(p) \/ Refuse(p)
                          \/ Abandon(p)
                          \/ \E r \in Revisions : Begin(p, r)

Spec == Init /\ [][Next]_vars
=============================================================================
