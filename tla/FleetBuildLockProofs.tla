------------------------ MODULE FleetBuildLockProofs ------------------------
(***************************************************************************)
(* FleetBuildLock stays in its types and builds exclusively until one of   *)
(* the listed events happens, for any number of deployments, tasks and     *)
(* slots and any set of Faults.                                            *)
(***************************************************************************)
EXTENDS FleetBuildLock, TLAPS

(* The inductive invariant: what holds as long as nothing disturbed the      *)
(* lock.  The key alone does not protect a builder - a waiter deletes it -   *)
(* so the heartbeat beside it and the state of the row are part of it.       *)

Owning == {"added", "build", "release", "unlock"}

\* No deployment is at work twice.
Distinct == \A t, u \in Tasks : t # u /\ ~At(t, "idle") /\ ~At(u, "idle") => DepOf[t] # DepOf[u]
\* A task that owns a slot is in its key, and what is in a key owns the slot.
KeyOfOwner == \A t \in Tasks : task[t].pc \in Owning => MyKey(t)
OwnerOfKey ==
  \A k \in Slots : key[k] # None =>
    \E t \in Tasks : task[t].pc \in Owning /\ Slot(t) = k /\ DepOf[t] = key[k]
NoStaleBeat == \A k \in Slots : hb[k].owner # None => hb[k].fresh
\* Nobody recovers a slot, builds without one or died.
NoRecovery ==
  \A t \in Tasks : task[t].pc \notin {"delete", "delete_hb", "add_again", "lockless", "dead"}
\* A row a waiter would call stale has a heartbeat beside its slot, or is at no slot;
\* a deleted one is at none.
RowsProtected ==
  \A t \in Tasks :
    /\ DepOf[t] \in cancelled \cup old => task[t].pc \in {"idle", "unlock_hb", "done"} \/ Covered(t)
    /\ DepOf[t] \in deleted => task[t].pc \in {"idle", "done"}
ThreadOfBuilder == \A t \in Tasks : beat[t] # "off" => At(t, "build")

CalmInv == /\ Distinct /\ KeyOfOwner /\ OwnerOfKey /\ NoStaleBeat
           /\ NoRecovery /\ RowsProtected /\ ThreadOfBuilder
\* A waiter that inspects a slot saw an owner in it.
SawOwner == \A t \in Tasks : At(t, "inspect") => task[t].saw # None

Inv == TypeOK /\ SawOwner /\ (~disturbed => CalmInv)

---------------------------------------------------------------------------
(* Type correctness *)

LEMMA TypeInit == Init => TypeOK
<1>. SUFFICES ASSUME Init PROVE TypeOK
  OBVIOUS
<1>1. 1 \in Slots
  BY ConstantsAssumption DEF Slots
<1>2. [pc |-> "idle", slot |-> 1, saw |-> None] \in [pc : PCs, slot : Slots, saw : Deps \cup {None}]
  BY <1>1 DEF PCs
<1>3. NoBeat \in [owner : Deps \cup {None}, fresh : BOOLEAN]
  BY DEF NoBeat
<1>. QED
  BY <1>2, <1>3 DEF Init, TypeOK

\* What a move of one task does to the record of the tasks.
LEMMA GotoType ==
  ASSUME TypeOK, NEW t \in Tasks, NEW pc \in PCs, Goto(t, pc)
  PROVE  task' \in [Tasks -> [pc : PCs, slot : Slots, saw : Deps \cup {None}]]
  BY DEF TypeOK, Goto

\* A cache call leaves the record of the lost connections in its domain.
LEMMA LocalType ==
  ASSUME TypeOK, NEW t \in Tasks, Answered(t) \/ Lost(t) \/ Over(t)
  PROVE  local' \subseteq Tasks
  BY DEF TypeOK, Answered, Lost, Over

LEMMA NextSlotType ==
  ASSUME TypeOK, NEW t \in Tasks, NextSlot(t)
  PROVE  task' \in [Tasks -> [pc : PCs, slot : Slots, saw : Deps \cup {None}]]
<1>1. task[t].slot \in 1..NSlots
  BY DEF TypeOK, Slots
<1>2. (IF task[t].slot = NSlots THEN 1 ELSE task[t].slot + 1) \in Slots
  BY <1>1, ConstantsAssumption DEF Slots
<1>3. "scan" \in PCs
  BY DEF PCs
<1>. QED
  BY <1>2, <1>3 DEF TypeOK, NextSlot

LEMMA TypeStep == TypeOK /\ [Next]_vars => TypeOK'
<1>. SUFFICES ASSUME TypeOK, [Next]_vars PROVE TypeOK'
  OBVIOUS
<1>a. \A t \in Tasks : DepOf[t] \in Deps
  BY ConstantsAssumption
<1>b. \A t \in Tasks : Slot(t) \in Slots
  BY DEF TypeOK, Slot
<1>c. /\ "scan" \in PCs /\ "added" \in PCs /\ "inspect" \in PCs /\ "delete" \in PCs
      /\ "delete_hb" \in PCs /\ "add_again" \in PCs /\ "done" \in PCs /\ "build" \in PCs
      /\ "release" \in PCs /\ "unlock" \in PCs /\ "unlock_hb" \in PCs /\ "dead" \in PCs
      /\ "lockless" \in PCs
  BY DEF PCs
<1>d. /\ NoBeat \in [owner : Deps \cup {None}, fresh : BOOLEAN]
      /\ \A t \in Tasks : [owner |-> DepOf[t], fresh |-> TRUE] \in [owner : Deps \cup {None}, fresh : BOOLEAN]
  BY <1>a DEF NoBeat
<1>1. ASSUME NEW t \in Tasks, Begin(t) \/ BeginLockless(t) PROVE TypeOK'
  <2>1. CASE Begin(t)
    <3>1. disturbed' \in BOOLEAN
      BY <2>1 DEF Begin
    <3>2. local' \subseteq Tasks
      BY <2>1, LocalType DEF Begin
    <3>. QED
      BY <2>1, <1>c, <3>1, <3>2, GotoType DEF Begin, TypeOK
  <2>2. CASE BeginLockless(t)
    BY <2>2, <1>c, GotoType DEF BeginLockless, TypeOK
  <2>. QED
    BY <1>1, <2>1, <2>2
<1>2. ASSUME NEW t \in Tasks, Scan(t) PROVE TypeOK'
  <2>1. local' \subseteq Tasks
    BY <1>2, LocalType DEF Scan
  <2>2. disturbed' \in BOOLEAN
    BY <1>2 DEF Scan, TypeOK
  <2>3. key' \in [Slots -> Deps \cup {None}]
    BY <1>2, <1>a, <1>b DEF Scan, TypeOK
  <2>4. task' \in [Tasks -> [pc : PCs, slot : Slots, saw : Deps \cup {None}]]
    <3>1. key[Slot(t)] \in Deps \cup {None}
      BY <1>b DEF TypeOK
    <3>2. CASE Goto(t, "added") \/ NextSlot(t)
      BY <3>2, <1>c, GotoType, NextSlotType
    <3>3. CASE task' = [task EXCEPT ![t].pc = "inspect", ![t].saw = key[Slot(t)]]
      BY <3>1, <3>3, <1>c DEF TypeOK
    <3>. QED
      BY <1>2, <3>2, <3>3 DEF Scan
  <2>. QED
    BY <1>2, <2>1, <2>2, <2>3, <2>4 DEF Scan, TypeOK
<1>3. ASSUME NEW t \in Tasks, Inspect(t) PROVE TypeOK'
  <2>1. disturbed' \in BOOLEAN
    BY <1>3 DEF Inspect, TypeOK
  <2>2. local' \subseteq Tasks
    BY <1>3, LocalType DEF Inspect
  <2>3. CASE Recover(t)
    <3>1. task' \in [Tasks -> [pc : PCs, slot : Slots, saw : Deps \cup {None}]]
      BY <2>3, <1>c DEF Recover, TypeOK
    <3>. QED
      BY <1>3, <2>1, <2>2, <3>1 DEF Inspect, TypeOK
  <2>4. CASE NextSlot(t)
    BY <1>3, <2>1, <2>2, <2>4, NextSlotType DEF Inspect, TypeOK
  <2>. QED
    BY <1>3, <2>3, <2>4 DEF Inspect
<1>4. ASSUME NEW t \in Tasks, Delete(t) PROVE TypeOK'
  <2>1. local' \subseteq Tasks
    BY <1>4, LocalType DEF Delete
  <2>. QED
    BY <1>4, <2>1, <1>b, <1>c, GotoType DEF Delete, TypeOK
<1>5. ASSUME NEW t \in Tasks, DeleteHb(t) PROVE TypeOK'
  <2>1. local' \subseteq Tasks
    BY <1>5, LocalType DEF DeleteHb
  <2>2. hb' \in [Slots -> [owner : Deps \cup {None}, fresh : BOOLEAN]]
    BY <1>5, <1>d DEF DeleteHb, TypeOK
  <2>. QED
    BY <1>5, <2>1, <2>2, <1>c, GotoType DEF DeleteHb, TypeOK
<1>6. ASSUME NEW t \in Tasks, AddAgain(t) PROVE TypeOK'
  <2>1. local' \subseteq Tasks
    BY <1>6, LocalType DEF AddAgain
  <2>2. disturbed' \in BOOLEAN
    BY <1>6 DEF AddAgain, TypeOK
  <2>3. key' \in [Slots -> Deps \cup {None}]
    BY <1>6, <1>a, <1>b DEF AddAgain, TypeOK
  <2>4. task' \in [Tasks -> [pc : PCs, slot : Slots, saw : Deps \cup {None}]]
    BY <1>6, <1>c, GotoType, NextSlotType DEF AddAgain
  <2>. QED
    BY <1>6, <2>1, <2>2, <2>3, <2>4 DEF AddAgain, TypeOK
<1>7. ASSUME NEW t \in Tasks, GiveUp(t) PROVE TypeOK'
  <2>1. local' \subseteq Tasks
    BY <1>7, LocalType DEF GiveUp
  <2>. QED
    BY <1>7, <2>1, <1>c, GotoType DEF GiveUp, TypeOK
<1>8. ASSUME NEW t \in Tasks, FirstBeat(t) PROVE TypeOK'
  <2>1. local' \subseteq Tasks
    BY <1>8, LocalType DEF FirstBeat
  <2>2. hb' \in [Slots -> [owner : Deps \cup {None}, fresh : BOOLEAN]]
    BY <1>8, <1>d DEF FirstBeat, TypeOK
  <2>. QED
    BY <1>8, <2>1, <2>2, <1>c, GotoType DEF FirstBeat, TypeOK
<1>9. ASSUME NEW t \in Tasks, Thread(t) PROVE TypeOK'
  <2>1. CASE BeatCheck(t)
    BY <2>1 DEF BeatCheck, TypeOK
  <2>2. CASE BeatSet(t)
    BY <2>2, <1>a, <1>b DEF BeatSet, TypeOK
  <2>3. CASE BeatAgain(t)
    BY <2>3 DEF BeatAgain, TypeOK
  <2>4. CASE BeatRefresh(t)
    BY <2>4, <1>a, <1>b DEF BeatRefresh, TypeOK
  <2>. QED
    BY <1>9, <2>1, <2>2, <2>3, <2>4 DEF Thread
<1>10. ASSUME NEW t \in Tasks, BuildEnds(t) \/ LocklessEnds(t) PROVE TypeOK'
  BY <1>10, <1>c, GotoType DEF BuildEnds, LocklessEnds, TypeOK
<1>11. ASSUME NEW t \in Tasks, Release(t) PROVE TypeOK'
  <2>1. local' \subseteq Tasks
    BY <1>11, LocalType DEF Release
  <2>2. disturbed' \in BOOLEAN
    BY <1>11 DEF Release, TypeOK
  <2>. QED
    BY <1>11, <2>1, <2>2, <1>c, GotoType DEF Release, TypeOK
<1>12. ASSUME NEW t \in Tasks, Unlock(t) PROVE TypeOK'
  <2>1. local' \subseteq Tasks
    BY <1>12, LocalType DEF Unlock
  <2>. QED
    BY <1>12, <2>1, <1>b, <1>c, GotoType DEF Unlock, TypeOK
<1>13. ASSUME NEW t \in Tasks, UnlockHb(t) PROVE TypeOK'
  <2>1. disturbed' \in BOOLEAN
    BY <1>13 DEF UnlockHb, TypeOK
  <2>2. local' \subseteq Tasks
    BY <1>13, LocalType DEF UnlockHb
  <2>3. hb' \in [Slots -> [owner : Deps \cup {None}, fresh : BOOLEAN]]
    BY <1>13, <1>d DEF UnlockHb, TypeOK
  <2>. QED
    BY <1>13, <2>1, <2>2, <2>3, <1>c, GotoType DEF UnlockHb, TypeOK
<1>14. ASSUME NEW t \in Tasks, RowMovesOn(t) PROVE TypeOK'
  BY <1>14, <1>a DEF RowMovesOn, TypeOK
<1>15. ASSUME NEW t \in Tasks, Crash(t) \/ Blip(t) \/ BeatBack(t) \/ Reconnect(t) PROVE TypeOK'
  <2>1. CASE Crash(t)
    <3>1. local' \subseteq Tasks
      BY <2>1, LocalType DEF Crash
    <3>. QED
      BY <2>1, <3>1, <1>c, GotoType DEF Crash, TypeOK
  <2>2. CASE Blip(t)
    BY <2>2 DEF Blip, TypeOK
  <2>3. CASE BeatBack(t)
    BY <2>3 DEF BeatBack, TypeOK
  <2>4. CASE Reconnect(t)
    BY <2>4 DEF Reconnect, TypeOK
  <2>. QED
    BY <1>15, <2>1, <2>2, <2>3, <2>4
<1>16. ASSUME NEW k \in Slots, HeartbeatAges(k) \/ KeyExpires(k) PROVE TypeOK'
  <2>1. CASE HeartbeatAges(k)
    BY <2>1 DEF HeartbeatAges, TypeOK
  <2>2. CASE KeyExpires(k)
    BY <2>2 DEF KeyExpires, TypeOK
  <2>. QED
    BY <1>16, <2>1, <2>2
<1>17. ASSUME NEW d \in Deps, CancelRow(d) \/ RowAges(d) \/ DeleteRow(d) PROVE TypeOK'
  <2>1. disturbed' \in BOOLEAN
    BY <1>17 DEF CancelRow, RowAges, DeleteRow
  <2>. QED
    BY <1>17, <2>1 DEF CancelRow, RowAges, DeleteRow, TypeOK
<1>18. CASE UNCHANGED vars
  BY <1>18 DEF vars, TypeOK
<1>. QED
  BY <1>1, <1>2, <1>3, <1>4, <1>5, <1>6, <1>7, <1>8, <1>9, <1>10, <1>11, <1>12, <1>13, <1>14,
     <1>15, <1>16, <1>17, <1>18 DEF Next, Work

\* Every variable stays in its domain: no scan runs past the last slot.
THEOREM TypeCorrect == Spec => []TypeOK
  BY TypeInit, TypeStep, PTL DEF Spec

---------------------------------------------------------------------------
(* Exclusive building *)

LEMMA CalmImpliesExclusion ==
  ASSUME TypeOK, CalmInv
  PROVE  MutualExclusion
<1>0. \A t \in Tasks : ~At(t, "lockless")
  BY DEF CalmInv, NoRecovery, At
<1>. SUFFICES ASSUME NEW t \in Tasks, NEW u \in Tasks, t # u,
                     task[t].pc \in Holding, task[u].pc \in Holding, Slot(t) = Slot(u)
              PROVE FALSE
  BY <1>0 DEF MutualExclusion
<1>1. DepOf[t] = DepOf[u]
  BY DEF CalmInv, KeyOfOwner, Owning, Holding, MyKey
<1>2. DepOf[t] # DepOf[u]
  BY DEF CalmInv, Distinct, At, Holding
<1>. QED
  BY <1>1, <1>2

LEMMA InvInit == Init => Inv
<1>. SUFFICES ASSUME Init PROVE CalmInv /\ SawOwner
  BY TypeInit DEF Inv
<1>1. \A t \in Tasks : task[t].pc = "idle" /\ beat[t] = "off"
  BY DEF Init
<1>2. /\ \A k \in Slots : key[k] = None /\ hb[k].owner = None
      /\ cancelled = {} /\ old = {} /\ deleted = {}
  BY DEF Init, NoBeat
<1>. QED
  BY <1>1, <1>2 DEF CalmInv, Distinct, KeyOfOwner, OwnerOfKey, NoStaleBeat, NoRecovery,
     RowsProtected, ThreadOfBuilder, SawOwner, At, Owning

\* As long as the lock is calm, no waiter calls the owner it sees in a key stale.
LEMMA NothingStale ==
  ASSUME TypeOK, CalmInv, NEW k \in Slots, key[k] # None
  PROVE  ~Stale(key[k], k)
<1>1. PICK t \in Tasks : task[t].pc \in Owning /\ Slot(t) = k /\ DepOf[t] = key[k]
  BY DEF CalmInv, OwnerOfKey
<1>2. key[k] \notin deleted
  BY <1>1 DEF CalmInv, RowsProtected, Owning
<1>3. hb[k].owner = key[k] => hb[k].fresh
  BY DEF CalmInv, NoStaleBeat
<1>4. key[k] \in cancelled \cup old => hb[k].owner = key[k] /\ hb[k].fresh
  <2>. SUFFICES ASSUME key[k] \in cancelled \cup old PROVE hb[k].owner = key[k] /\ hb[k].fresh
    OBVIOUS
  <2>1. Covered(t)
    BY <1>1 DEF CalmInv, RowsProtected, Owning
  <2>2. hb[k] = [owner |-> key[k], fresh |-> TRUE]
    BY <1>1, <2>1 DEF Covered
  <2>. QED
    BY <2>2
<1>. QED
  BY <1>2, <1>3, <1>4 DEF Stale

\* A step that moves only task t, to pc, and leaves the slot it looks at alone.
LEMMA GotoMoves ==
  ASSUME TypeOK, NEW t \in Tasks, NEW pc, Goto(t, pc)
  PROVE  /\ task'[t].pc = pc /\ task'[t].slot = task[t].slot
         /\ \A u \in Tasks \ {t} : task'[u] = task[u]
  BY DEF Goto, TypeOK

LEMMA NextSlotMoves ==
  ASSUME TypeOK, NEW t \in Tasks, NextSlot(t)
  PROVE  /\ task'[t].pc = "scan"
         /\ \A u \in Tasks \ {t} : task'[u] = task[u]
  BY DEF NextSlot, TypeOK

\* A task that owns no slot before and after the step, and leaves the cache alone,
\* does not touch the owners.
LEMMA MoveOfNonOwner ==
  ASSUME CalmInv, NEW t \in Tasks, task[t].pc \notin Owning, task'[t].pc \notin Owning,
         \A u \in Tasks \ {t} : task'[u] = task[u], UNCHANGED <<key, hb>>
  PROVE  KeyOfOwner' /\ OwnerOfKey' /\ NoStaleBeat'
<1>1. KeyOfOwner'
  BY DEF CalmInv, KeyOfOwner, MyKey, Slot
<1>2. OwnerOfKey'
  <2>. SUFFICES ASSUME NEW k \in Slots, key[k] # None
                PROVE  \E u \in Tasks : task'[u].pc \in Owning /\ task'[u].slot = k /\ DepOf[u] = key[k]
    BY DEF OwnerOfKey, Slot
  <2>1. PICK u \in Tasks : task[u].pc \in Owning /\ Slot(u) = k /\ DepOf[u] = key[k]
    BY DEF CalmInv, OwnerOfKey
  <2>2. u # t
    BY <2>1
  <2>. QED
    BY <2>1, <2>2 DEF Slot
<1>4. NoStaleBeat'
  BY DEF CalmInv, NoStaleBeat
<1>. QED
  BY <1>1, <1>2, <1>4

\* A task takes a slot whose key is free.
LEMMA TakesSlot ==
  ASSUME TypeOK, CalmInv, NEW t \in Tasks, At(t, "scan"), key[Slot(t)] = None,
         key' = [key EXCEPT ![Slot(t)] = DepOf[t]], Goto(t, "added"),
         UNCHANGED <<hb, beat, cancelled, old, deleted>>
  PROVE  CalmInv'
<1>. USE GotoMoves
<1>1. Distinct'
  <2>. SUFFICES ASSUME NEW u \in Tasks, NEW v \in Tasks, u # v, task'[u].pc # "idle", task'[v].pc # "idle"
                PROVE  DepOf[u] # DepOf[v]
    BY DEF Distinct, At
  <2>1. task[u].pc # "idle" /\ task[v].pc # "idle"
    BY DEF At
  <2>. QED
    BY <2>1 DEF CalmInv, Distinct, At
<1>2. Slot(t) \in Slots /\ DepOf[t] \in Deps /\ DepOf[t] # None
  BY ConstantsAssumption DEF TypeOK, Slot
<1>3. \A u \in Tasks : task[u].pc \in Owning => Slot(u) # Slot(t)
  BY <1>2, ConstantsAssumption DEF CalmInv, KeyOfOwner, MyKey
<1>4. KeyOfOwner'
  BY <1>2, <1>3 DEF CalmInv, KeyOfOwner, MyKey, Slot, TypeOK
<1>5. OwnerOfKey'
  <2>. SUFFICES ASSUME NEW k \in Slots, key'[k] # None
                PROVE  \E u \in Tasks : task'[u].pc \in Owning /\ task'[u].slot = k /\ DepOf[u] = key'[k]
    BY DEF OwnerOfKey, Slot
  <2>1. CASE k = Slot(t)
    BY <2>1, <1>2 DEF Owning, Slot, TypeOK
  <2>2. CASE k # Slot(t)
    <3>1. key[k] = key'[k]
      BY <2>2 DEF TypeOK
    <3>2. PICK u \in Tasks : task[u].pc \in Owning /\ Slot(u) = k /\ DepOf[u] = key[k]
      BY <3>1 DEF CalmInv, OwnerOfKey
    <3>. QED
      BY <2>2, <3>1, <3>2 DEF Slot
  <2>. QED
    BY <2>1, <2>2
<1>7. NoStaleBeat' /\ NoRecovery'
  BY DEF CalmInv, NoStaleBeat, NoRecovery
<1>8. RowsProtected'
  BY DEF CalmInv, RowsProtected, Covered, Slot, At
<1>9. ThreadOfBuilder'
  BY DEF CalmInv, ThreadOfBuilder, At
<1>. QED
  BY <1>1, <1>4, <1>5, <1>7, <1>8, <1>9 DEF CalmInv

LEMMA CalmFirstBeat ==
  ASSUME TypeOK, CalmInv, NEW t \in Tasks, FirstBeat(t)
  PROVE  CalmInv'
<1>1. /\ At(t, "added") /\ Goto(t, "build")
      /\ hb' = [hb EXCEPT ![Slot(t)] = [owner |-> DepOf[t], fresh |-> TRUE]] \/ hb' = hb
      /\ beat' = [beat EXCEPT ![t] = "on"] /\ UNCHANGED <<key, cancelled, old, deleted>>
  BY DEF FirstBeat
<1>2. /\ task'[t].pc = "build" /\ task'[t].slot = task[t].slot
      /\ \A u \in Tasks \ {t} : task'[u] = task[u]
  BY <1>1, GotoMoves
<1>3. Slot(t) \in Slots
  BY DEF TypeOK, Slot
<1>4. \A u \in Tasks \ {t} : task[u].pc \in Owning => Slot(u) # Slot(t)
  BY <1>1 DEF CalmInv, KeyOfOwner, Distinct, MyKey, At, Owning
<1>5. Distinct'
  <2>. SUFFICES ASSUME NEW u \in Tasks, NEW v \in Tasks, u # v, task'[u].pc # "idle", task'[v].pc # "idle"
                PROVE  DepOf[u] # DepOf[v]
    BY DEF Distinct, At
  <2>1. task[u].pc # "idle" /\ task[v].pc # "idle"
    BY <1>1, <1>2 DEF At
  <2>. QED
    BY <2>1 DEF CalmInv, Distinct, At
<1>6. KeyOfOwner'
  BY <1>1, <1>2 DEF CalmInv, KeyOfOwner, MyKey, Slot, At, Owning
<1>7. OwnerOfKey'
  BY <1>1, <1>2 DEF CalmInv, OwnerOfKey, Slot, At, Owning
<1>9. NoStaleBeat'
  BY <1>1, <1>3 DEF CalmInv, NoStaleBeat, TypeOK
<1>10. NoRecovery'
  BY <1>2 DEF CalmInv, NoRecovery
<1>11. RowsProtected'
  <2>1. ASSUME NEW u \in Tasks, u # t, Covered(u) PROVE Covered(u)'
    <3>1. Slot(u) # Slot(t) /\ hb'[Slot(u)] = hb[Slot(u)]
      BY <1>1, <1>4, <2>1 DEF Covered, Owning, TypeOK, Slot
    <3>. QED
      BY <1>2, <2>1, <3>1 DEF Covered, Slot
  <2>2. DepOf[t] \notin cancelled \cup old \cup deleted
    BY <1>1 DEF CalmInv, RowsProtected, Covered, At
  <2>. QED
    BY <1>1, <1>2, <2>1, <2>2 DEF CalmInv, RowsProtected
<1>12. ThreadOfBuilder'
  BY <1>1, <1>2 DEF CalmInv, ThreadOfBuilder, At, TypeOK
<1>. QED
  BY <1>5, <1>6, <1>7, <1>9, <1>10, <1>11, <1>12 DEF CalmInv

(* The steps of a calm lock, one by one. *)

\* What the remaining parts need of a task that moves on without a slot.
LEMMA RestOfNonOwner ==
  ASSUME CalmInv, NEW t \in Tasks, task[t].pc \notin Owning \cup {"idle"},
         task'[t].pc \in {"scan", "inspect", "done"},
         DepOf[t] \in cancelled \cup old \cup deleted => task'[t].pc = "done",
         \A u \in Tasks \ {t} : task'[u] = task[u], UNCHANGED <<beat, cancelled, old, deleted>>,
         \A u \in Tasks \ {t} : Covered(u) => hb'[Slot(u)] = hb[Slot(u)]
  PROVE  Distinct' /\ NoRecovery' /\ RowsProtected' /\ ThreadOfBuilder'
<1>1. Distinct'
  <2>. SUFFICES ASSUME NEW u \in Tasks, NEW v \in Tasks, u # v, task'[u].pc # "idle", task'[v].pc # "idle"
                PROVE  DepOf[u] # DepOf[v]
    BY DEF Distinct, At
  <2>1. task[u].pc # "idle" /\ task[v].pc # "idle"
    OBVIOUS
  <2>. QED
    BY <2>1 DEF CalmInv, Distinct, At
<1>2. NoRecovery'
  BY DEF CalmInv, NoRecovery
<1>3. RowsProtected'
  <2>1. ~Covered(t)
    BY DEF Covered, Owning
  <2>2. \A u \in Tasks \ {t} : Covered(u) => Covered(u)'
    BY DEF Covered, Slot
  <2>. QED
    BY <2>1, <2>2 DEF CalmInv, RowsProtected
<1>4. ThreadOfBuilder'
  BY DEF CalmInv, ThreadOfBuilder, At, Owning
<1>. QED
  BY <1>1, <1>2, <1>3, <1>4

LEMMA CalmBegin ==
  ASSUME TypeOK, CalmInv, NEW t \in Tasks, Begin(t), ~disturbed'
  PROVE  CalmInv'
<1>1. /\ task'[t].pc = "scan" /\ \A u \in Tasks \ {t} : task'[u] = task[u]
  BY GotoMoves DEF Begin
<1>2. KeyOfOwner' /\ OwnerOfKey' /\ NoStaleBeat'
  BY <1>1, MoveOfNonOwner DEF Begin, At, Owning
<1>3. \A u \in Tasks \ {t} : task[u].pc # "idle" => DepOf[u] # DepOf[t]
  BY DEF Begin, At
<1>4. Distinct'
  <2>. SUFFICES ASSUME NEW u \in Tasks, NEW v \in Tasks, u # v, task'[u].pc # "idle", task'[v].pc # "idle"
                PROVE  DepOf[u] # DepOf[v]
    BY DEF Distinct, At
  <2>1. CASE u = t \/ v = t
    BY <2>1, <1>1, <1>3
  <2>2. CASE u # t /\ v # t
    BY <2>2, <1>1 DEF CalmInv, Distinct, At
  <2>. QED
    BY <2>1, <2>2
<1>5. NoRecovery'
  BY <1>1 DEF CalmInv, NoRecovery
<1>6. RowsProtected'
  <2>1. DepOf[t] \notin cancelled \cup old \cup deleted /\ UNCHANGED <<cancelled, old, deleted>>
    BY DEF Begin
  <2>2. \A u \in Tasks \ {t} : Covered(u) => Covered(u)'
    BY <1>1 DEF Begin, Covered, Slot
  <2>. QED
    BY <1>1, <2>1, <2>2 DEF CalmInv, RowsProtected
<1>7. ThreadOfBuilder'
  BY <1>1 DEF Begin, CalmInv, ThreadOfBuilder, At
<1>. QED
  BY <1>2, <1>4, <1>5, <1>6, <1>7 DEF CalmInv

LEMMA CalmScan ==
  ASSUME TypeOK, CalmInv, NEW t \in Tasks, Scan(t), ~disturbed'
  PROVE  CalmInv'
<1>1. Slot(t) \in Slots /\ DepOf[t] \in Deps
  BY ConstantsAssumption DEF TypeOK, Slot
<1>2. key[Slot(t)] # DepOf[t]
  <2>. SUFFICES ASSUME key[Slot(t)] = DepOf[t] PROVE FALSE
    OBVIOUS
  <2>1. PICK u \in Tasks : task[u].pc \in Owning /\ DepOf[u] = DepOf[t]
    BY <1>1, ConstantsAssumption DEF CalmInv, OwnerOfKey
  <2>. QED
    BY <2>1 DEF Scan, CalmInv, Distinct, At, Owning
<1>3. CASE key' = [key EXCEPT ![Slot(t)] = DepOf[t]] /\ Goto(t, "added") /\ key[Slot(t)] = None
  BY <1>3, TakesSlot DEF Scan
<1>4. ASSUME task'[t].pc \in {"scan", "inspect"}, \A u \in Tasks \ {t} : task'[u] = task[u], UNCHANGED key
      PROVE  CalmInv'
  <2>1. /\ UNCHANGED <<key, hb, beat, cancelled, old, deleted>> /\ task[t].pc = "scan"
    BY <1>4 DEF Scan, At
  <2>2. DepOf[t] \notin cancelled \cup old \cup deleted
    BY <2>1 DEF CalmInv, RowsProtected, Covered
  <2>3. KeyOfOwner' /\ OwnerOfKey' /\ NoStaleBeat'
    BY <1>4, <2>1, MoveOfNonOwner DEF Owning
  <2>4. Distinct' /\ NoRecovery' /\ RowsProtected' /\ ThreadOfBuilder'
    BY <1>4, <2>1, <2>2, RestOfNonOwner DEF Owning
  <2>. QED
    BY <2>3, <2>4 DEF CalmInv
<1>5. CASE task' = [task EXCEPT ![t].pc = "inspect", ![t].saw = key[Slot(t)]] /\ UNCHANGED key
  <2>1. task'[t].pc = "inspect" /\ \A u \in Tasks \ {t} : task'[u] = task[u]
    BY <1>5 DEF TypeOK
  <2>. QED
    BY <1>4, <1>5, <2>1
<1>6. CASE NextSlot(t) /\ UNCHANGED key
  BY <1>4, <1>6, NextSlotMoves
<1>. QED
  BY <1>2, <1>3, <1>5, <1>6 DEF Scan

\* The waiter's judgement is right as long as the key is still the one it saw.
LEMMA CalmInspect ==
  ASSUME TypeOK, CalmInv, SawOwner, NEW t \in Tasks, Inspect(t), ~disturbed'
  PROVE  CalmInv'
<1>1. ~Stale(task[t].saw, Slot(t)) \/ key[Slot(t)] # task[t].saw
  <2>1. Slot(t) \in Slots /\ task[t].saw # None
    BY DEF TypeOK, Slot, Inspect, SawOwner
  <2>. QED
    BY <2>1, NothingStale
<1>2. /\ task'[t].pc = "scan" /\ \A u \in Tasks \ {t} : task'[u] = task[u]
      /\ UNCHANGED <<key, hb, beat, cancelled, old, deleted>> /\ task[t].pc = "inspect"
  BY <1>1, NextSlotMoves DEF Inspect, At
<1>3. DepOf[t] \notin cancelled \cup old \cup deleted
  BY <1>2 DEF CalmInv, RowsProtected, Covered
<1>4. KeyOfOwner' /\ OwnerOfKey' /\ NoStaleBeat'
  BY <1>2, MoveOfNonOwner DEF Owning
<1>5. Distinct' /\ NoRecovery' /\ RowsProtected' /\ ThreadOfBuilder'
  BY <1>2, <1>3, RestOfNonOwner DEF Owning
<1>. QED
  BY <1>4, <1>5 DEF CalmInv

LEMMA SawOwnerStep ==
  ASSUME TypeOK, SawOwner, [Next]_vars
  PROVE  SawOwner'
<1>1. ASSUME NEW t \in Tasks, Scan(t) PROVE SawOwner'
  <2>1. CASE Goto(t, "added")
    BY <2>1, GotoMoves DEF SawOwner, At
  <2>2. CASE NextSlot(t)
    BY <2>2, NextSlotMoves DEF SawOwner, At
  <2>3. CASE task' = [task EXCEPT ![t].pc = "inspect", ![t].saw = key[Slot(t)]] /\ key[Slot(t)] # None
    BY <2>3 DEF SawOwner, At, TypeOK
  <2>. QED
    BY <1>1, <2>1, <2>2, <2>3 DEF Scan
<1>2. ASSUME NEW t \in Tasks, NEW pc \in PCs \ {"inspect"}, Goto(t, pc) PROVE SawOwner'
  BY <1>2, GotoMoves DEF SawOwner, At
<1>3. ASSUME NEW t \in Tasks, NextSlot(t) PROVE SawOwner'
  BY <1>3, NextSlotMoves DEF SawOwner, At
<1>4. CASE UNCHANGED task
  BY <1>4 DEF SawOwner, At
<1>5. ASSUME NEW t \in Tasks, Begin(t) \/ BeginLockless(t) \/ GiveUp(t) \/ Crash(t)
      PROVE  SawOwner'
  BY <1>2, <1>5 DEF Begin, BeginLockless, GiveUp, Crash, PCs
<1>6. ASSUME NEW t \in Tasks, Inspect(t) \/ AddAgain(t) PROVE SawOwner'
  <2>1. CASE Recover(t)
    BY <2>1 DEF Recover, SawOwner, At, TypeOK
  <2>. QED
    BY <1>2, <1>3, <1>6, <2>1 DEF Inspect, AddAgain, PCs
<1>7. ASSUME NEW t \in Tasks, Delete(t) \/ DeleteHb(t) \/ FirstBeat(t) \/ BuildEnds(t) \/ LocklessEnds(t)
      PROVE  SawOwner'
  BY <1>2, <1>7 DEF Delete, DeleteHb, FirstBeat, BuildEnds, LocklessEnds, PCs
<1>8. ASSUME NEW t \in Tasks, Release(t) \/ Unlock(t) \/ UnlockHb(t) PROVE SawOwner'
  BY <1>2, <1>8 DEF Release, Unlock, UnlockHb, PCs
<1>9. ASSUME NEW t \in Tasks, Thread(t) \/ RowMovesOn(t) \/ Blip(t) \/ BeatBack(t) \/ Reconnect(t)
      PROVE  SawOwner'
  BY <1>4, <1>9 DEF Thread, BeatCheck, BeatSet, BeatAgain, BeatRefresh, RowMovesOn, Blip, BeatBack, Reconnect
<1>10. ASSUME NEW k \in Slots, HeartbeatAges(k) \/ KeyExpires(k) PROVE SawOwner'
  BY <1>4, <1>10 DEF HeartbeatAges, KeyExpires
<1>11. ASSUME NEW d \in Deps, CancelRow(d) \/ RowAges(d) \/ DeleteRow(d) PROVE SawOwner'
  BY <1>4, <1>11 DEF CancelRow, RowAges, DeleteRow
<1>. QED
  BY <1>1, <1>4, <1>5, <1>6, <1>7, <1>8, <1>9, <1>10, <1>11 DEF Next, Work, vars

\* A heartbeat thread writes only what its builder owns anyway; it may be the one that
\* writes the first heartbeat.
LEMMA CalmThread ==
  ASSUME TypeOK, CalmInv, NEW t \in Tasks, Thread(t) \/ Blip(t) \/ BeatBack(t)
  PROVE  CalmInv'
<1>1. At(t, "build") /\ UNCHANGED <<task, cancelled, old, deleted>>
  BY DEF Thread, BeatCheck, BeatSet, BeatAgain, BeatRefresh, Blip, BeatBack, CalmInv, ThreadOfBuilder
<1>2. Slot(t) \in Slots /\ MyKey(t) /\ DepOf[t] \in Deps
  BY <1>1, ConstantsAssumption DEF TypeOK, Slot, CalmInv, KeyOfOwner, At, Owning
<1>3. UNCHANGED key
  BY <1>2 DEF Thread, BeatCheck, BeatSet, BeatAgain, BeatRefresh, Blip, BeatBack, MyKey, TypeOK
<1>4. hb' = [hb EXCEPT ![Slot(t)] = [owner |-> DepOf[t], fresh |-> TRUE]] \/ hb' = hb
  BY DEF Thread, BeatCheck, BeatSet, BeatAgain, BeatRefresh, Blip, BeatBack
<1>5. ThreadOfBuilder'
  <2>1. \A u \in Tasks \ {t} : beat'[u] = beat[u]
    BY DEF Thread, BeatCheck, BeatSet, BeatAgain, BeatRefresh, Blip, BeatBack, TypeOK
  <2>. QED
    BY <1>1, <2>1 DEF CalmInv, ThreadOfBuilder, At
<1>6. Distinct' /\ KeyOfOwner' /\ OwnerOfKey' /\ NoRecovery'
  BY <1>1, <1>3 DEF CalmInv, Distinct, KeyOfOwner, OwnerOfKey, NoRecovery, At, MyKey, Slot
<1>7. NoStaleBeat'
  <2>1. \A k \in Slots : hb'[k] = hb[k] \/ hb'[k] = [owner |-> DepOf[t], fresh |-> TRUE]
    BY <1>4 DEF TypeOK
  <2>. QED
    BY <2>1 DEF CalmInv, NoStaleBeat
<1>8. RowsProtected'
  <2>1. \A u \in Tasks \ {t} : task[u].pc \in Owning => Slot(u) # Slot(t)
    BY <1>1 DEF CalmInv, KeyOfOwner, Distinct, MyKey, At, Owning
  <2>2. ASSUME NEW u \in Tasks, Covered(u) PROVE Covered(u)'
    <3>0. hb[Slot(u)] = [owner |-> DepOf[u], fresh |-> TRUE] /\ (u # t => Slot(u) # Slot(t))
      BY <2>1, <2>2 DEF Covered, Owning
    <3>1. hb'[Slot(u)] = [owner |-> DepOf[u], fresh |-> TRUE]
      <4>1. CASE u = t
        BY <4>1, <1>2, <1>4, <3>0 DEF TypeOK
      <4>2. CASE u # t
        <5>1. Slot(u) \in Slots
          BY DEF TypeOK, Slot
        <5>2. hb'[Slot(u)] = hb[Slot(u)]
          BY <4>2, <5>1, <1>4, <3>0 DEF TypeOK
        <5>. QED
          BY <5>2, <3>0
      <4>. QED
        BY <4>1, <4>2
    <3>. QED
      BY <1>1, <2>2, <3>1 DEF Covered, Slot
  <2>. QED
    BY <1>1, <2>2 DEF CalmInv, RowsProtected
<1>. QED
  BY <1>5, <1>6, <1>7, <1>8 DEF CalmInv

\* The build ends and its worker looks at the key: still an owner, still protected.
LEMMA CalmEnd ==
  ASSUME TypeOK, CalmInv, NEW t \in Tasks, BuildEnds(t) \/ Release(t), ~disturbed'
  PROVE  CalmInv'
<1>1. /\ task[t].pc \in {"build", "release"} /\ task'[t].pc \in {"release", "unlock"}
      /\ task'[t].slot = task[t].slot /\ \A u \in Tasks \ {t} : task'[u] = task[u]
      /\ UNCHANGED <<key, hb, cancelled, old, deleted>>
  BY GotoMoves DEF BuildEnds, Release, CalmInv, KeyOfOwner, MyKey, At, Owning
<1>2. beat'[t] = "off" /\ \A u \in Tasks \ {t} : beat'[u] = beat[u]
  BY DEF BuildEnds, Release, CalmInv, ThreadOfBuilder, At, TypeOK
<1>3. Distinct'
  BY <1>1 DEF CalmInv, Distinct, At
<1>4. KeyOfOwner'
  BY <1>1 DEF CalmInv, KeyOfOwner, MyKey, Slot, Owning
<1>5. OwnerOfKey'
  <2>1. \A u \in Tasks : task[u].pc \in Owning => task'[u].pc \in Owning /\ task'[u].slot = task[u].slot
    BY <1>1 DEF Owning
  <2>. QED
    BY <1>1, <2>1 DEF CalmInv, OwnerOfKey, Slot
<1>6. NoStaleBeat' /\ NoRecovery'
  BY <1>1 DEF CalmInv, NoStaleBeat, NoRecovery
<1>7. RowsProtected'
  <2>1. \A u \in Tasks : Covered(u) => Covered(u)'
    BY <1>1 DEF Covered, Slot
  <2>. QED
    BY <1>1, <2>1 DEF CalmInv, RowsProtected
<1>8. ThreadOfBuilder'
  BY <1>1, <1>2 DEF CalmInv, ThreadOfBuilder, At
<1>. QED
  BY <1>3, <1>4, <1>5, <1>6, <1>7, <1>8 DEF CalmInv

LEMMA CalmUnlock ==
  ASSUME TypeOK, CalmInv, NEW t \in Tasks, Unlock(t), ~disturbed'
  PROVE  CalmInv'
<1>1. /\ task[t].pc = "unlock" /\ task'[t].pc = "unlock_hb"
      /\ \A u \in Tasks \ {t} : task'[u] = task[u]
      /\ key' = [key EXCEPT ![Slot(t)] = None] /\ UNCHANGED <<hb, beat, cancelled, old, deleted>>
  BY GotoMoves DEF Unlock, At
<1>2. Slot(t) \in Slots
  BY DEF TypeOK, Slot
<1>3. \A u \in Tasks \ {t} : task[u].pc \in Owning => Slot(u) # Slot(t)
  BY <1>1 DEF CalmInv, KeyOfOwner, Distinct, MyKey, At, Owning
<1>4. KeyOfOwner'
  BY <1>1, <1>2, <1>3 DEF CalmInv, KeyOfOwner, MyKey, Slot, Owning, TypeOK
<1>5. OwnerOfKey'
  <2>. SUFFICES ASSUME NEW k \in Slots, key'[k] # None
                PROVE  \E u \in Tasks : task'[u].pc \in Owning /\ task'[u].slot = k /\ DepOf[u] = key'[k]
    BY DEF OwnerOfKey, Slot
  <2>1. k # Slot(t) /\ key'[k] = key[k]
    BY <1>1, <1>2 DEF TypeOK
  <2>2. PICK u \in Tasks : task[u].pc \in Owning /\ Slot(u) = k /\ DepOf[u] = key[k]
    BY <2>1 DEF CalmInv, OwnerOfKey
  <2>. QED
    BY <1>1, <2>1, <2>2 DEF Slot
<1>5a. Distinct'
  BY <1>1 DEF CalmInv, Distinct, At
<1>6. RowsProtected'
  <2>1. \A u \in Tasks \ {t} : Covered(u) => Covered(u)'
    BY <1>1 DEF Covered, Slot
  <2>. QED
    BY <1>1, <2>1 DEF CalmInv, RowsProtected
<1>7. NoStaleBeat' /\ NoRecovery'
  BY <1>1 DEF CalmInv, NoStaleBeat, NoRecovery
<1>8. ThreadOfBuilder'
  BY <1>1 DEF CalmInv, ThreadOfBuilder, At
<1>. QED
  BY <1>4, <1>5, <1>5a, <1>6, <1>7, <1>8 DEF CalmInv

\* The unlock deletes no other owner's heartbeat in a calm step.
LEMMA CalmUnlockHb ==
  ASSUME TypeOK, CalmInv, NEW t \in Tasks, UnlockHb(t), ~disturbed'
  PROVE  CalmInv'
<1>1. /\ task[t].pc = "unlock_hb" /\ task'[t].pc = "done"
      /\ \A u \in Tasks \ {t} : task'[u] = task[u]
      /\ \/ hb' = [hb EXCEPT ![Slot(t)] = NoBeat] /\ hb[Slot(t)].owner \in {DepOf[t], None}
         \/ hb' = hb
      /\ UNCHANGED <<key, beat, cancelled, old, deleted>>
  BY GotoMoves DEF UnlockHb, At
<1>2. Slot(t) \in Slots
  BY DEF TypeOK, Slot
<1>3. ASSUME NEW u \in Tasks \ {t}, Covered(u) PROVE hb'[Slot(u)] = hb[Slot(u)]
  <2>1. hb[Slot(u)].owner = DepOf[u] /\ DepOf[u] # DepOf[t] /\ DepOf[u] # None
    BY <1>1, <1>3, ConstantsAssumption DEF Covered, CalmInv, Distinct, At
  <2>2. CASE hb[Slot(t)].owner \in {DepOf[t], None} /\ hb' = [hb EXCEPT ![Slot(t)] = NoBeat]
    <3>1. Slot(u) # Slot(t)
      BY <2>1, <2>2
    <3>. QED
      BY <2>2, <3>1 DEF TypeOK
  <2>. QED
    BY <1>1, <2>2
<1>4. Distinct' /\ NoRecovery' /\ RowsProtected' /\ ThreadOfBuilder'
  BY <1>1, <1>3, RestOfNonOwner DEF Owning
<1>5. OwnerOfKey'
  <2>1. \A u \in Tasks : task[u].pc \in Owning => u # t
    BY <1>1 DEF Owning
  <2>. QED
    BY <1>1, <2>1 DEF CalmInv, OwnerOfKey, Slot
<1>6. KeyOfOwner'
  BY <1>1 DEF CalmInv, KeyOfOwner, MyKey, Slot, Owning
<1>7. NoStaleBeat'
  BY <1>1, <1>2 DEF CalmInv, NoStaleBeat, NoBeat, TypeOK
<1>. QED
  BY <1>4, <1>5, <1>6, <1>7 DEF CalmInv

\* A row moves on, is cancelled or grows old: only behind a heartbeat, or unowned.
LEMMA CalmRow ==
  ASSUME TypeOK, CalmInv, NEW d \in Deps, ~disturbed',
         (\E t \in Tasks : RowMovesOn(t) /\ d = DepOf[t]) \/ CancelRow(d) \/ RowAges(d) \/ DeleteRow(d)
  PROVE  CalmInv'
<1>1. /\ UNCHANGED <<key, hb, task, beat>> /\ deleted' \subseteq deleted \cup {d}
      /\ cancelled' \cup old' \subseteq cancelled \cup old \cup {d}
  BY DEF RowMovesOn, CancelRow, RowAges, DeleteRow
<1>2. \A t \in Tasks : DepOf[t] = d =>
        /\ task[t].pc \in {"idle", "unlock_hb", "done"} \/ Covered(t)
        /\ d \in deleted' => task[t].pc \in {"idle", "done"}
  <2>1. ASSUME NEW u \in Tasks, RowMovesOn(u), d = DepOf[u]
        PROVE  \A t \in Tasks : DepOf[t] = d => task[t].pc \in {"idle", "done"}
    BY <2>1 DEF RowMovesOn, CalmInv, Distinct, At
  <2>2. CASE CancelRow(d) \/ RowAges(d)
    BY <2>2 DEF CancelRow, RowAges, Unprotected
  <2>3. CASE DeleteRow(d)
    BY <2>3 DEF DeleteRow
  <2>. QED
    BY <2>1, <2>2, <2>3
<1>3. RowsProtected'
  <2>1. \A t \in Tasks : Covered(t) => Covered(t)'
    BY <1>1 DEF Covered, Slot
  <2>. QED
    BY <1>1, <1>2, <2>1 DEF CalmInv, RowsProtected
<1>4. Distinct' /\ KeyOfOwner' /\ OwnerOfKey' /\ NoRecovery' /\ ThreadOfBuilder'
  BY <1>1 DEF CalmInv, Distinct, KeyOfOwner, OwnerOfKey, NoRecovery, ThreadOfBuilder, At, MyKey, Slot
<1>5. NoStaleBeat'
  BY <1>1 DEF CalmInv, NoStaleBeat
<1>. QED
  BY <1>3, <1>4, <1>5 DEF CalmInv

LEMMA CalmUnchanged ==
  ASSUME CalmInv, UNCHANGED <<key, hb, task, beat, cancelled, old, deleted>>
  PROVE  CalmInv'
<1>1. \A t \in Tasks : Covered(t) => Covered(t)'
  BY DEF Covered, Slot
<1>. QED
  BY <1>1 DEF CalmInv, Distinct, KeyOfOwner, OwnerOfKey, NoStaleBeat, NoRecovery, RowsProtected,
     ThreadOfBuilder, At, MyKey, Slot

LEMMA CalmStep ==
  ASSUME TypeOK, SawOwner, CalmInv, Next, ~disturbed'
  PROVE  CalmInv'
<1>1. ASSUME NEW t \in Tasks, Work(t) PROVE CalmInv'
  <2>1. ~(Delete(t) \/ DeleteHb(t) \/ AddAgain(t) \/ LocklessEnds(t))
    BY DEF Delete, DeleteHb, AddAgain, LocklessEnds, At, CalmInv, NoRecovery
  <2>. QED
    BY <1>1, <2>1, CalmScan, CalmInspect, CalmFirstBeat, CalmEnd, CalmUnlock, CalmUnlockHb DEF Work
<1>2. ASSUME NEW t \in Tasks, GiveUp(t) PROVE CalmInv'
  <2>1. /\ task[t].pc = "scan" /\ task'[t].pc = "done"
        /\ \A u \in Tasks \ {t} : task'[u] = task[u]
        /\ UNCHANGED <<key, hb, beat, cancelled, old, deleted>>
    BY <1>2, GotoMoves DEF GiveUp, At
  <2>2. KeyOfOwner' /\ OwnerOfKey' /\ NoStaleBeat'
    BY <2>1, MoveOfNonOwner DEF Owning
  <2>3. Distinct' /\ NoRecovery' /\ RowsProtected' /\ ThreadOfBuilder'
    BY <2>1, RestOfNonOwner DEF Owning
  <2>. QED
    BY <2>2, <2>3 DEF CalmInv
<1>3. ASSUME NEW t \in Tasks, Crash(t) \/ BeginLockless(t) \/ Reconnect(t) PROVE CalmInv'
  <2>1. Reconnect(t)
    BY <1>3 DEF Crash, BeginLockless
  <2>2. UNCHANGED <<key, hb, task, beat, cancelled, old, deleted>>
    BY <2>1 DEF Reconnect
  <2>. QED
    BY <2>2, CalmUnchanged
<1>4. ASSUME NEW t \in Tasks, RowMovesOn(t) PROVE CalmInv'
  BY <1>4, CalmRow, ConstantsAssumption
<1>5. ASSUME NEW k \in Slots, HeartbeatAges(k) \/ KeyExpires(k) PROVE CalmInv'
  BY <1>5 DEF HeartbeatAges, KeyExpires
<1>. QED
  BY <1>1, <1>2, <1>3, <1>4, <1>5, CalmBegin, CalmThread, CalmRow DEF Next

LEMMA InvStep == Inv /\ [Next]_vars => Inv'
<1>. SUFFICES ASSUME Inv, [Next]_vars PROVE Inv'
  OBVIOUS
<1>1. TypeOK' /\ SawOwner'
  BY TypeStep, SawOwnerStep DEF Inv
<1>2. ASSUME ~disturbed' PROVE CalmInv'
  <2>1. ~disturbed
    BY <1>2 DEF Inv, TypeOK, Next, Work, Thread, vars, Begin, Scan, Inspect, Delete, DeleteHb, AddAgain,
       GiveUp, FirstBeat, BeatCheck, BeatSet, BeatAgain, BeatRefresh, BuildEnds, Release, Unlock,
       UnlockHb, RowMovesOn, HeartbeatAges, KeyExpires, Crash, CancelRow, RowAges, DeleteRow, Blip,
       BeginLockless, LocklessEnds, BeatBack, Reconnect
  <2>2. CASE Next
    BY <1>2, <2>1, <2>2, CalmStep DEF Inv
  <2>3. CASE UNCHANGED vars
    <3>1. CalmInv
      BY <2>1 DEF Inv
    <3>. QED
      BY <2>3, <3>1, CalmUnchanged DEF vars
  <2>. QED
    BY <2>2, <2>3
<1>. QED
  BY <1>1, <1>2 DEF Inv

\* No recovery and no late write of a heartbeat thread gives a slot to two builders
\* before one of the events that `disturbed` records.
THEOREM ExclusiveUntilThen == Spec => []ExclusiveUntilDisturbed
<1>1. Inv => ExclusiveUntilDisturbed
  BY CalmImpliesExclusion DEF Inv, ExclusiveUntilDisturbed
<1>. QED
  BY <1>1, InvInit, InvStep, PTL DEF Spec

=============================================================================
