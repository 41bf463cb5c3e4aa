--------------------------- MODULE FleetBuildLock ---------------------------
(***************************************************************************)
(* fleet_build_lock(): the build slots that all workers of the fleet share *)
(* through the cache (Redis).  A slot is a key that holds the id of the    *)
(* deployment that owns it; beside it lies a heartbeat the owner's thread  *)
(* refreshes.  A worker that finds every slot taken recovers one whose     *)
(* owner looks dead.  Each cache call is one atomic step, nothing between  *)
(* two of them is.                                                         *)
(*                                                                         *)
(* The cache is FallbackRedisCache: a call that fails in Redis, and those  *)
(* the same thread makes after it until it reconnects, are answered from   *)
(* the memory of the worker's own process, which excludes nobody.          *)
(*                                                                         *)
(* Time is abstract: a heartbeat or a key grows old only while no thread   *)
(* refreshes it (a live thread beats every 15 s, the windows are 600 s and *)
(* 3600 s), and a row may be older than the window at any time.            *)
(***************************************************************************)
EXTENDS Integers

CONSTANTS
  Deps,      \* deployments
  Tasks,     \* tasks that want to build
  DepOf,     \* the deployment each task builds (two tasks of one: a duplicate)
  NSlots,    \* build slots
  Faults     \* what may happen to them in this instance: "crash", "cancel", "old",
             \* "delete", "outage", "config", "slow", "expire", "row"

None == "none"

ASSUME ConstantsAssumption ==
  /\ DepOf \in [Tasks -> Deps] /\ None \notin Deps
  /\ NSlots \in Nat \ {0}

VARIABLES
  key,        \* key[k]: the deployment that owns slot k, or None
  hb,         \* hb[k]: whose heartbeat lies at slot k and whether it is fresh
  task,       \* task[t]: where t is, the slot it looks at or holds, the owner it saw
  beat,       \* beat[t]: the heartbeat thread of t
  cancelled,  \* rows whose status is not one a slot owner may have
  old,        \* rows not updated within the stale window
  deleted,    \* rows that do not exist any more
  local,      \* tasks whose cache calls are answered from their own process (_degraded)
  disturbed   \* history: something that can break the exclusion happened

vars == <<key, hb, task, beat, cancelled, old, deleted, local, disturbed>>

Slots == 1..NSlots
NoBeat == [owner |-> None, fresh |-> FALSE]

PCs == {"idle", "scan", "inspect", "delete", "delete_hb", "add_again", "added", "build",
        "release", "unlock", "unlock_hb", "lockless", "done", "dead"}
Holding == {"added", "build"}

Init ==
  /\ key = [k \in Slots |-> None]
  /\ hb = [k \in Slots |-> NoBeat]
  /\ task = [t \in Tasks |-> [pc |-> "idle", slot |-> 1, saw |-> None]]
  /\ beat = [t \in Tasks |-> "off"]
  /\ cancelled = {} /\ old = {} /\ deleted = {} /\ local = {}
  /\ disturbed = FALSE

At(t, pc) == task[t].pc = pc
Slot(t)   == task[t].slot
Goto(t, pc) == task' = [task EXCEPT ![t].pc = pc]
\* Faulty: one slot too far.
NextSlotBeyond(t) == task' = [task EXCEPT ![t] =
                       [pc |-> "scan", slot |-> IF @.slot > NSlots THEN 1 ELSE @.slot + 1, saw |-> None]]

\* The next slot of the scan; after the last one the worker sleeps and starts over.
NextSlot(t) == task' = [task EXCEPT ![t] =
                 [pc |-> "scan", slot |-> IF @.slot = NSlots THEN 1 ELSE @.slot + 1, saw |-> None]]
MyKey(t) == key[Slot(t)] = DepOf[t]

\* A cache call of t reaches Redis, or fails; a task that is over makes no more.
Reaches(t)  == t \notin local
Fails(t)    == t \in local \/ "outage" \in Faults
Answered(t) == Reaches(t) /\ UNCHANGED local
Lost(t)     == Fails(t) /\ local' = local \cup {t}
Over(t)     == local' = local \ {t}

---------------------------------------------------------------------------
(* A worker takes a slot *)

\* A task of a deployment that another task is already building is a duplicate; the
\* row of another may be cancelled or overaged before it starts, and its worker may
\* have lost the cache already.
Begin(t) ==
  /\ At(t, "idle")
  /\ Answered(t) \/ Lost(t)
  /\ Goto(t, "scan")
  /\ disturbed' = \/ disturbed
                  \/ \E u \in Tasks \ {t} : DepOf[u] = DepOf[t] /\ ~At(u, "idle")
                  \/ DepOf[t] \in cancelled \cup old \cup deleted
  /\ UNCHANGED <<key, hb, beat, cancelled, old, deleted>>

\* The platform's configuration cannot be loaded (or the lock is switched off): the
\* build runs without a slot.
BeginLockless(t) ==
  /\ "config" \in Faults /\ At(t, "idle")
  /\ Goto(t, "lockless") /\ disturbed' = TRUE
  /\ UNCHANGED <<key, hb, beat, cancelled, old, deleted, local>>

\* cache.add(): takes a free slot; a slot that carries the own id is taken again.
\* (The code reads the owner in a second call; one that vanished meanwhile only
\* makes it look at the next slot.)  A round of the slots begins only while the cache
\* is not known to be degraded, but an add that fails then, or in the middle of the
\* round, takes the slot in the memory of the process - unless an earlier build of
\* the process has left its own id there.
Scan(t) ==
  /\ At(t, "scan")
  /\ Slot(t) = 1 => t \notin local
  /\ \/ /\ Answered(t) /\ UNCHANGED disturbed
        /\ IF key[Slot(t)] \in {None, DepOf[t]}
             THEN key' = [key EXCEPT ![Slot(t)] = DepOf[t]] /\ Goto(t, "added")
             ELSE /\ task' = [task EXCEPT ![t].pc = "inspect", ![t].saw = key[Slot(t)]]
                  /\ UNCHANGED key
     \/ Lost(t) /\ Goto(t, "added") /\ disturbed' = TRUE /\ UNCHANGED key
     \/ Lost(t) /\ NextSlot(t) /\ UNCHANGED <<key, disturbed>>
  /\ UNCHANGED <<hb, beat, cancelled, old, deleted>>

\* Faulty: the status of the row is looked at before the heartbeat.
StaleByStatus(owner, k) ==
  owner \in cancelled \cup deleted \/ (~(hb[k].owner = owner /\ hb[k].fresh) /\ (hb[k].owner = owner \/ owner \in old))

\* _fleet_lock_owner_is_stale(): unless the row is gone, a fresh heartbeat of the
\* owner comes first.
Stale(owner, k) ==
  \/ owner \in deleted
  \/ /\ ~(hb[k].owner = owner /\ hb[k].fresh)
     /\ owner \in cancelled \/ hb[k].owner = owner \/ owner \in old

\* What is left to judge by when the heartbeat cannot be read.
StaleUnseen(owner) == owner \in deleted \cup cancelled \cup old

Recover(t) == task' = [task EXCEPT ![t] = [@ EXCEPT !.pc = "delete", !.saw = None]]

\* The key is not read again: the owner may have given the slot back meanwhile.
Inspect(t) ==
  /\ At(t, "inspect")
  /\ LET owner == task[t].saw
         stale == Stale(owner, Slot(t))
     IN \/ /\ Answered(t) /\ stale
           /\ Recover(t) /\ disturbed' = (disturbed \/ key[Slot(t)] # owner)
        \/ /\ Lost(t) /\ StaleUnseen(owner)
           /\ Recover(t) /\ disturbed' = (disturbed \/ key[Slot(t)] # owner \/ ~stale)
        \/ /\ (Answered(t) /\ ~stale) \/ (Lost(t) /\ ~StaleUnseen(owner))
           /\ NextSlot(t) /\ UNCHANGED disturbed
  /\ UNCHANGED <<key, hb, beat, cancelled, old, deleted>>

\* Recovery deletes whatever is in the slot by now, and its heartbeat ...
Delete(t) ==
  /\ At(t, "delete")
  /\ \/ Answered(t) /\ key' = [key EXCEPT ![Slot(t)] = None]
     \/ Lost(t) /\ UNCHANGED key
  /\ Goto(t, "delete_hb")
  /\ UNCHANGED <<hb, beat, cancelled, old, deleted, disturbed>>

DeleteHb(t) ==
  /\ At(t, "delete_hb")
  /\ \/ Answered(t) /\ hb' = [hb EXCEPT ![Slot(t)] = NoBeat]
     \/ Lost(t) /\ UNCHANGED hb
  /\ Goto(t, "add_again")
  /\ UNCHANGED <<key, beat, cancelled, old, deleted, disturbed>>

\* ... and adds itself, unless somebody was faster.
AddAgain(t) ==
  /\ At(t, "add_again")
  /\ \/ /\ Answered(t) /\ UNCHANGED disturbed
        /\ IF key[Slot(t)] = None
             THEN key' = [key EXCEPT ![Slot(t)] = DepOf[t]] /\ Goto(t, "added")
             ELSE NextSlot(t) /\ UNCHANGED key
     \/ Lost(t) /\ Goto(t, "added") /\ disturbed' = TRUE /\ UNCHANGED key
     \/ Lost(t) /\ NextSlot(t) /\ UNCHANGED <<key, disturbed>>
  /\ UNCHANGED <<hb, beat, cancelled, old, deleted>>

\* max_wait is over: looked at before each round of the slots.
GiveUp(t) ==
  /\ At(t, "scan") /\ Slot(t) = 1
  /\ Goto(t, "done") /\ Over(t)
  /\ UNCHANGED <<key, hb, beat, cancelled, old, deleted, disturbed>>

\* The first heartbeat is written after the slot is taken, then the thread starts.
FirstBeat(t) ==
  /\ At(t, "added")
  /\ \/ Answered(t) /\ hb' = [hb EXCEPT ![Slot(t)] = [owner |-> DepOf[t], fresh |-> TRUE]]
     \/ Lost(t) /\ UNCHANGED hb
  /\ Goto(t, "build")
  /\ beat' = [beat EXCEPT ![t] = "on"]
  /\ UNCHANGED <<key, cancelled, old, deleted, disturbed>>

---------------------------------------------------------------------------
(* The heartbeat thread: _refresh_heartbeat() *)

\* The thread ends as soon as the slot is not its own any more.
BeatCheck(t) ==
  /\ beat[t] = "on" /\ At(t, "build")
  /\ beat' = [beat EXCEPT ![t] = IF MyKey(t) THEN "set" ELSE "off"]
  /\ UNCHANGED <<key, hb, task, cancelled, old, deleted, local, disturbed>>

BeatSet(t) ==
  /\ beat[t] = "set"
  /\ hb' = [hb EXCEPT ![Slot(t)] = [owner |-> DepOf[t], fresh |-> TRUE]]
  /\ beat' = [beat EXCEPT ![t] = "again"]
  /\ UNCHANGED <<key, task, cancelled, old, deleted, local, disturbed>>

BeatAgain(t) ==
  /\ beat[t] = "again"
  /\ beat' = [beat EXCEPT ![t] = IF MyKey(t) THEN "refresh"
                                   ELSE IF At(t, "build") THEN "on" ELSE "off"]
  /\ UNCHANGED <<key, hb, task, cancelled, old, deleted, local, disturbed>>

\* Writes the slot itself, by the check made one call earlier.
BeatRefresh(t) ==
  /\ beat[t] = "refresh"
  /\ key' = [key EXCEPT ![Slot(t)] = DepOf[t]]
  /\ beat' = [beat EXCEPT ![t] = IF At(t, "build") THEN "on" ELSE "off"]
  /\ UNCHANGED <<hb, task, cancelled, old, deleted, local, disturbed>>

\* The thread has a connection of its own.  When a call of it fails it reads no owner,
\* and ends for good - or goes on in the memory of the process, if its own id is there:
\* put there by the very refresh that failed, or by the task when it took the slot.
Blip(t) ==
  /\ "outage" \in Faults /\ beat[t] \notin {"off", "local"}
  /\ \E b \in {"off", "local"} :
       /\ b = "local" => beat[t] = "refresh" \/ ~MyKey(t)
       /\ beat' = [beat EXCEPT ![t] = b]
  /\ UNCHANGED <<key, hb, task, cancelled, old, deleted, local, disturbed>>

\* It reconnects, a minute or more later.
BeatBack(t) ==
  /\ beat[t] = "local" /\ At(t, "build")
  /\ beat' = [beat EXCEPT ![t] = "on"]
  /\ UNCHANGED <<key, hb, task, cancelled, old, deleted, local, disturbed>>

---------------------------------------------------------------------------
(* A worker gives the slot back *)

\* The worker's own connection is tried again by a call at least a minute after the
\* failure: while it builds, not while it waits (it makes no call then).
Reconnect(t) ==
  /\ t \in local /\ At(t, "build")
  /\ local' = local \ {t}
  /\ UNCHANGED <<key, hb, task, beat, cancelled, old, deleted, disturbed>>

\* The build ends, well or not; join(timeout=1) waits for the thread, and leaves
\* one that hangs in a cache call for longer behind ("slow").
BuildEnds(t) ==
  /\ At(t, "build")
  /\ Goto(t, "release")
  /\ IF beat[t] \in {"on", "off", "local"}
       THEN beat' = [beat EXCEPT ![t] = "off"] /\ UNCHANGED disturbed
       ELSE "slow" \in Faults /\ disturbed' = TRUE /\ UNCHANGED beat
  /\ UNCHANGED <<key, hb, cancelled, old, deleted, local>>

LocklessEnds(t) ==
  /\ At(t, "lockless") /\ Goto(t, "done")
  /\ UNCHANGED <<key, hb, beat, cancelled, old, deleted, local, disturbed>>

\* A slot whose owner cannot be read is left behind.
Release(t) ==
  /\ At(t, "release")
  /\ \/ Answered(t) /\ Goto(t, IF MyKey(t) THEN "unlock" ELSE "done") /\ UNCHANGED disturbed
     \/ Fails(t) /\ Over(t) /\ Goto(t, "done") /\ disturbed' = (disturbed \/ MyKey(t))
  /\ UNCHANGED <<key, hb, beat, cancelled, old, deleted>>

Unlock(t) ==
  /\ At(t, "unlock")
  /\ \/ Answered(t) /\ key' = [key EXCEPT ![Slot(t)] = None] /\ UNCHANGED disturbed
     \/ Lost(t) /\ disturbed' = TRUE /\ UNCHANGED key
  /\ Goto(t, "unlock_hb")
  /\ UNCHANGED <<hb, beat, cancelled, old, deleted>>

\* ... whose heartbeat it may be by now.
UnlockHb(t) ==
  /\ At(t, "unlock_hb")
  /\ \/ /\ Reaches(t) /\ hb' = [hb EXCEPT ![Slot(t)] = NoBeat]
        /\ disturbed' = (disturbed \/ hb[Slot(t)].owner \notin {DepOf[t], None})
     \/ Fails(t) /\ UNCHANGED <<hb, disturbed>>
  /\ Goto(t, "done") /\ Over(t)
  /\ UNCHANGED <<key, beat, cancelled, old, deleted>>

\* The deployment goes on without the lock: its row reaches a status no slot
\* owner may have (STAGED, ACTIVE, FAILED ...).
RowMovesOn(t) ==
  /\ "row" \in Faults /\ At(t, "done") /\ DepOf[t] \notin cancelled \cup deleted
  /\ cancelled' = cancelled \cup {DepOf[t]}
  /\ UNCHANGED <<key, hb, task, beat, old, deleted, local, disturbed>>

---------------------------------------------------------------------------
(* Time and mishaps *)

\* A worker's calls about one slot follow each other at once, compared with the
\* minutes after which a heartbeat is stale and the hour after which a key expires.
InPassing(k) ==
  \E t \in Tasks : /\ Slot(t) = k
                   /\ task[t].pc \in {"inspect", "delete", "delete_hb", "add_again", "added",
                                     "release", "unlock", "unlock_hb"}

Refreshed(k, d) == \E t \in Tasks : beat[t] \notin {"off", "local"} /\ DepOf[t] = d /\ Slot(t) = k

HeartbeatAges(k) ==
  /\ hb[k].fresh /\ ~Refreshed(k, hb[k].owner) /\ ~InPassing(k)
  /\ hb' = [hb EXCEPT ![k].fresh = FALSE]
  /\ disturbed' = TRUE
  /\ UNCHANGED <<key, task, beat, cancelled, old, deleted, local>>

\* Faulty: the keys are added without a timeout.
KeyNeverExpires(k) == FALSE /\ UNCHANGED vars

KeyExpires(k) ==
  /\ "expire" \in Faults
  /\ key[k] # None /\ ~Refreshed(k, key[k]) /\ ~InPassing(k)
  /\ key' = [key EXCEPT ![k] = None]
  /\ disturbed' = TRUE
  /\ UNCHANGED <<hb, task, beat, cancelled, old, deleted, local>>

\* The worker process dies, its thread with it.
Crash(t) ==
  /\ "crash" \in Faults /\ task[t].pc \notin {"idle", "done", "dead"}
  /\ Goto(t, "dead")
  /\ beat' = [beat EXCEPT ![t] = "off"]
  /\ disturbed' = TRUE
  /\ Over(t)
  /\ UNCHANGED <<key, hb, cancelled, old, deleted>>

\* From the first heartbeat that reaches Redis to the unlock a fresh one lies beside the
\* slot.
Covered(t) == /\ task[t].pc \in {"build", "release", "unlock"}
              /\ hb[Slot(t)] = [owner |-> DepOf[t], fresh |-> TRUE]
Unprotected(d) ==
  \E t \in Tasks : DepOf[t] = d /\ task[t].pc \notin {"idle", "unlock_hb", "done"} /\ ~Covered(t)

\* The row is cancelled, or fails, under the build.
CancelRow(d) ==
  /\ "cancel" \in Faults /\ d \notin cancelled \cup deleted
  /\ cancelled' = cancelled \cup {d}
  /\ disturbed' = (disturbed \/ Unprotected(d))
  /\ UNCHANGED <<key, hb, task, beat, old, deleted, local>>

\* The row waited for longer than the stale window.
RowAges(d) ==
  /\ "old" \in Faults /\ d \notin old \cup deleted
  /\ old' = old \cup {d}
  /\ disturbed' = (disturbed \/ Unprotected(d))
  /\ UNCHANGED <<key, hb, task, beat, cancelled, deleted, local>>

\* The row is deleted; a worker that builds it does not notice.
DeleteRow(d) ==
  /\ "delete" \in Faults /\ d \notin deleted
  /\ deleted' = deleted \cup {d} /\ cancelled' = cancelled \ {d} /\ old' = old \ {d}
  /\ disturbed' = (disturbed \/ \E t \in Tasks : DepOf[t] = d /\ task[t].pc \notin {"idle", "done"})
  /\ UNCHANGED <<key, hb, task, beat, local>>

---------------------------------------------------------------------------
Work(t) ==
  \/ Scan(t) \/ Inspect(t) \/ Delete(t) \/ DeleteHb(t) \/ AddAgain(t) \/ FirstBeat(t)
  \/ BuildEnds(t) \/ LocklessEnds(t) \/ Release(t) \/ Unlock(t) \/ UnlockHb(t)
Thread(t) == BeatCheck(t) \/ BeatSet(t) \/ BeatAgain(t) \/ BeatRefresh(t)

Next ==
  \/ \E t \in Tasks : \/ Begin(t) \/ BeginLockless(t) \/ Work(t) \/ GiveUp(t) \/ RowMovesOn(t)
                      \/ Thread(t) \/ Blip(t) \/ BeatBack(t) \/ Reconnect(t) \/ Crash(t)
  \/ \E k \in Slots : HeartbeatAges(k) \/ KeyExpires(k)
  \/ \E d \in Deps : CancelRow(d) \/ RowAges(d) \/ DeleteRow(d)

Spec == Init /\ [][Next]_vars

(* Builds end (the task has a hard time limit), the waiting loop has a       *)
(* deadline, and time passes.                                               *)
Ends(t)       == BuildEnds(t) \/ GiveUp(t)
TimePasses(k) == HeartbeatAges(k) \/ KeyExpires(k)
Fairness ==
  /\ \A t \in Tasks : WF_vars(Work(t)) /\ SF_vars(Ends(t)) /\ WF_vars(Thread(t))
  /\ \A k \in Slots : WF_vars(TimePasses(k))
FairSpec == Spec /\ Fairness

---------------------------------------------------------------------------
(* Properties *)

TypeOK ==
  /\ key \in [Slots -> Deps \cup {None}]
  /\ hb \in [Slots -> [owner : Deps \cup {None}, fresh : BOOLEAN]]
  /\ task \in [Tasks -> [pc : PCs, slot : Slots, saw : Deps \cup {None}]]
  /\ beat \in [Tasks -> {"off", "on", "set", "again", "refresh", "local"}]
  /\ cancelled \subseteq Deps /\ old \subseteq Deps /\ deleted \subseteq Deps /\ local \subseteq Tasks
  /\ disturbed \in BOOLEAN

\* "double-holding one slot runs two docker builds on the same daemon/tag": no
\* slot has two builders, and nobody builds without one.
MutualExclusion ==
  /\ \A t, u \in Tasks :
       t # u /\ task[t].pc \in Holding /\ task[u].pc \in Holding => Slot(t) # Slot(u)
  /\ \A t \in Tasks : ~At(t, "lockless")

\* Only these break it: a worker that died; a heartbeat or key that ran out; a second
\* task of the same deployment; a row that is deleted under its task, or cancelled or
\* overaged while no fresh heartbeat lies beside its slot; a thread that hangs past its
\* join; a waiter that judges an owner which gave the slot back after the waiter's look;
\* an unlock that deletes the next owner's heartbeat; a build that could not load the
\* configuration; and of a cache outage these: an add that it sends to the memory of
\* the process, a heartbeat it hides from a waiter, a slot it leaves behind.  Short of
\* those, neither the recovery nor a thread's late write gives a slot to two - in
\* particular not when the row of a build that runs is cancelled, nor when an outage
\* ends its thread, swallows the first heartbeat or the deletion of the last.
ExclusiveUntilDisturbed == ~disturbed => MutualExclusion

\* A slot whose deployment nobody builds any more is free again, or owned by one that
\* somebody builds, in the end: whatever died, hung, failed or was written late.
Ghost(k) ==
  /\ key[k] # None
  /\ \A t \in Tasks : DepOf[t] = key[k] => task[t].pc \in {"idle", "done", "dead"}
GhostSlotsFreed == \A k \in Slots : Ghost(k) ~> ~Ghost(k)

=============================================================================
