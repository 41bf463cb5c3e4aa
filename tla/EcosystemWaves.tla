-------------------------- MODULE EcosystemWaves --------------------------
(***************************************************************************)
(* The rollout of an ecosystem plan: one deployment row per service, put   *)
(* into waves so that a service comes after the services it depends on.    *)
(* The wave engine is a chain of Celery tasks, each of which sends the     *)
(* next one; the rows are built by smart_deploy_task workers, dispatched   *)
(* by the engine or, when the platform is full, by deferred tasks that     *)
(* send themselves again.  Beat tasks clear plans and rows nobody owns.    *)
(*                                                                         *)
(* The engine decides on statuses it read earlier and writes back whole    *)
(* batches; none of these tasks holds a lock.                              *)
(***************************************************************************)
EXTENDS Integers, Sequences, FiniteSets

CONSTANTS
  Services,       \* the services of the plan
  Waves,          \* the waves: a sequence of sequences of services
  Deps,           \* Deps[s]: the services s declares it depends on
  MaxConcurrent,  \* the platform's limit of concurrent builds
  MaxWaits,       \* rechecks of a wave before its deadline has surely passed
  MaxPending,     \* bound on the messages of one kind waiting for one row
  MaxMishaps,     \* bound on the mishaps of a behaviour
  Faults          \* the mishaps this instance allows

ASSUME BoundsAssumption ==
  /\ MaxConcurrent \in Nat \ {0} /\ MaxWaits \in Nat \ {0}
  /\ MaxPending \in Nat \ {0} /\ MaxMishaps \in Nat
ASSUME PlanAssumption ==
  /\ Waves \in Seq(Seq(Services)) /\ Waves # <<>>
  /\ Deps \in [Services -> SUBSET Services]

VARIABLES
  row,        \* row[s]: status of the deployment row of s
  work,       \* work[s]: what a worker is doing for this row
  smart,      \* smart[s]: smart_deploy_task messages waiting for the row
  deferred,   \* deferred[s]: ecosystem_deferred_build_task messages waiting
  retried,    \* rows whose ecosystem_retry_count is 1
  pushed,     \* services that got a newer deployment meanwhile
  plan,       \* status of the EcosystemPlan
  failFast,   \* the plan's cancel_others_on_failure
  engine,     \* the release task: where it is and what it has read
  served,     \* history: services whose row became ACTIVE or STAGED
  mishaps     \* mishaps so far

vars == <<row, work, smart, deferred, retried, pushed, plan, failFast, engine, served, mishaps>>

\* "ACTIVE" stands for ACTIVE and STAGED, "FAILED" for the family of failures.
InProgress == {"QUEUED", "REVIEW", "BUILDING", "HEALTH_CHECK"}
Failed     == {"FAILED", "CANCELLED"}
Status     == InProgress \cup Failed \cup {"ACTIVE", "INACTIVE"}

Members(q) == {q[i] : i \in DOMAIN q}
Wave(k)    == Members(Waves[k])
Later(k)   == UNION {Wave(i) : i \in (k + 1)..Len(Waves)}
\* _build_dependency_waves() puts a service into one wave.
ASSUME WavesAssumption ==
  \A s \in Services : \E k \in DOMAIN Waves : \A j \in DOMAIN Waves : s \in Wave(j) <=> j = k
Nothing    == [s \in {} |-> "QUEUED"]

\* queued: the next task waits at the broker; the others are points of its run.
PCs == {"queued", "retry", "expire", "expire_save", "cancel", "cancel_save", "gate",
        "early", "dispatch", "final", "final_save", "done", "lost"}
\* seen: the previous wave as the task read it; batch: rows a bulk write is about
\* to change; todo: rows still to dispatch; then: what the task does in the end.
Send(k, n) == [pc |-> "queued", wave |-> k, waits |-> n, seen |-> Nothing,
               batch |-> {}, todo |-> {}, then |-> "next"]
Ended(pc)  == [Send(0, 0) EXCEPT !.pc = pc]

Init ==
  /\ row = [s \in Services |-> "QUEUED"]
  /\ work = [s \in Services |-> "none"]
  /\ smart = [s \in Services |-> 0] /\ deferred = [s \in Services |-> 0]
  /\ retried = {} /\ pushed = {} /\ served = {}
  /\ plan = "DEPLOYING" /\ failFast \in BOOLEAN
  /\ engine = Send(0, 0)
  /\ mishaps = 0

---------------------------------------------------------------------------
(* Helpers *)

Mishap(f) == f \in Faults /\ mishaps < MaxMishaps /\ mishaps' = mishaps + 1
At(pc)    == engine.pc = pc
Goto(pc)  == engine' = [engine EXCEPT !.pc = pc]
Set(S, st) == [s \in Services |-> IF s \in S THEN st ELSE row[s]]
\* One more message, up to the bound.
Add(q, s) == [q EXCEPT ![s] = IF @ < MaxPending THEN @ + 1 ELSE @]

\* _count_active_ecosystem_builds(): rows idle for long, or whose marker in
\* commit_hash the clone has overwritten, are not counted, so that any part of
\* the consuming rows may be what it finds.
CanBeFull ==
  Cardinality({s \in Services : row[s] \in {"REVIEW", "BUILDING", "HEALTH_CHECK"}})
    >= MaxConcurrent

\* The rows that depend on a row of S, directly or not.
Dependents(S) ==
  {s \in Services \ S :
     \A D \in SUBSET Services :
       (\A x \in Services \ S : Deps[x] \cap (S \cup D) # {} => x \in D) => s \in D}

---------------------------------------------------------------------------
(* ecosystem_release_wave_task *)

\* Wave 0 has no previous wave to look at.
BeginFirst ==
  /\ At("queued") /\ engine.wave = 0
  /\ Goto("gate")
  /\ UNCHANGED <<row, work, smart, deferred, retried, pushed, plan, failFast, served, mishaps>>

\* Read the statuses of the previous wave.
Check ==
  /\ At("queued") /\ engine.wave > 0
  /\ engine' = [engine EXCEPT !.pc = "retry", !.seen = [s \in Wave(engine.wave) |-> row[s]]]
  /\ UNCHANGED <<row, work, smart, deferred, retried, pushed, plan, failFast, served, mishaps>>

\* Faulty: the deadline is never looked at.
VerdictsPatient(seen, n) ==
  IF \E s \in DOMAIN seen : seen[s] \in InProgress THEN {"early"} ELSE {"cancel"}

\* Wait, expire or go on.  The deadline is set at the first check of a wave and
\* the later ones carry it.
Verdicts(seen, n) ==
  IF \E s \in DOMAIN seen : seen[s] \in InProgress
    THEN (IF n < MaxWaits THEN {"early"} ELSE {}) \cup (IF n > 0 THEN {"expire"} ELSE {})
    ELSE {"cancel"}

\* Failed rows get one more attempt, by what was read.
Retry ==
  LET again == {s \in DOMAIN engine.seen : engine.seen[s] = "FAILED" /\ s \notin retried}
      seen  == [s \in DOMAIN engine.seen |-> IF s \in again THEN "QUEUED" ELSE engine.seen[s]]
  IN /\ At("retry")
     /\ row' = Set(again, "QUEUED")
     /\ retried' = retried \cup again
     /\ smart' = [s \in Services |-> IF s \in again THEN Add(smart, s)[s] ELSE smart[s]]
     /\ \E pc \in Verdicts(seen, engine.waits) :
          engine' = [engine EXCEPT !.pc = pc, !.seen = seen]
     /\ UNCHANGED <<work, deferred, pushed, plan, failFast, served, mishaps>>

\* The deadline has passed: the rows still in progress are read again ...
Expire ==
  /\ At("expire")
  /\ engine' = [engine EXCEPT !.pc = "expire_save", !.then = "end",
                  !.batch = {s \in DOMAIN engine.seen :
                               engine.seen[s] \in InProgress /\ row[s] \in InProgress}]
  /\ UNCHANGED <<row, work, smart, deferred, retried, pushed, plan, failFast, served, mishaps>>

\* ... and cancelled by one bulk_update.
ExpireSave ==
  /\ At("expire_save")
  /\ row' = Set(engine.batch, "CANCELLED")
  /\ engine' = [engine EXCEPT !.pc = "cancel", !.batch = {}]
  /\ UNCHANGED <<work, smart, deferred, retried, pushed, plan, failFast, served, mishaps>>

\* Faulty: the wave that was to come next is skipped.
DoomedAfterNext ==
  IF engine.then = "end" THEN Later(engine.wave + 1)
  ELSE Dependents({s \in DOMAIN engine.seen : engine.seen[s] \in Failed})

\* Faulty: cancel_others_on_failure is not read.
DoomedDependents ==
  IF engine.then = "end" THEN Later(engine.wave)
  ELSE Dependents({s \in DOMAIN engine.seen : engine.seen[s] \in Failed})

\* The rows to cancel: all the later ones after a timeout or under fail-fast,
\* otherwise those that depend on a failed one.  Only QUEUED rows are.
Doomed ==
  LET failed == {s \in DOMAIN engine.seen : engine.seen[s] \in Failed}
  IN CASE engine.then = "end"      -> Later(engine.wave)
       [] engine.then # "end" /\ failFast  -> IF failed = {} THEN {} ELSE Later(engine.wave)
       [] engine.then # "end" /\ ~failFast -> Dependents(failed)

Cancel ==
  /\ At("cancel")
  /\ engine' = [engine EXCEPT !.pc = "cancel_save",
                              !.batch = {s \in Doomed : row[s] = "QUEUED"}]
  /\ UNCHANGED <<row, work, smart, deferred, retried, pushed, plan, failFast, served, mishaps>>

CancelSave ==
  /\ At("cancel_save")
  /\ row' = Set(engine.batch, "CANCELLED")
  /\ engine' = [engine EXCEPT !.batch = {},
                  !.pc = IF engine.then = "end" \/ engine.wave = Len(Waves)
                           THEN "final" ELSE "gate"]
  /\ UNCHANGED <<work, smart, deferred, retried, pushed, plan, failFast, served, mishaps>>

\* Too little memory: the task sends itself again, with a new deadline.
GateLow ==
  /\ At("gate") /\ Mishap("memory")
  /\ engine' = Send(engine.wave, 0)
  /\ UNCHANGED <<row, work, smart, deferred, retried, pushed, plan, failFast, served>>

Gate ==
  /\ At("gate")
  /\ engine' = [engine EXCEPT !.pc = "dispatch", !.seen = Nothing,
                              !.todo = Wave(engine.wave + 1)]
  /\ UNCHANGED <<row, work, smart, deferred, retried, pushed, plan, failFast, served, mishaps>>

\* _release_eligible_next_wave(): while a wave is in flight, the rows of the
\* next one whose dependencies have all succeeded.
EligibleTerminal(s) ==   \* faulty: any end of a dependency will do
  \A d \in Deps[s] : row[d] \notin InProgress /\ d \notin Later(engine.wave)
Eligible(s) == \A d \in Deps[s] : row[d] = "ACTIVE" /\ d \notin Later(engine.wave)
Early ==
  /\ At("early")
  /\ engine' = [engine EXCEPT !.pc = "dispatch", !.seen = Nothing, !.then = "recheck",
                  !.todo = IF engine.wave = Len(Waves) THEN {}
                           ELSE {s \in Wave(engine.wave + 1) : Eligible(s)}]
  /\ UNCHANGED <<row, work, smart, deferred, retried, pushed, plan, failFast, served, mishaps>>

\* The rows still to dispatch are treated in the order of their wave.
InTurn(s) ==
  LET q == Waves[engine.wave + 1]
  IN \E i \in DOMAIN q : q[i] = s /\ \A j \in 1..(i - 1) : q[j] \notin engine.todo

\* _queue_wave(), row by row: nothing if it is not QUEUED; a deferred task if
\* the platform is full; else REVIEW and a message, in one conditional update.
Dispatch ==
  \E s \in engine.todo :
    /\ At("dispatch") /\ InTurn(s)
    /\ engine' = [engine EXCEPT !.todo = @ \ {s}]
    /\ \/ row[s] # "QUEUED" /\ UNCHANGED <<row, smart, deferred>>
       \/ /\ row[s] = "QUEUED" /\ CanBeFull
          /\ deferred' = Add(deferred, s)
          /\ UNCHANGED <<row, smart>>
       \/ /\ row[s] = "QUEUED"
          /\ row' = Set({s}, "REVIEW")
          /\ smart' = Add(smart, s)
          /\ UNCHANGED deferred
    /\ UNCHANGED <<work, retried, pushed, plan, failFast, served, mishaps>>

\* Too little memory for the builds of one call: all its rows are deferred. The
\* early release makes a call for each row, the others one for the whole wave.
DispatchLow ==
  /\ At("dispatch") /\ engine.todo # {} /\ Mishap("memory")
  /\ \E S \in SUBSET engine.todo :
       /\ IF engine.then = "recheck" THEN \E s \in engine.todo : InTurn(s) /\ S = {s}
                                     ELSE S = Wave(engine.wave + 1)
       /\ deferred' = [s \in Services |-> IF s \in S /\ row[s] = "QUEUED"
                                            THEN Add(deferred, s)[s] ELSE deferred[s]]
       /\ engine' = [engine EXCEPT !.todo = @ \ S]
  /\ UNCHANGED <<row, work, smart, retried, pushed, plan, failFast, served>>

\* The task sends the next one.
Dispatched ==
  /\ At("dispatch") /\ engine.todo = {}
  /\ engine' = IF engine.then = "recheck" THEN Send(engine.wave, engine.waits + 1)
                                          ELSE Send(engine.wave + 1, 0)
  /\ UNCHANGED <<row, work, smart, deferred, retried, pushed, plan, failFast, served, mishaps>>

\* Faulty: rows still in progress count as good.
FinalizeEarly ==
  /\ At("final")
  /\ engine' = [engine EXCEPT !.pc = "final_save", !.seen = row]
  /\ UNCHANGED <<row, work, smart, deferred, retried, pushed, plan, failFast, served, mishaps>>

\* _finalize_ecosystem_plan(): nothing while a row is in progress; this was the
\* last task of the chain all the same.
Finalize ==
  /\ At("final")
  /\ engine' = IF \E s \in Services : row[s] \in InProgress THEN Ended("done")
               ELSE [engine EXCEPT !.pc = "final_save", !.seen = row]
  /\ UNCHANGED <<row, work, smart, deferred, retried, pushed, plan, failFast, served, mishaps>>

FinalizeSave ==
  /\ At("final_save")
  /\ plan' = IF \E s \in Services : engine.seen[s] \in Failed THEN "FAILED" ELSE "COMPLETED"
  /\ engine' = Ended("done")
  /\ UNCHANGED <<row, work, smart, deferred, retried, pushed, failFast, served, mishaps>>

---------------------------------------------------------------------------
(* ecosystem_deferred_build_task *)

\* No longer QUEUED: the task ends.  While it finds the platform full and the
\* plan deploying it sends itself again, which changes nothing.
DeferredSkip(s) ==
  /\ deferred[s] > 0 /\ row[s] # "QUEUED"
  /\ deferred' = [deferred EXCEPT ![s] = @ - 1]
  /\ UNCHANGED <<row, work, smart, retried, pushed, plan, failFast, engine, served, mishaps>>

\* Full, and the plan is over: nobody will ever pick this row up.
DeferredCancel(s) ==
  /\ deferred[s] > 0 /\ row[s] = "QUEUED" /\ CanBeFull /\ plan # "DEPLOYING"
  /\ row' = Set({s}, "CANCELLED")
  /\ deferred' = [deferred EXCEPT ![s] = @ - 1]
  /\ UNCHANGED <<work, smart, retried, pushed, plan, failFast, engine, served, mishaps>>

\* A slot: the row stays QUEUED and its message is sent.
DeferredDispatch(s) ==
  /\ deferred[s] > 0 /\ row[s] = "QUEUED"
  /\ smart' = Add(smart, s)
  /\ deferred' = [deferred EXCEPT ![s] = @ - 1]
  /\ UNCHANGED <<row, work, retried, pushed, plan, failFast, engine, served, mishaps>>

---------------------------------------------------------------------------
(* The workers: smart_deploy_task, as far as the engine can tell *)

\* A message of a CANCELLED row is dropped; a newer row supersedes this one;
\* otherwise it is built, whatever its status.
Take(s) ==
  /\ smart[s] > 0 /\ work[s] = "none"
  /\ smart' = [smart EXCEPT ![s] = @ - 1]
  /\ \/ row[s] = "CANCELLED" /\ UNCHANGED <<row, work>>
     \/ row[s] # "CANCELLED" /\ s \in pushed /\ row' = Set({s}, "INACTIVE") /\ UNCHANGED work
     \/ /\ row[s] # "CANCELLED"
        /\ row' = Set({s}, "BUILDING")
        /\ work' = [work EXCEPT ![s] = "build"]
  /\ UNCHANGED <<deferred, retried, pushed, plan, failFast, engine, served, mishaps>>

\* The built image is handed over unless the row is CANCELLED by then.
HandOver(s) ==
  /\ work[s] = "build"
  /\ IF row[s] = "CANCELLED"
       THEN work' = [work EXCEPT ![s] = "none"] /\ UNCHANGED row
       ELSE work' = [work EXCEPT ![s] = "deploy"] /\ row' = Set({s}, "HEALTH_CHECK")
  /\ UNCHANGED <<smart, deferred, retried, pushed, plan, failFast, engine, served, mishaps>>

\* Healthy: ACTIVE or STAGED is saved whatever the row says.
Succeed(s) ==
  /\ work[s] = "deploy"
  /\ row' = Set({s}, "ACTIVE")
  /\ work' = [work EXCEPT ![s] = "none"]
  /\ served' = served \cup {s}
  /\ UNCHANGED <<smart, deferred, retried, pushed, plan, failFast, engine, mishaps>>

Fail(s) ==
  /\ work[s] # "none"
  /\ row' = IF row[s] = "CANCELLED" THEN row ELSE Set({s}, "FAILED")
  /\ work' = [work EXCEPT ![s] = "none"]
  /\ UNCHANGED <<smart, deferred, retried, pushed, plan, failFast, engine, served, mishaps>>

---------------------------------------------------------------------------
(* The beat tasks *)

\* Faulty: rows left behind by a finished plan are nobody's business.
SweepReview(s) ==
  /\ row[s] = "REVIEW"
  /\ row' = Set({s}, "CANCELLED")
  /\ UNCHANGED <<work, smart, deferred, retried, pushed, plan, failFast, engine, served, mishaps>>

\* recover_stalled_deployments(): rows nobody has touched for long; under a
\* deploying plan only REVIEW ones.
Sweep(s) ==
  /\ row[s] \in (IF plan = "DEPLOYING" THEN {"REVIEW"} ELSE InProgress)
  /\ row' = Set({s}, "CANCELLED")
  /\ UNCHANGED <<work, smart, deferred, retried, pushed, plan, failFast, engine, served, mishaps>>

\* recover_stale_ecosystem_plans(): no row was updated for half an hour ...
ClearPlan ==
  /\ plan = "DEPLOYING" /\ plan' = "FAILED"
  /\ UNCHANGED <<row, work, smart, deferred, retried, pushed, failFast, engine, served>>
ClearGhost ==
  /\ ClearPlan /\ engine.pc \in {"done", "lost"} /\ \A s \in Services : work[s] = "none"
  /\ UNCHANGED mishaps
\* ... which a long build does not do either: its log does not count.
ClearAlive ==
  ClearPlan /\ engine.pc \in {"queued", "done", "lost"} /\ Mishap("ghost")

---------------------------------------------------------------------------
(* Mishaps *)

\* The process that runs the release task dies, or its message is lost.
EngineDies ==
  /\ Mishap("die") /\ engine.pc \notin {"done", "lost"}
  /\ engine' = Ended("lost")
  /\ UNCHANGED <<row, work, smart, deferred, retried, pushed, plan, failFast, served>>

\* A worker dies, or a message for a row is lost.
WorkerDies(s) ==
  /\ Mishap("die")
  /\ \/ /\ work[s] # "none" /\ work' = [work EXCEPT ![s] = "none"]
        /\ UNCHANGED smart
     \/ /\ smart[s] > 0 /\ smart' = [smart EXCEPT ![s] = @ - 1]
        /\ UNCHANGED work
  /\ UNCHANGED <<row, deferred, retried, pushed, plan, failFast, engine, served>>

\* An operator cancels the row (a STAGED one, too).
UserCancel(s) ==
  /\ Mishap("cancel") /\ row[s] \in {"QUEUED", "REVIEW", "BUILDING", "ACTIVE"}
  /\ row' = Set({s}, "CANCELLED")
  /\ UNCHANGED <<work, smart, deferred, retried, pushed, plan, failFast, engine, served>>

\* The container dies after the deployment: the monitor fails the row.
Crash(s) ==
  /\ Mishap("crash") /\ row[s] = "ACTIVE"
  /\ row' = Set({s}, "FAILED")
  /\ UNCHANGED <<work, smart, deferred, retried, pushed, plan, failFast, engine, served>>

\* A push gives the service a newer row; when that is live, an ACTIVE row of
\* the plan is INACTIVE.
Push(s) ==
  /\ Mishap("push") /\ s \notin pushed
  /\ pushed' = pushed \cup {s}
  /\ UNCHANGED <<row, work, smart, deferred, retried, plan, failFast, engine, served>>
Demote(s) ==
  /\ s \in pushed /\ row[s] = "ACTIVE"
  /\ row' = Set({s}, "INACTIVE")
  /\ UNCHANGED <<work, smart, deferred, retried, pushed, plan, failFast, engine, served, mishaps>>

---------------------------------------------------------------------------
EngineStep ==
  \/ BeginFirst \/ Check \/ Retry \/ Expire \/ ExpireSave \/ Cancel \/ CancelSave
  \/ GateLow \/ Gate \/ Early \/ Dispatch \/ DispatchLow \/ Dispatched
  \/ Finalize \/ FinalizeSave
DeferredStep(s) == DeferredSkip(s) \/ DeferredCancel(s) \/ DeferredDispatch(s)
WorkerStep(s) == Take(s) \/ HandOver(s) \/ Succeed(s) \/ Fail(s)
MishapStep(s) == WorkerDies(s) \/ UserCancel(s) \/ Crash(s) \/ Push(s) \/ Demote(s)

Next ==
  \/ EngineStep \/ EngineDies \/ ClearGhost \/ ClearAlive
  \/ \E s \in Services : DeferredStep(s) \/ WorkerStep(s) \/ Sweep(s) \/ MishapStep(s)

\* The broker delivers, a task that runs goes on, and the beat runs for ever.
\* A deferred task may find the platform full every time.
Fairness ==
  /\ WF_vars(EngineStep) /\ WF_vars(ClearGhost)
  /\ \A s \in Services : WF_vars(WorkerStep(s)) /\ WF_vars(Sweep(s))

Spec == Init /\ [][Next]_vars /\ Fairness

---------------------------------------------------------------------------
(* Properties *)

TypeOK ==
  /\ row \in [Services -> Status]
  /\ work \in [Services -> {"none", "build", "deploy"}]
  /\ smart \in [Services -> 0..MaxPending] /\ deferred \in [Services -> 0..MaxPending]
  /\ retried \subseteq Services /\ pushed \subseteq Services /\ served \subseteq Services
  /\ plan \in {"DEPLOYING", "COMPLETED", "FAILED"} /\ failFast \in BOOLEAN
  /\ engine \in [pc : PCs, wave : 0..Len(Waves), waits : 0..MaxWaits,
                 seen : UNION {[S -> Status] : S \in SUBSET Services},
                 batch : SUBSET Services, todo : SUBSET Services,
                 then : {"next", "recheck", "end"}]
  /\ mishaps \in 0..MaxMishaps

\* A row is built only after every service it depends on was served once by
\* its own row, or a newer deployment of that service replaced it.
DependenciesFirst ==
  [][\A s \in Services : work[s] = "none" /\ work'[s] = "build"
       => Deps[s] \subseteq served \cup pushed]_vars

\* With cancel_others_on_failure a wave is released only when every service of
\* the earlier waves was served, whether the wave depends on it or not.
FailFastHolds ==
  [][failFast /\ engine.then = "next" /\ (\E s \in Services : row[s] = "QUEUED" /\ row'[s] = "REVIEW")
       => Services \ Later(engine.wave) \subseteq served \cup pushed]_vars

\* The plan becomes COMPLETED only when every service was served.
HonestCompletion ==
  [][plan' = "COMPLETED" /\ plan # "COMPLETED" => Services \subseteq served \cup pushed]_vars

\* The engine ends with no row left waiting for it.
NoneForgotten == At("done") => \A s \in Services : row[s] # "QUEUED"

\* Whatever dies or gets lost: in the end the plan is not deploying and no row
\* is in progress, so that the owner can start another one.
EventuallySettled ==
  <>[](plan # "DEPLOYING" /\ \A s \in Services : row[s] \notin InProgress)

=============================================================================
