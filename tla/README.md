# TLA+ models of the SMSLY hosting platform

A model-checking and proof development kept beside the platform's backend
(`src/backend`, Django + Celery + Docker). The code is the reference: every
definition is a translation of the lines `PROJECT.json` (`map`) names for it.

Contents: [inventory](#inventory), [plan](#plan),
[modules](#modules-and-their-correspondence-to-the-code),
[runs](#runs-bounds-and-what-they-show), [fairness](#fairness),
[proofs](#proofs), [what the code does differently](#where-code-and-documentation-differ),
[limits](#what-is-not-modelled).

To repeat everything: `tlc -config X.cfg M` for each row of the runs table,
`tlapm M.tla` for each module `...Proofs`.

## Inventory

The platform deploys users' services as Docker containers. Its own logic is in
the Django backend: web handlers and webhooks write rows and publish Celery
messages, workers do the long work, Celery beat starts the sweepers. What the
parts share is the database (Postgres), the broker and the cache (Redis), and
the Docker daemon. None of the three is written in one transaction with
another, and a handler or task works on a Django model instance: a copy of a
row, read at one moment and saved, often in full, at another.

| component | state it keeps | operations | interacts with |
| --- | --- | --- | --- |
| Deployment lifecycle (`deployments/models/deployment.py`, `views/deployment/`, `tasks/deploy/`, `tasks/deployment/`) | `Deployment` rows: status, container ids, `is_rollback`, Celery id | trigger, push, approve, retry, rollback, cancel, bulk cancel, promote; the deploy, resume and monitor tasks; sweep, reap, auto-review, auto-promote | broker (one message per row, late acknowledgement), Docker (green and canonical container), health webhook |
| Build pipeline (`services/pipeline/manager.py`) | status and logs of the row | analyse (pauses at REVIEW), build | called by the deploy task, takes the fleet build lock |
| Fleet build lock (`tasks/deploy/build_compose.py`, the cache `config/fallback_redis_cache.py`) | one cache key and one heartbeat per slot; per process: whether its cache calls fall back to its own memory | acquire, recover a dead owner's slot, heartbeat thread, release | all workers of all nodes through Redis; reads the owner's row |
| Local Docker adapter (`cloud/adapters/local.py`) | containers and their names | create a green, cut over, promote, roll back | called by the deploy task and by promotions |
| Green reaper, orphan sweep (`tasks/deploy/green_reaper.py`, `tasks/deploy/deletion.py`) | none | stop or remove containers by a snapshot of rows | race promotions |
| Shared Postgres (`addons/services/shared_postgres.py`, its watchdog in `addons/tasks/ha_watchdog.py`, the command `shared_postgres_ha`) | two containers, their volumes, networks and names; three cache keys of the watchdog | create, start, attach an alias, seed a standby, promote, reseed | provisioning and application starts, beat every 60 s, operators; all through Docker, by name |
| Circuit breaker (`core/circuit_breaker.py`) | state, failure count, time of last failure, under a thread lock | call, success, failure, reset | only the health page (`config/health.py`) |
| Leader election (`services/election_service.py`, `tasks/infra/tasks_election.py`) | `ClusterState`, `ElectionVote`, `HeartbeatLog` rows of each node | heartbeat, time-out, vote request, promotion, demotion | nodes exchange HTTP calls over the WireGuard mesh |
| Ecosystem plans (`tasks/ecosystem/`) | `EcosystemPlan` rows, deployments of many services in waves | scan, deploy, release wave, deferred build, roll back, sweep | creates deployments and waits for them |
| Service HA (`services/service_ha.py`) | replicas of a service | reconcile replicas, fail over to another node, escalate | every 60 s from beat |
| Per-addon HA (`addons/services/addon_ha.py`, `addons/tasks/ha_watchdog.py`) | clustered addons | detect a dead primary, promote a replica | Docker |
| Replication and failover (`services/replication_service/`) | database replicas | set up, check, fail over | remote nodes |
| Service transfer (`services/transfer_service/`) | transfer rows | copy a service to another node, sweep stale ones | two nodes |
| Auto-rollback, safe deploy, self-healing (`services/auto_rollback.py`, `safedeploy/`, `self_healing_orchestrator/`) | rows, snapshots, canaries | judge a deployment, restore an earlier one | Deployment lifecycle |
| Service deletion (`services/deletion_orchestrator.py`, `tasks/deploy/deletion.py`) | services, containers, volumes | cancel, remove, purge | Deployment lifecycle, Docker |
| Heartbeat bus, autoscaler, sleeper | metrics, replica counts, power state | scale, sleep, wake | Docker |
| Backups, platform updater, billing, domains and proxies, networking, organisations, notifications | rows and files | mostly CRUD and I/O | external services |

### What is hard, and what correct means

**Deployment lifecycle.** A row is written by up to eight kinds of actor that
do not exclude each other: two web requests, two deploy tasks of the same
service (the deploy workers autoscale to three, `docker-compose.prod.yml`), the
monitor of an earlier deployment, the beat tasks and the health webhook. Each
holds a stale copy. Messages can be lost with a killed worker child, redelivered
(late acknowledgement), or restored by the platform updater. Correct means:

 * one live revision: at most one ACTIVE row per service, whoever saves what;
 * nothing is built or run that should have waited for a human first;
 * a cancelled row does not come back, except through retry (or through a
   process that already had read it before);
 * a rollback is never parked for review or staging;
 * no row stays in flight for ever, no dead green stays STAGED for ever.

**Fleet build lock.** Acquire, recovery, heartbeat and release are sequences of
separate cache calls, with no comparison in the deletes. Workers crash between
any two, rows are cancelled, aged or deleted under a running build, the cache
drops out and answers from the memory of the process. Correct means: one build per slot; a slot of a dead worker becomes
free again; a live build is not robbed because its row was cancelled.

**Promotion (local adapter, reaper, sweep).** A promotion is some twenty Docker
calls with a way back, run by three kinds of caller with nothing to keep them
apart, while beat tasks and superseding deployments stop and remove containers;
and a deployment's own task goes on checking, and may fail, when the name has been
switched and the old container is gone. Correct means: when a promotion ends, the
service's name serves what the promotion reports; no container that has served is
lost; the ACTIVE row names the live container. The code does not reach all of this;
[NameSwitch and Cutover](#nameswitch-and-cutover) says what remains.

**Ecosystem plans.** A chain of tasks, each sending the next, over rows that
workers, deferred tasks, beat tasks, operators and pushes change meanwhile.
Correct means: a service is built after those it depends on; fail-fast stops what
it says it stops; COMPLETED is honest; no row waits for an engine that is gone;
everything ends.

**Shared Postgres.** One server holds the databases of all tenants. Its
promotion is fence, promote, move aliases, rename, all by container name, while
provisioning creates and starts whatever has that name. Correct means: one
writer; the data of the server is never seeded over; the fenced copy stays; an
outage is failed over; a lost standby is rebuilt.

**Leader election.** Several nodes, lost and late calls, restarts. Correct: one
leader per term, a node votes once per term, a leader that sees a higher term
steps down.

**Service HA, per-addon HA, replication.** Correct: no two primaries, the number of
replicas converges.

**Transfer, deletion.** Correct: no step removes what another
actor made live meanwhile.

`PROJECT.json` lists the hazards of the modelled code at their lines, and the
properties aimed at each.

## Plan

Most important behaviour first. Each component has a specification module, an
`...MC` module with its instances, and a `...Proofs` module where something is
proved; no specification uses a RECURSIVE operator, so each can be proved about.

1. `Deployments` (done): rows, tasks, messages, containers of one
   service. `DeploymentsProofs`: types, one ACTIVE row. `DeploymentsGateProofs`: the
   review gate, rollbacks, cancellation.
2. `FleetBuildLock` (done). `FleetBuildLockProofs`: types, exclusion until
   a named disturbance.
3. `NameSwitch`, `Cutover` (done): what a promotion promises, and
   `promote_container` call by call as its refinement, with the reaper and the
   orphan sweep beside it. `CutoverProofs`: types, no proven container is lost.
   `CutoverSwitchProofs`: the ACTIVE row names what serves, and the refinement.
4. `EcosystemWaves` (done): the wave engine, the deferred builds and the beat
   tasks over an abstract deployment. `EcosystemWavesProofs`: every safety property.
5. `SharedPostgres` (done): the tenants' database server, its standby, the
   watchdog and the operator's command. `SharedPostgresProofs`: every safety property.
6. Every safety property of a passing run is a theorem (done). Worth proving next:
   what `NameSwitch` alone implies (after a promotion that was reported as done the
   name serves its revision until the next one begins), which `Cutover` then inherits.
7. Further components, in the order of what their state is worth: service
   deletion and transfer as far as they share rows with a deployment, service HA,
   backups.

Considered and left out: `LeaderElection`. As the code stands the receiver of a
vote request or heartbeat checks the signature over the bytes of the body
(`core/views/election.py:79`), while the sender signs compact JSON with sorted
keys and sends another serialisation (`requests.post(json=...)`), so every call of
a peer is refused. A model would have no step of the receiving side, and what one
would want to know (votes per term, terms that rise) is about steps that cannot
happen. The circuit breaker is a counter under one lock.

Runs are kept few: one for each question. The later modules get one passing run
each, whose instance carries all the properties of the module; proofs cover what
a larger instance would.

## Modules and their correspondence to the code

### Deployments

One service. `row[d]` is the committed database row of the d-th deployment in
the order of `created_at`: its status and the two container ids
(`green_container_id`, `container_id`). The other columns never decide anything
the properties tell apart. `direct`, `fixes` and `tracked` are the flags
`is_rollback`, "created by the automatic fix" and "`celery_task_id` is stored".
`queue` is the broker: a set, so at most one copy of a message waits at a time,
though a message can be delivered any number of times one after another.
`ctr` is what Docker knows, `live` the container that has the canonical name.
`allowed` is a history variable, read by one property only.

`proc[p]` is a running handler or task: its program counter, its job, and
`obj`, **its copy of the row**. Every operation is cut where the code does
something slow or where another transaction can come between:

| code | actions |
| --- | --- |
| `Deployment.save()`, `append_log`, `update_stage` | operators `Save`, `SaveStatus`, `SaveLog`: the row is written and, if the status *in memory* is ACTIVE, every other ACTIVE row is demoted, also when only a log field is saved |
| `trigger` | `TriggerCheck` (with `_cancel_stale_in_progress_deployments`), `TriggerCreate`: two transactions |
| GitHub push | `Push` |
| `rollback` | `Rollback` |
| `cancel`, `approve`, `retry`, `promote`, auto-review, auto-promote, reap, sweep | `Read` (guard and copy), then `CancelCommit`, `ApproveCommit`, `RetryCommit`, `PromoteCut`/`PromoteFails`, `ReapCommit`, `SweepCommit` |
| `bulk_cancel` | `BulkCancel`, one `queryset.update()`; `Revoke` is the revoking of tasks `cancel` does too |
| `smart_deploy_task`, `resume_deploy_task` | `Take`, `Supersede`, `Proceed` (with `Mode`: review, staged or direct), `AnalysisDone`, `BuildDone` |
| `_deploy_container` | `CreateLive`/`CreateGreen`, `Record`, `Refresh`, `WaitOk`, `AddonFails`, `CancelPreviousStaged`, `StageSave`, `ActiveSave`, `PostSave` |
| errors | `WorkFails`, `TransientRetry`, `FailRead`, `FailSave` |
| `_post_deploy_monitor` | `WatchOk`, `WatchCrash`, `DiagnoseFail`, `DiagnoseFix` |
| health webhook, queue restore after an update | `HealthHook`, `QueueRestore` |
| environment | `Dies`, `WorkerCrash`, `PlanEnds` |

`Ops` says which requests and mishaps an instance has; operations of web users
and mishaps spend from `MaxOps`, beat tasks and the work of a process do not.

Abstractions. The clock: the sweeper and the stale-BUILDING check may consider a row
stalled at any time (their input is `updated_at`, which `save(update_fields=…)`
does not change, so a live build looks as old as a dead one). A beat task reads
its whole list first and treats the rows one after another; here each row has
its own delay, which allows the same orders. What building, diagnosing and
probing do is reduced to whether they succeed. `Deployment.Status` values that
the modelled code never writes (safe-deploy and rollback states) are left out.
The health webhook's query and its updates are one step, so are the in-progress
query of a trigger and its two updates, the loop of `_cancel_previous_staged` over the
earlier rows (`deploy_container.py:126-143`: a save and a removal for each), and the
monitor's log lines while its container is healthy. A failing validation of the environment
saves FAILED before it raises (`deploy_container.py:372-379`) and `_handle_failure` saves it
again; `WorkFails` and `FailSave` have the second save only. A broker that refuses a publication is left out (the handlers
then fail or return the row they have just created).
A deployment that is "fast" (by its service or by the platform's default) takes
the same way as a rollback, without review and staging; `direct` stands for both,
and only rollbacks are created in the instances.

### FleetBuildLock

`key[k]` and `hb[k]` are the two cache entries of slot k, `task[t]` the worker
inside `fleet_build_lock`, `beat[t]` its heartbeat thread. Every cache call is
one action, so anything may happen between the calls. The cache is
`FallbackRedisCache`: a call Redis fails is answered from the memory of the process
(`LocMemCache`), and so are those the same thread makes afterwards until it
reconnects. `local` are the tasks in that state; the thread has a connection of its
own, and its state is `beat[t] = "local"`. Each action of a worker has therefore a
disjunct for the answer of Redis (`Answered`) and one for the other (`Lost`):

| code | actions |
| --- | --- |
| the loop over the slots, `cache.add` | `Begin`, `Scan`, `NextSlot`, `GiveUp` |
| the configuration cannot be loaded, or the lock is switched off | `BeginLockless`, `LocklessEnds` |
| `_fleet_lock_owner_is_stale` | `Stale`, `Inspect`; `StaleUnseen` when the heartbeat cannot be read |
| recovery | `Delete`, `DeleteHb`, `AddAgain` |
| first heartbeat and thread start | `FirstBeat` |
| `_refresh_heartbeat` | `BeatCheck`, `BeatSet`, `BeatAgain`, `BeatRefresh` |
| `finally` | `BuildEnds`, `Release`, `Unlock`, `UnlockHb` |
| the owner's row (statuses a slot owner may have, `updated_at`, existence) | `RowMovesOn`, `CancelRow`, `RowAges`, `DeleteRow` |
| time and failures | `HeartbeatAges`, `KeyExpires`, `Crash` |
| `FallbackRedisCache._call_with_fallback` | `Reaches`, `Fails`, `Answered`, `Lost`, `Reconnect`; for the thread `Blip`, `BeatBack` |

Time is abstract. A heartbeat or key gets old only while no thread refreshes it
(a thread beats every 15 s; the windows are 600 s and 3600 s). One timing
assumption is made, `InPassing`: no heartbeat ages and no key expires *between*
the consecutive cache calls of one worker about that slot, which are
milliseconds apart. `old` stands for `updated_at` beyond the window.

`disturbed` is a history variable that becomes true at the first event after
which the code no longer guarantees exclusion. These are the events:

 1. a worker crash, or a heartbeat or key that ran out (its slot may be given
    away while somebody else still holds a claim to it);
 2. a second task of the same deployment (it takes its own slot again by design);
 3. a row that is deleted under its task (the existence of the row is looked at before
    the heartbeat), or cancelled or overaged while no fresh heartbeat of it lies beside
    its slot;
 4. a heartbeat thread that hangs past `join(timeout=1)` and writes later;
 5. a waiter that judges an owner who gave the slot back after the waiter read it;
 6. a release that deletes the next owner's first heartbeat;
 7. a configuration that cannot be loaded, or the lock switched off: the build runs
    without a slot (`build_compose.py:135-145`);
 8. of a cache outage: an acquiring `cache.add` that is answered from the memory of the
    process (the check of `is_degraded` comes once per round, before it); a fresh
    heartbeat it hides from a waiter; a slot it leaves behind at the release.

A cache outage alone is thus enough to give a slot to two builds, and so is a
configuration that cannot be read. What remains, and is checked and proved, is the rest
of the design the comments argue for: cancelling the row of a running build does not
rob it; an outage that ends its heartbeat thread, swallows the first heartbeat or the
deletion of the last one does not by itself give the slot to two; neither does the thread's check-then-write, or a thread that goes on in the memory
of its process.

### NameSwitch and Cutover

`NameSwitch` is the abstract specification: the canonical name of a service
`serving` a revision, promotions that begin, change it in between and end with an
outcome. When a promotion ends the name serves its target after a success and
what it served before after a failure; that is the docstring of
`promote_container`. A deployment's own task can fail after that
(`withdrawn`): then the name serves nothing. This third outcome is the code's, not the
documentation's, which says of a failed deployment that "the previous `ACTIVE` deployment is
preserved" (`docs/deployments.md:73`).

`Cutover` is the code. `ctr[c]` is a container: its name, whether it runs,
whether its health check fails. A container's identity says where it comes from:
the old live one, the green of a deployment, the one a promotion makes, the one
its way back makes in an emergency. `row[d]` is the database row, `proc[p]` a
promotion, `beat` the beat task, or the superseding deployment, and the container it is
looking at.

| code | actions |
| --- | --- |
| the callers: `promote` of the API and `auto_promote_staged_deployments` on a STAGED row, a deployment's own task | `Start`, `Mark`, `Fail` |
| `promote_container`: the green is looked at, the live container looked up, stopped, renamed to its backup name | `Check`, `Get`, `StopOld`, `RenameOld` |
| the new container is created; the name is taken: its holder is stopped, moved aside, and the creation repeated | `Create`, `StopHolder`, `MoveAside`, `CreateAgain` |
| started, waited for, green and backup removed | `StartNew`, `Wait`, `DropGreen`, `DropOld` |
| the way back | `Undo`, `Restore`, `Restart`, `Recreate` |
| after it, in a deployment's own task: the live container is looked up and recorded with HEALTH_CHECK; its readiness, sidecar or addons fail; `_handle_failure` removes the container the row names | `Record`, `ChecksFail`, `Discard` |
| `_cancel_previous_staged` of another deployment, for one row: read, cancel, remove | `Supersede`, `CancelPrior`, `RemovePrior` |
| `reap_failed_greens_task`: ids of ACTIVE rows, rows, stop | `ReapLive`, `ReapRows`, `ReapStop` |
| `_clear_orphaned_runtime_resources`: ids in rows, names of containers, removal | `Referred`, `SweepRefs`, `SweepList`, `SweepRemove` |
| a worker dies; a green turns unhealthy; a call fails | `Crash`, `Sick`, the disjuncts with `Trouble` |

The refinement mapping takes as `serving` the revision of the running container
that has the name, as `busy` the promotion that has looked the live container up and
has not ended, and as `before` the revision of the container it found. `spoiled`
becomes true, and nothing else is promised, when: two promotions overlap; a worker
dies while the name is switched or while its failed deployment is about to remove the new
container; the way back, or that removal, fails itself; the rename that begins
the switch fails (the old container is then stopped already); the sweep or a superseding
deployment removes a container that is not a green, or the latter cancels a row that is
ACTIVE or in HEALTH_CHECK by now; the automatic promotion marks FAILED what has gone
live. Each of these is a behaviour of the code, described under
[differences](#where-code-and-documentation-differ).

A deployment that fails after its cut-over does *not* spoil: `KeepsPromise` has the outcome
`withdrawn` for it, and `ServedAsRecorded` excepts what it leaves, a name without
a container (`Vacated`) beside the row of the revision before, which still says ACTIVE, until
a promotion succeeds. `NothingLost` does not depend on `spoiled` but on `discarded`, which
three actors set when they remove a container that has passed: the orphan
sweep, a deployment that fails after its cut-over (`Discard`), one that supersedes it
(`RemovePrior`). It says that `promote_container` itself, with its way back, never removes the
last good container, whatever overlaps, dies or fails.

Not in the model: the early return for a green that already has the canonical name,
the settings the new container is given, health probes other than by outcome. `Record` is
the lookup and the save together; the addons' failure, which saves FAILED before it raises,
and `_handle_failure` write the row in one step (`ChecksFail`). The superseding deployment is
not followed further; what it does to one row is. One beat task or superseding deployment
looks at one container at a time.

### EcosystemWaves

`engine` is the wave engine: the task waiting or running, its wave, how often the wave was
looked at again, what it has read (`seen`), the rows a bulk write is about to change
(`batch`), the rows still to dispatch (`todo`), which are treated in the order of their
wave (`InTurn`): a row deferred before another one is dispatched is the code's loop, not a
choice. `row[s]`, `work[s]`, `smart[s]` and
`deferred[s]` are the row of a service, its worker and its messages.

| code | actions |
| --- | --- |
| `ecosystem_release_wave_task`: read the previous wave, wait, retry failed rows | `BeginFirst`, `Check`, `Verdicts`, `Retry` |
| deadline: read again, then one bulk update | `Expire`, `ExpireSave` |
| cancel dependents or, under fail-fast, everything | `Doomed`, `Cancel`, `CancelSave` |
| memory gate, early release of independent rows | `Gate`, `GateLow`, `Early`, `Eligible` |
| `_queue_wave`, row by row; with too little memory the rows of the call at once (the early release makes a call for each row) | `InTurn`, `Dispatch`, `DispatchLow`, `Dispatched` |
| `_finalize_ecosystem_plan` | `Finalize`, `FinalizeSave` |
| `ecosystem_deferred_build_task` | `DeferredSkip`, `DeferredCancel`, `DeferredDispatch` |
| `smart_deploy_task` as far as the engine sees it | `Take`, `HandOver`, `Succeed`, `Fail` |
| `recover_stalled_deployments`, `recover_stale_ecosystem_plans` | `Sweep`, `ClearGhost`, `ClearAlive` |
| operators, pushes, deaths, losses | `UserCancel`, `Push`, `Demote`, `Crash`, `EngineDies`, `WorkerDies` |

Abstractions: time (a deadline passes after `MaxWaits` looks; the sweeper may find any row
idle, the ghost sweeper a live plan as a mishap); the count of concurrent builds,
which misses rows that are idle or whose `commit_hash` the clone has overwritten, is any
number up to the true one; one worker per row at a time; STAGED counts as ACTIVE.
The waves are a constant. `WavesAssumption` says what `_build_dependency_waves()` ensures
of any plan: each service is in one wave. That a wave comes after those its services
depend on is *not* assumed, because it does not hold for a plan with a cycle, whose
services the code puts into the last waves.
The creation of services and rows, and a second engine started by a repeated deploy
request, are outside.

### SharedPostgres

`ctr[c]` is a container: its name (the server's, the standby's, the fenced copy's), its
volume, and what runs in it: nothing, the seeding script before or after it has
emptied the volume, a standby, a primary. `net` says which networks it is on and
whether with the tenants' alias. `data[v]` is the set of writes on a volume.
`proc[p]` is a run of the watchdog, a provisioning or a command; `downs`, `seen`
and `cooling` are the watchdog's cache keys.

| code | actions |
| --- | --- |
| `check_shared_postgres_ha_task` | `Watch`, `Ending` (its keys) |
| provisioning, application start; `shared_postgres_ha` | `Provision`, `Command` |
| `ensure_shared_server`, `attach_alias` | `EnsureServer`, `ServerReady`, `AttachAlias` |
| `ensure_shared_standby` | `ClaimVolume`, `CreateStandby`, `StartStandby`, `AwaitStreaming`, `SweepVolumes` |
| `promote_shared_standby` | `CheckAlive`, `Fence`, `Promote`, `VerifyWritable`, `MoveAliases`, `SetAside`, `TakeName`, `GrantReplication` |
| the command line of the standby's container | `Wipe`, `Copy` |
| Postgres and its clients | `Replicate`, `Write` |
| what goes wrong | `Stop`, `Crash`, `Raise`, `Die`, `HeartbeatAges`, and the disjuncts with `Mishap("api")` |

`spoiled` becomes true when: a server is started or created, or the standby removed
for a reseed, while another job promotes; two promotions overlap; `docker stop` or
`docker rename` fails (nobody looks); a rename happens while a job has claimed a
volume and not yet created its container; `_volume_users` gets an error, which it
reports as "nobody"; a promotion ends between promoting and renaming. The code does
nothing against any of them, and each can end with two writers, with lost data or
with no server; what is checked is that nothing else can.

Abstractions: time (the watchdog's windows are `seen` and `cooling`, which may end
at any moment); what a tenant's database contains; the tenant pooler, which only
changes who has the alias; `docker rm` always works; a server that runs but does
not answer is a call that times out. `due` are the writes a failover has not given
up: replication is asynchronous, so the writes the standby had not received are lost
when it is promoted.

## Runs, bounds and what they show

| run | question | instance |
| --- | --- | --- |
| `deployments_operators` | do the operators' requests, in any interleaving with the tasks, keep one ACTIVE row, the review gate and cancellation? | 2 rows, 2 processes, 3 containers, 3 requests; 0.9 million states |
| `deployments_mishaps` | the same under crashes, redelivery, restores, bulk cancellations, webhooks, sweeps, failing work, rollbacks and automatic fixes | 3 rows, 2 processes, 3 containers, 3 requests or mishaps; 2.6 million states |
| `deployments_live` | does everything in flight end, and are dead greens reaped? | 2 rows, 2 processes, 2 containers, 3 mishaps, fair |
| `deployments_retired`, `_cancel_terminal`, `_live_serving`, `_revision` | statements of the documentation the code does not keep | 2 rows, 2 processes, and only the requests needed |
| `fleet_faults` | does exclusion hold up to the first named disturbance, and does a slot nobody builds in become free, under every fault, at every cache call? | 2 workers, 1 slot, fair; 503 thousand states |
| `cutover` | does `promote_container` implement `NameSwitch`; is the last good container never removed by it; does the ACTIVE row name the live one? | 2 promotions, 2 deployments and the one before, 2 mishaps of all kinds beside failures of health checks; 2.9 million states |
| `ecosystem` | dependencies, fail-fast, honest completion, no row left behind, everything settles | 3 services in waves `<<a,b>>, <<c>>`, c needs a, 1 build at a time, 1 mishap of every kind, fair; 0.9 million states |
| `shared_pg` | one writer, data and fenced copy kept, a promotion that has begun serves, a lost standby is rebuilt | 1 watchdog, 1 provisioning or command, 4 containers, 2 fresh volumes, 2 writes, 2 mishaps of every kind, fair; 82 thousand states |
| `shared_pg_failover` | is an outage of the server failed over? It is not | 1 watchdog with 3 probes, one stop |

Why the bounds are enough. The races of `Deployments` are between two actors
and about one or two rows: a stale copy against a newer write, or two rows each
demoting the other. Two processes and two rows reach all of them; a third row
adds "a rollback or a fix while two others are under way". Every
modelled kind of status change happens within three requests: create, disturb,
repair. Containers are bounded by three because one is live, one is green and one is
being created; when none is left a creation waits, which removes behaviours
only after a third creation. The two workers of the lock are an owner and a
waiter, who moves on from the one slot to itself; three workers and two slots are
covered by the proof. That the bounds
hide nothing for `OneActive` and `ExclusiveUntilDisturbed` is what the proofs
add. In `Cutover` the races are between two promotions, or one promotion and a beat
task; two mishaps allow a failure and a failure of its way back. `NothingLost` was
also checked with three promotions and no mishap. In `EcosystemWaves` three services
are the least that has a dependency, a row that may be released early and a
slow row beside it; the safety properties were also checked with two mishaps (5.3
million states), and with four services in three waves without a mishap. In
`SharedPostgres` the watchdog's own failover needs two mishaps (a stop, and a
call that times out, see below) and two containers more than the first two; a
tenant or an operator meets it with one command. The safety properties were also
checked with two commands (1.4 million states) and with two overlapping runs of the
watchdog (1.1 million).

`shared_pg` has a constraint that cuts off what follows a `spoiled` state: all its
properties hold there by their statement, so nothing is hidden.

Deadlock is not checked: all requests may be spent and all tasks done, and the
system then rests.

Each property is also run against a faulty variant of one definition (operators
such as `SaveOlderOnly` or `StaleByStatus`, listed as `mutants`), and fails.

## Fairness

`Deployments`: a busy process goes on (weak fairness of `Step`); container health
waits have time-outs. Beat starts the sweeper and the reaper for as long as the
platform runs, and queues are first-in first-out, so a message or a beat entry
that repeatedly finds a worker free is served (strong fairness, because workers
are busy in between). A plan that is deploying ends or is swept. Operators,
webhooks, crashes and losses get no fairness: the liveness properties hold with
the message or the worker lost for ever.

`FleetBuildLock`: a worker goes on (weak fairness of `Work`), so does its thread
(`Thread`), unless they crash. A build ends (Celery's hard time limit) and the wait has a
deadline (`max_wait`), however often the worker scans the slots in between (strong
fairness of `Ends`). Time passes (`TimePasses`): an unrefreshed heartbeat gets old and an
unrefreshed key expires. Rows, outages and their end, and other faults get no fairness.

`EcosystemWaves`: a message of the engine is delivered and its run goes on, so do
workers; the beat tasks run for ever. A deferred task has no fairness: it may find
the platform full each time. A lost message of the engine stays lost.

`SharedPostgres`: beat keeps sending the watchdog, a job that has begun goes on (its
calls have time-outs), Postgres copies and replicates. Operators, tenants, writes
and mishaps get none. `Cutover` has only safety properties.

## Proofs

The `...Proofs` modules are checked by TLAPS for every value of the constants: any
number of rows, processes, containers, services, promotions and mishaps. They rest on
the named assumptions of the specifications, which TLC evaluates in every run, and on
nothing else: bounds are natural numbers (`SizesAssumption`, `ConstantsAssumption`,
`BoundsAssumption`); no container is called `None` (`NoneAssumption` of `Cutover`); the
server's volume is not one of the fresh ones, whose names contain the time
(`FreshAssumption` of `SharedPostgres`); a plan's waves are sequences of its services, each
service in one of them (`PlanAssumption`, `WavesAssumption`). Every invariant was first
checked by TLC on the instance of the run.

| theorem | property | module |
| --- | --- | --- |
| `TypeCorrect` | `TypeOK` | one for each specification |
| `AtMostOneActive` | `OneActive` | `DeploymentsProofs` |
| `ReviewIsNeverSkipped`, `RollbacksGoStraight`, `CancelledStaysCancelled` | `ReviewGate`, `RollbackNeverHeld`, `NoRevival` | `DeploymentsGateProofs` |
| `ExclusiveUntilThen` | `ExclusiveUntilDisturbed` | `FleetBuildLockProofs` |
| `NothingIsLost` | `NothingLost` | `CutoverProofs` |
| `RecordedServes`, `PromiseIsKept` | `ServedAsRecorded`, `KeepsPromise` (the refinement) | `CutoverSwitchProofs` |
| `NobodyForgotten`, `CompletedIsTrue`, `FailFastIsKept`, `DependenciesComeFirst` | `NoneForgotten`, `HonestCompletion`, `FailFastHolds`, `DependenciesFirst` | `EcosystemWavesProofs` |
| `AtMostOneWriter`, `DataIsKept`, `FencedCopyStays` | `OneWriter`, `DataKept`, `FencedCopyKept` | `SharedPostgresProofs` |

The arguments:

 * `Deployments`: `TypeCorrect` (`Spec => []TypeOK`), and `AtMostOneActive`
   (`Spec => []OneActive`). The type invariant is inductive, one lemma per group
   of actions. For `OneActive` the work is in lemmas about `Save`: whichever copy is
   saved, at most one row is ACTIVE afterwards if at most one was before, *provided*
   a copy that is not ACTIVE in memory does not carry an ACTIVE status into the row. So
   the proof shows exactly where the property comes from - the demotion looks at the same
   status that is written - and why a stale copy can leave no row ACTIVE (run
   `deployments_retired`) but never two. The webhook and the bulk update write
   rows without `save()` and have lemmas of their own.
 * `FleetBuildLock`: `TypeCorrect`, and `ExclusiveUntilThen`
   (`Spec => []ExclusiveUntilDisturbed`). The property is not inductive. The
   invariant is `TypeOK`, `SawOwner` (a waiter that inspects a slot saw an owner in
   it) and, while nothing has disturbed, `CalmInv`: tasks at work have different
   deployments (`Distinct`); a task that owns a slot is in its key, and whatever is
   in a key owns the slot (`KeyOfOwner`, `OwnerOfKey`); no stale
   heartbeat lies anywhere (`NoStaleBeat`); nobody is in the middle of a recovery, builds
   without a slot or has died (`NoRecovery`); a row a waiter would call stale belongs to a
   task with a fresh heartbeat of its own beside its slot (`Covered`), or at no slot
   (`RowsProtected`); a thread beats only while its task builds (`ThreadOfBuilder`). All
   of it is needed because the key alone does not exclude: recovery deletes it and the
   thread writes it without a comparison, and only the heartbeat, or a row nobody would
   call stale, keeps recovery away. That a first heartbeat may be lost in an outage is why
   `RowsProtected` speaks of the heartbeat that is there and not of the task's place.

 * `Deployments`, the gate. `ReviewGate` speaks of rows and containers; what could break
   it is a process or a message that carries a decision along. `GateInv` says what each
   knows: a process past the gate, a promotion about to cut over, and every message that
   skips the review or resumes belong to an `allowed` row (`Covered`, `Posted`); a
   process in a mode that parks, or at a point that stages, does not belong to a `direct`
   one; rows are used in the order of their numbers (`Consecutive`), so that a new row is
   nobody's. `NoRevival` follows, because a task that has not gone live carries a copy that
   was not CANCELLED, and `approve` one that was in REVIEW: a cancellation is undone
   only by a process that had read the row before it, or by `retry`.
 * `Cutover`, what is never lost. `NothingLost` needs an order: the container that
   vouches for the others changes while promotions overlap. The invariant (`Chain`)
   says that there is an order `t` of the containers in which each
   promotion's new container is later than the one it replaces, and of the containers
   that have passed, one at least as late as each is still there. A promotion removes its
   old container only when its own, a later one, has passed; the reaper removes nothing,
   and the sweep, a deployment that fails after its cut-over and one that supersedes it set
   `discarded`. When a promotion finds its old container its own is not yet
   created, so `t` can still be chosen.
 * `Cutover` implements `NameSwitch`. While nothing is spoiled, `Promise` says who has
   the name at each call (`Where`), that one promotion is under way at most, that the
   promotion replaces the container of the ACTIVE row unless an earlier one was withdrawn
   and it found none (`Recorded`), that a deployment's own task has its row for itself
   (`Owned`) and no other row names its container (`Unnamed`), that a container in use is
   named by no retired row, except by one that is about to remove it (`RetiredRows`,
   `Doomed`), so that the reaper stops no other (`ReaperMisses`), and that a name at rest
   runs (`AtRest`). With it each step maps to one of `NameSwitch`: `Get` to `Begin`; `Mark`
   and the failure after the way back to `End` with their outcome; `Discard` to `Withdraw`;
   a failure before the promotion has begun to `Refuse`; a death to `Abandon`; calls that
   change what the name serves to `Change`, the reaper's stop of a doomed container
   among them; everything else to a stutter. A step that spoils maps to `Spoil`.
 * `EcosystemWaves`. `WaveInv` says at which point of its task the engine may be
   (`Stations`); that a status, also one read earlier, is honest about what was served
   (`Honest`: `served` and `pushed` only grow, so a stale ACTIVE still counts); that no
   row of a wave the engine has done with is QUEUED, where `Passed` says which waves those
   are, and that a bulk write about to happen catches the others (`Remembered`); and that
   under fail-fast a row waiting in a later wave vouches for all the earlier waves
   (`Vouched`). `NoneForgotten`, `HonestCompletion` and `FailFastHolds` follow for any
   plan, with or without cycles. For `DependenciesFirst` `Prepared` adds that whatever has been
   sent, deferred or built waits for nothing, and a row of a later wave at most for the
   waves not yet passed; the cancelling of dependents is what preserves it when a
   wave fails, and it needs only that a *direct* dependent is cancelled. The theorem has the
   hypothesis `Ordered` (each service depends on services of earlier waves only),
   stated in the theorem because it is false of plans with a cycle, and then so is the
   property (see below).
 * `SharedPostgres`. While nothing is spoiled: one promotion at most; the container
   with the server's name is down from fence to rename (`ServerFenced`); the standby
   that is being promoted, and the server until the aliases move, have all the writes
   due (`StandbyKeeps`, `ServerKeeps`); a primary has the server's name, or is the
   standby past its promotion (`Writers`); no two containers share a volume (`OwnVolumes`),
   and a job that is about to seed a volume is alone with it (`SeedsAlone`); aliases
   are on the standby only after they were moved (`AliasesMove`), so that no write
   goes to it before; a fenced copy is down. `DataKept` is about volumes, and a
   container may be removed, renamed or seeded anew between any two calls, which is
   why all of these are needed together. `FencedCopyKept` is a step property and follows from
   the same invariant: no job can name, start, remove or seed the fenced container.

Only model-checked: the liveness properties `NoGhostRows`, `DeadGreenReaped`,
`GhostSlotsFreed`, `EventuallySettled`, `PromotionServes` and `StandbyRestored` (the
prover does not do fairness).

## Where code and documentation differ

Each of these has a run whose counterexample shows it.

 * `deployments_retired`: the log line of an old deployment's monitor demotes the
   row that replaced it; no row is ACTIVE although the service runs.
 * `deployments_cancel_terminal`: a cancellation between the hand-off check and the
   HEALTH_CHECK save is overwritten.
 * `deployments_live_serving`: clearing earlier staged rows removes a container
   that has already gone live.
 * `deployments_revision`: a replaced deployment records its successor's container
   as its own and becomes the ACTIVE row.
 * `shared_pg_failover`: the automatic failover of the shared Postgres server cannot
   happen. `promote_shared_standby()` asks the server whether it is alive with
   `_psql()`, which raises `RuntimeError` when `docker exec` fails; the handler that
   passes the refusal on (`shared_postgres.py:470`) passes that on, too. The watchdog
   promotes only when the container is not running, so every attempt ends there,
   and the alert asks for `--force`. Only a call that times out gets past.

Known races seen while modelling, in the same code, without a run of their own:

 * two deployments that each cancel the other's staged row end with two STAGED
   rows, though `deploy_container.py:83-85` wants one;
 * the health webhook activates a HEALTH_CHECK row which its deployment then
   saves as STAGED, though `deploy_container.py:506-507` means to prevent that
   (the copy is refreshed before the health wait, not after it);
 * two concurrent triggers both pass the in-progress check (`_helpers.py:521`): the
   row lock ends with the helper and locks nothing when no row matches;
 * a cancellation that read the row before the green id was recorded leaves the
   container running (`docs/deployments.md:74`), and its full save erases the id;
 * a deployment that fails after its cut-over leaves the previous row ACTIVE with
   its container gone and the name without one, though `docs/deployments.md:73` says "The
   previous `ACTIVE` deployment is preserved": the outcome `withdrawn` of `NameSwitch`, and
   the exceptions `Vacated` of `ServedAsRecorded` and `discarded` of `NothingLost`;
 * two waiters for a build slot that judge the same dead owner stale: the second
   deletes the key the first has just added, and both build
   (`build_compose.py:246`, against the comments at 87-89 and 195). This is the
   "crash" among the disturbances of `FleetBuildLock`;
 * a cache that fails at the acquiring `cache.add` (`build_compose.py:226`, 248) gives the
   slot from the memory of the process (`fallback_redis_cache.py:119-124`), though the code
   before it knows that "process-local locks don't exclude"; one that fails at the reading
   of a heartbeat (103) makes a cancelled, running build look stale;
 * a waiter whose cache is degraded makes no cache call, and only a call reconnects: it
   waits until `max_wait` although it says it holds "until the cache recovers or the wait
   times out" (`build_compose.py:212-223`);
 * a configuration that cannot be loaded lets a build run without a slot
   (`build_compose.py:141-145`).

Promotion (events that set `spoiled` in `Cutover`):

 * the old container is stopped before it is renamed; when the rename fails it stays
   stopped, although the comment at `local.py:1899-1905` says the way back restarts it;
 * when `reload()` fails on the way back, the attributes of the first look decide:
   nothing is renamed or started;
 * two promotions of the same deployment: the automatic one finds the green gone
   (`promote.py:195-215`) and marks the row FAILED which the other has made ACTIVE;
   the reaper then stops the live container. Two of different deployments can take
   each other's container for the old one and leave the name down; a container moved
   aside (`-promote-conflict-`) is never restored;
 * the orphan sweep counts a backup's grace period from the creation of the container
   (`deletion.py:133-157`), so it may remove the backup of a promotion under way; rows
   without a `container_id` do not count as references, so a green of a deployment
   that has not recorded it yet is swept; and it removes by id what it listed earlier;
 * a staged deployment that supersedes an earlier one cancels and removes what the
   list it has read named, live by now or not (also the run `deployments_live_serving`);
 * a failed deployment whose cleanup call fails too leaves its unready container with
   the name, under a FAILED row, until the reaper stops it;
 * a worker that dies between the cut-over and the save of the row leaves an ACTIVE
   row that names a removed container;
 * the prune handler (`views/deployment/core.py:360`) removes every stopped container
   of the host, the backup of a promotion under way included (not in the model).

Ecosystem plans:

 * services whose dependencies form a cycle are deployed in the last waves, in the order
   of the chunks, with a warning (`ecosystem/tasks.py:1438-1456`), although the comment at
   `helpers/plan.py:219-221` says "The deploy task rejects this result before queueing, so
   these nodes are never silently deployed out of dependency order". With `a` and `b` needing
   each other and `c` needing `a`, TLC finds `DependenciesFirst` violated in five states;
   this is why `DependenciesComeFirst` has a hypothesis;
 * a deferred build is sent without marking the row
   (`ecosystem/tasks.py:422`, against `helpers/lifecycle.py:492-496`), so that it may be
   sent twice;
 * an INACTIVE row (replaced by a push) is neither failed nor in progress: dependents
   are released and the plan may be COMPLETED (the properties except such services);
 * a row that becomes ACTIVE between the reading and the bulk update of a timeout is
   overwritten with CANCELLED;
 * after a timeout the last task of the chain leaves the plan DEPLOYING when a row
   released early is in progress; the ghost sweeper marks it FAILED half an hour later;
 * a long build writes nothing the ghost sweeper looks at: it may fail a live plan,
   whose waiting rows are then cancelled;
 * a repeated deploy request (`ecosystem/tasks.py:867-968`) looks for other deploy tasks
   only, resets terminal rows and starts a second engine beside the first.

Shared Postgres (mostly events that set `spoiled`):

 * the standby's container waits for the server, empties its volume and copies, at
   *every* start. A promoted one that crashes or is started again has the server's
   name itself: it waits for itself for ever, the watchdog sees a running container and does
   nothing. The data is not touched, but the service is down until an operator acts;
 * provisioning or a starting application (`attach_alias` ensures the server) starts
   the container a promotion has just fenced, or creates a new server on the old volume
   between the two renames;
 * a promotion that ends between promoting and renaming cannot be repeated
   (`pg_ctl promote` fails on a primary, also with `--force`);
 * a forced promotion while the standby is still being seeded stops the server, then
   fails: nobody starts it again but the next provisioning;
 * `_volume_users()` returns an empty list when Docker reports an error, although the comment
   at `shared_postgres.py:321` says "Fail closed"; its answer is also used one call
   later;
 * after a failover the standby's volume belongs to the server, so that the watchdog's
   repair of a missing standby is refused every minute until an operator reseeds;
 * `docker network connect` refuses a container that is on the network already (the
   docstring of `attach_alias` says so), so the tenants' aliases on `smsly-net`, where
   the standby is, are lost at every promotion; those on the services' own networks
   move;
 * the cool-down (3600 s) is longer than the window in which a standby counts as healthy
   (900 s), so a second outage within the hour is never automatic;
 * the stopped fenced copy is removed by a general `docker container prune`
   (`views/deployment/core.py:360`, the installer), though never "automatically" by this module;
   its volume stays.

Per-addon high availability: the automatic promotion calls
`AddonHaManager.fence_primary_container()` (`ha_watchdog.py:357`, `addons/views/crud.py:365`),
which is not defined anywhere: after the roles have been swapped the attempt ends in
an `AttributeError`, the old primary is never fenced and no reseed is queued. The reseed
asks `redis-cli ROLE`, also in a Postgres container.

## What is not modelled

In the deployment lifecycle: compose stacks (where `deploy_container.py:186`
uses a staging URL before it is assigned), functions, uploads and image
deployments (no review, other builders), the safe-deploy and Kubernetes branches of
`_deploy_container`, a missing cloud provider (the row stays QUEUED), deployments delegated to remote nodes,
pruning and deletion of rows. In the local adapter: the creation of a green (probes,
networks, labels, images), Compose and functions. In the orphan sweep: containers of
deleted services and addons, images, caches. In ecosystem plans: scanning, the creation of
services, addons and rows, plan rollback. In the shared Postgres: SQL, the tenant pooler,
the migration of an addon onto the shared server. In the fleet lock: workers that see fewer slots because of host pressure (here every worker
scans all of them). While its cache is degraded a waiter takes no step (`Scan` begins a round
only when it is not).

Whole components: see `PROJECT.json`. Leader election and per-addon high availability
are left out because the code cannot take the steps a model would be about (see above).
The others of the plan come next.
Rendering of proxy and network configuration, CRUD on organisations and
permissions, notification adapters, the frontend, the CLI, shell installers, the
Go edge sidecar and the archived Rust control plane keep no state whose
interleavings would be worth a model, or are not deployed.
