---------------------------- MODULE Deployments ----------------------------
(***************************************************************************)
(* The life of the Deployment rows of ONE service: the web handlers that   *)
(* create, cancel, approve, retry and promote them, the Celery tasks that  *)
(* build, deploy and watch them, the beat tasks that sweep them, and the   *)
(* containers they run in.                                                 *)
(*                                                                         *)
(* Every handler or task runs in a process that holds an in-memory copy of *)
(* the row it works on (a Django model instance).  What makes the system   *)
(* hard is that this copy is read at one moment and saved at another, and  *)
(* that what save() does to the OTHER rows depends on the copy.            *)
(***************************************************************************)
EXTENDS Integers, FiniteSets

CONSTANTS
  NDep,     \* rows the service may get, numbered in the order of created_at
  Procs,    \* processes: web requests, Celery workers, beat tasks
  NCtr,     \* containers that may be created
  MaxOps,   \* bound on the operator requests and mishaps of a behaviour
  Ops       \* the requests, beat tasks and mishaps this instance allows

ASSUME SizesAssumption == NDep \in Nat \ {0} /\ NCtr \in Nat \ {0} /\ MaxOps \in Nat

VARIABLES
  row,        \* row[d]: the committed database row
  direct,     \* rows with is_rollback: no review, no staging
  fixes,      \* rows created by the post-deploy auto-fix
  tracked,    \* rows whose celery_task_id is stored
  queue,      \* Celery messages waiting at the broker
  proc,       \* proc[p]: the handler or task p runs, and its copy of the row
  ctr,        \* ctr[c]: what Docker knows of container c
  live,       \* the container with the canonical name, 0 if none
  allowed,    \* history: rows whose build somebody asked for without review, or approved
  livePlan,   \* an EcosystemPlan of the project is DEPLOYING
  ops         \* requests and mishaps so far

vars == <<row, direct, fixes, tracked, queue, proc, ctr, live, allowed, livePlan, ops>>

Dep == 1..NDep
Ctr == 1..NCtr

Status == {"none", "QUEUED", "REVIEW", "BUILDING", "HEALTH_CHECK", "STAGED",
           "ACTIVE", "INACTIVE", "FAILED", "CANCELLED"}
Row == [st : Status, green : 0..NCtr, cid : 0..NCtr]

Terminal    == {"ACTIVE", "INACTIVE", "FAILED", "CANCELLED"}
InProgress  == {"QUEUED", "BUILDING", "REVIEW"}
SweepableNoHealth == {"QUEUED", "REVIEW", "BUILDING"}   \* faulty
Sweepable   == {"QUEUED", "REVIEW", "BUILDING", "HEALTH_CHECK"}
Cancellable == {"QUEUED", "REVIEW", "BUILDING", "STAGED"}
Bulkable    == Cancellable \cup {"FAILED"}
MaxFixes    == 2

TaskKinds    == {"smart", "resume", "monitor"}
\* Handlers that read one row, decide, and write it later.
RequestKinds == {"cancel", "approve", "retry", "promote",
                 "autoreview", "autopromote", "reap", "sweep"}
BeatKinds    == {"autoreview", "autopromote", "reap", "sweep"}

Job == [kind : TaskKinds \cup RequestKinds \cup {"trigger", "none"},
        dep : Dep, skip : BOOLEAN, ctr : 0..NCtr]
Message == [kind : TaskKinds, dep : Dep, skip : BOOLEAN, ctr : 0..NCtr]
Smart(d, skip)  == [kind |-> "smart",   dep |-> d, skip |-> skip,  ctr |-> 0]
Resume(d)       == [kind |-> "resume",  dep |-> d, skip |-> FALSE, ctr |-> 0]
Monitor(d, c)   == [kind |-> "monitor", dep |-> d, skip |-> FALSE, ctr |-> c]
Request(k, d)   == [kind |-> k,         dep |-> d, skip |-> FALSE, ctr |-> 0]

PCs == {"idle", "create_row", "start", "analyse", "build", "create", "record", "refresh", "wait",
        "cancel_staged", "stage", "activate", "post", "fail_read", "fail_save",
        "watch", "diagnose", "commit"}
Modes == {"", "review", "staged", "direct", "promote"}

NoRow == [st |-> "none", green |-> 0, cid |-> 0]
Idle  == [pc |-> "idle", job |-> Request("none", 1), obj |-> NoRow, mode |-> "", ctr |-> 0]

Init ==
  /\ row = [d \in Dep |-> NoRow]
  /\ direct = {} /\ fixes = {} /\ tracked = {} /\ queue = {} /\ allowed = {}
  /\ proc = [p \in Procs |-> Idle]
  /\ ctr = [c \in Ctr |-> [st |-> "free", owner |-> 0]]
  /\ live = 0
  /\ livePlan = ("plan" \in Ops)
  /\ ops = 0

---------------------------------------------------------------------------
(* Helpers *)

\* A faulty save() that demotes only older rows.
SaveOlderOnly(d, new, memSt) ==
  [e \in Dep |-> IF e = d THEN new
                 ELSE IF memSt = "ACTIVE" /\ row[e].st = "ACTIVE" /\ e < d
                      THEN [row[e] EXCEPT !.st = "INACTIVE"]
                      ELSE row[e]]

\* Deployment.save(): writes row d; if the status IN MEMORY is ACTIVE, every
\* other ACTIVE row of the service becomes INACTIVE in the same transaction.
\* With update_fields, new is the committed row with only those fields changed.
Save(d, new, memSt) ==
  [e \in Dep |-> IF e = d THEN new
                 ELSE IF memSt = "ACTIVE" /\ row[e].st = "ACTIVE"
                      THEN [row[e] EXCEPT !.st = "INACTIVE"]
                      ELSE row[e]]

\* save(update_fields=["status", ...])
SaveStatus(d, st) == Save(d, [row[d] EXCEPT !.st = st], st)
\* append_log / update_stage: saves one text field, yet runs the same save().
SaveLog(d, memSt) == Save(d, row[d], memSt)

Up(c)      == c \in Ctr /\ ctr[c].st = "up"
Exists(c)  == c \in Ctr /\ ctr[c].st \in {"up", "exited"}
Removed(S) == [c \in Ctr |-> IF c \in S /\ Exists(c) THEN [ctr[c] EXCEPT !.st = "gone"]
                             ELSE ctr[c]]
FreeCtr    == {c \in Ctr : ctr[c].st = "free" /\ \A b \in 1..(c - 1) : ctr[b].st # "free"}
IdsOf(r)   == {r.green, r.cid} \ {0}

Used      == {d \in Dep : row[d].st # "none"}
NextRow   == Cardinality(Used) + 1
Busy(p, pc) == proc[p].pc = pc
Done(p)   == proc' = [proc EXCEPT ![p] = Idle]
Goto(p, pc) == proc' = [proc EXCEPT ![p].pc = pc]
Start(p, j, pc) == proc' = [proc EXCEPT ![p] =
                     [pc |-> pc, job |-> j, obj |-> row[j.dep], mode |-> "", ctr |-> 0]]

Spend(k) == k \in Ops /\ ops < MaxOps /\ ops' = ops + 1
\* Deployment.objects.create(...): the next row, QUEUED.
Created(d) == [row EXCEPT ![d].st = "QUEUED"]

---------------------------------------------------------------------------
(* Web handlers that create rows *)

\* trigger(): _has_active_deployment first fails BUILDING rows that look stuck
\* and cancels in-progress rows older than the latest ACTIVE one, then refuses
\* if one is still in progress.  Its row lock is gone when it returns.
AfterStaleCancel(stuck) ==
  LET older(d) == \E a \in Dep : a >= d /\ row[a].st = "ACTIVE"
  IN [d \in Dep |-> IF d \in stuck THEN [row[d] EXCEPT !.st = "FAILED"]
                    ELSE IF row[d].st \in InProgress /\ older(d)
                         THEN [row[d] EXCEPT !.st = "CANCELLED"]
                         ELSE row[d]]

TriggerCheck(p) ==
  /\ Busy(p, "idle") /\ Spend("trigger")
  /\ \E stuck \in SUBSET {d \in Dep : "slow" \in Ops /\ row[d].st = "BUILDING"} :
       row' = AfterStaleCancel(stuck)
  /\ IF \E d \in Dep : row'[d].st \in InProgress
       THEN UNCHANGED proc
       ELSE Start(p, Request("trigger", 1), "create_row")
  /\ UNCHANGED <<direct, fixes, tracked, queue, ctr, live, allowed, livePlan>>

TriggerCreate(p) ==
  /\ Busy(p, "create_row") /\ NextRow \in Dep
  /\ row' = Created(NextRow)
  /\ queue' = queue \cup {Smart(NextRow, FALSE)}
  /\ Done(p)
  /\ UNCHANGED <<direct, fixes, tracked, ctr, live, allowed, livePlan, ops>>

\* GitHub push: a row and a task that skips the review, whatever is in flight.
Push ==
  /\ Spend("push") /\ NextRow \in Dep
  /\ row' = Created(NextRow)
  /\ queue' = queue \cup {Smart(NextRow, TRUE)}
  /\ allowed' = allowed \cup {NextRow}
  /\ UNCHANGED <<direct, fixes, tracked, proc, ctr, live, livePlan>>

\* rollback(): to a row that was live before and is not the live one now.
LatestActive == LET active == {d \in Dep : row[d].st = "ACTIVE"}
                IN IF active = {} THEN 0 ELSE CHOOSE d \in active : \A e \in active : e <= d

Rollback(target) ==
  /\ Spend("rollback") /\ NextRow \in Dep
  /\ row[target].st \in {"ACTIVE", "INACTIVE"} /\ target # LatestActive
  /\ row' = Created(NextRow)
  /\ direct' = direct \cup {NextRow}
  /\ queue' = queue \cup {Smart(NextRow, FALSE)}
  /\ allowed' = allowed \cup {NextRow}
  /\ UNCHANGED <<fixes, tracked, proc, ctr, live, livePlan>>

---------------------------------------------------------------------------
(* Web handlers and beat tasks that read a row and write it later.  A beat *)
(* task reads its whole list first; here each row of it has its own delay. *)

Guard(k) == CASE k = "cancel"  -> Cancellable
              [] k \in {"approve", "autoreview"} -> {"REVIEW"}
              [] k = "retry"   -> {"FAILED", "CANCELLED"}
              [] k \in {"promote", "autopromote", "reap"} -> {"STAGED"}
              [] k = "sweep"   -> Sweepable

Read(p, k, d) ==
  /\ Busy(p, "idle") /\ k \in Ops
  /\ row[d].st \in Guard(k)
  /\ IF k \in BeatKinds THEN UNCHANGED ops ELSE Spend(k)
  /\ Start(p, Request(k, d), "commit")
  /\ UNCHANGED <<row, direct, fixes, tracked, queue, ctr, live, allowed, livePlan>>

Commits(p, k) == Busy(p, "commit") /\ proc[p].job.kind = k

\* Revoking the tasks of the rows of S whose id is stored (best effort: any
\* subset of the messages and of the workers); the processes of P end with it.
Revoke(S, P) ==
  LET revoked(j) == j.kind = "smart" /\ j.dep \in S \cap tracked
  IN /\ \E dropped \in SUBSET {j \in queue : revoked(j)} : queue' = queue \ dropped
     /\ \E killed \in SUBSET {q \in Procs : revoked(proc[q].job)} :
          proc' = [q \in Procs |-> IF q \in killed \cup P THEN Idle ELSE proc[q]]

\* cancel(): revokes the task, removes the containers its copy names, saves
\* every field of its copy.
CancelCommit(p) ==
  LET d == proc[p].job.dep
      obj == proc[p].obj
  IN /\ Commits(p, "cancel")
     /\ row' = Save(d, [obj EXCEPT !.st = "CANCELLED"], "CANCELLED")
     /\ ctr' = Removed(IdsOf(obj))
     /\ Revoke({d}, {p})
     /\ UNCHANGED <<direct, fixes, tracked, live, allowed, livePlan, ops>>

\* bulk_cancel(): one queryset.update(), then the same revoking; no container is
\* touched.
BulkCancel(S) ==
  /\ Spend("bulkcancel") /\ S # {}
  /\ \A d \in S : row[d].st \in Bulkable
  /\ row' = [d \in Dep |-> IF d \in S THEN [row[d] EXCEPT !.st = "CANCELLED"] ELSE row[d]]
  /\ Revoke(S, {})
  /\ UNCHANGED <<direct, fixes, tracked, ctr, live, allowed, livePlan>>

\* approve() and auto_review_deployments()
ApproveCommit(p) ==
  LET d == proc[p].job.dep
  IN /\ Commits(p, "approve") \/ Commits(p, "autoreview")
     /\ row' = SaveStatus(d, "BUILDING")
     /\ queue' = queue \cup {Resume(d)}
     /\ allowed' = allowed \cup {d}
     /\ Done(p)
     /\ UNCHANGED <<direct, fixes, tracked, ctr, live, livePlan, ops>>

RetryCommit(p) ==
  LET d == proc[p].job.dep
  IN /\ Commits(p, "retry")
     /\ row' = SaveStatus(d, "QUEUED")
     /\ queue' = queue \cup {Smart(d, FALSE)}
     /\ Done(p)
     /\ UNCHANGED <<direct, fixes, tracked, ctr, live, allowed, livePlan, ops>>

\* recover_stalled_deployments(): cancels what it read, REVIEW only under a plan.
SweepCommit(p) ==
  LET d == proc[p].job.dep
  IN /\ Commits(p, "sweep")
     /\ row' = IF livePlan /\ proc[p].obj.st # "REVIEW" THEN row ELSE SaveStatus(d, "CANCELLED")
     /\ Done(p)
     /\ UNCHANGED <<direct, fixes, tracked, queue, ctr, live, allowed, livePlan, ops>>

\* Faulty: only a missing green counts as dead, not an exited one.
ReapMissingOnly(p) ==
  LET d == proc[p].job.dep
      green == proc[p].obj.green
  IN /\ Commits(p, "reap")
     /\ IF Exists(green)
          THEN UNCHANGED <<row, ctr>>
          ELSE row' = SaveStatus(d, "FAILED") /\ ctr' = Removed({green})
     /\ Done(p)
     /\ UNCHANGED <<direct, fixes, tracked, queue, live, allowed, livePlan, ops>>

\* reap_unhealthy_staged_deployments(): fails a STAGED row whose green is dead.
ReapCommit(p) ==
  LET d == proc[p].job.dep
      green == proc[p].obj.green
  IN /\ Commits(p, "reap")
     /\ IF Up(green)
          THEN UNCHANGED <<row, ctr>>
          ELSE row' = SaveStatus(d, "FAILED") /\ ctr' = Removed({green})
     /\ Done(p)
     /\ UNCHANGED <<direct, fixes, tracked, queue, live, allowed, livePlan, ops>>

\* _do_promote(), the cut-over: promote_container() replaces the green and the
\* live container by a new canonical one (or returns the green, if it already is).
PromoteCut(p) ==
  LET green == proc[p].obj.green
  IN /\ Commits(p, "promote") \/ Commits(p, "autopromote")
     /\ Up(green)
     /\ IF green = live
          THEN /\ proc' = [proc EXCEPT ![p].pc = "activate", ![p].mode = "promote", ![p].ctr = green]
               /\ UNCHANGED <<ctr, live>>
          ELSE \E c \in FreeCtr :
                 /\ ctr' = [Removed({green, live}) EXCEPT ![c] =
                              [st |-> "up", owner |-> ctr[green].owner]]
                 /\ live' = c
                 /\ proc' = [proc EXCEPT ![p].pc = "activate", ![p].mode = "promote", ![p].ctr = c]
     /\ UNCHANGED <<row, direct, fixes, tracked, queue, allowed, livePlan, ops>>

\* The promotion fails and the adapter restores the live container.  The beat
\* task fails the row when the green is gone or after its last attempt.
PromoteFails(p) ==
  LET d == proc[p].job.dep
  IN /\ Commits(p, "promote") \/ Commits(p, "autopromote")
     /\ \/ row' = row
        \/ proc[p].job.kind = "autopromote" /\ row' = SaveStatus(d, "FAILED")
     /\ Done(p)
     /\ UNCHANGED <<direct, fixes, tracked, queue, ctr, live, allowed, livePlan, ops>>

---------------------------------------------------------------------------
(* smart_deploy_task and resume_deploy_task *)

\* Faulty: a task that does not look for CANCELLED when it starts.
TakeAny(p, j) ==
  /\ Busy(p, "idle") /\ j \in queue
  /\ queue' = queue \ {j}
  /\ CASE j.kind = "monitor" -> Start(p, j, "watch")
       [] j.kind = "smart"   -> Start(p, j, "start")
       [] j.kind = "resume"  ->
            proc' = [proc EXCEPT ![p] = [pc |-> "build", job |-> j, obj |-> row[j.dep],
                                         mode |-> "direct", ctr |-> 0]]
  /\ UNCHANGED <<row, direct, fixes, tracked, ctr, live, allowed, livePlan, ops>>

\* Deliver a message: a task of a CANCELLED row ends at once.
Take(p, j) ==
  /\ Busy(p, "idle") /\ j \in queue
  /\ queue' = queue \ {j}
  /\ CASE j.kind = "monitor" -> Start(p, j, "watch")
       [] j.kind # "monitor" /\ row[j.dep].st = "CANCELLED" -> UNCHANGED proc
       [] j.kind = "smart"  /\ row[j.dep].st # "CANCELLED" -> Start(p, j, "start")
       [] j.kind = "resume" /\ row[j.dep].st # "CANCELLED" ->
            proc' = [proc EXCEPT ![p] = [pc |-> "build", job |-> j, obj |-> row[j.dep],
                                         mode |-> "direct", ctr |-> 0]]
  /\ UNCHANGED <<row, direct, fixes, tracked, ctr, live, allowed, livePlan, ops>>

Newer(d) == {e \in Dep : e > d /\ row[e].st \notin Terminal \cup {"none"}}

\* A newer row that is not terminal: this one yields.
Supersede(p) ==
  LET d == proc[p].job.dep
  IN /\ Busy(p, "start") /\ Newer(d) # {}
     /\ row' = SaveStatus(d, "INACTIVE")
     /\ Done(p)
     /\ UNCHANGED <<direct, fixes, tracked, queue, ctr, live, allowed, livePlan, ops>>

\* Faulty: every task skips the review; the rollback flag is not read; an
\* unknown mode.
ModeNoReview(d, skip) == IF d \in direct THEN "direct" ELSE "staged"
ModeNoRollback(d, skip) == IF skip THEN "staged" ELSE "review"
ModeUnknown(d, skip) == IF d \in direct THEN "direct" ELSE IF skip THEN "hold" ELSE "review"

Mode(d, skip) == IF d \in direct THEN "direct" ELSE IF skip THEN "staged" ELSE "review"

Proceed(p) ==
  LET j == proc[p].job
      m == Mode(j.dep, j.skip)
  IN /\ Busy(p, "start") /\ Newer(j.dep) = {}
     /\ proc' = [proc EXCEPT ![p].mode = m,
                             ![p].pc = IF m = "review" THEN "analyse" ELSE "build"]
     /\ UNCHANGED <<row, direct, fixes, tracked, queue, ctr, live, allowed, livePlan, ops>>

\* run_analysis_only() pauses at REVIEW without looking at the row again.
AnalysisDone(p) ==
  /\ Busy(p, "analyse")
  /\ row' = SaveStatus(proc[p].job.dep, "REVIEW")
  /\ Done(p)
  /\ UNCHANGED <<direct, fixes, tracked, queue, ctr, live, allowed, livePlan, ops>>

\* Faulty: the hand-off to the deployment without _abort_if_cancelled's return.
BuildDoneNoAbort(p) ==
  /\ Busy(p, "build")
  /\ proc' = [proc EXCEPT ![p].pc = "create", ![p].obj = row[proc[p].job.dep]]
  /\ UNCHANGED <<row, direct, fixes, tracked, queue, ctr, live, allowed, livePlan, ops>>

\* The build ends; _abort_if_cancelled refreshes the copy at the hand-off.
BuildDone(p) ==
  LET d == proc[p].job.dep
  IN /\ Busy(p, "build")
     /\ IF row[d].st = "CANCELLED" THEN Done(p)
        ELSE proc' = [proc EXCEPT ![p].pc = "create", ![p].obj = row[d]]
     /\ UNCHANGED <<row, direct, fixes, tracked, queue, ctr, live, allowed, livePlan, ops>>

\* The adapter cuts over at once: a direct deployment, or a green that
\* the platform's auto-promotion puts live after the hold period.
CreateLive(p) ==
  /\ Busy(p, "create")
  /\ proc[p].mode = "direct" \/ "hold" \in Ops
  /\ \E c \in FreeCtr :
       /\ ctr' = [Removed({live}) EXCEPT ![c] = [st |-> "up", owner |-> proc[p].job.dep]]
       /\ live' = c
       /\ proc' = [proc EXCEPT ![p].pc = "record", ![p].ctr = c]
  /\ UNCHANGED <<row, direct, fixes, tracked, queue, allowed, livePlan, ops>>

\* The adapter holds a green container for staging.
CreateGreen(p) ==
  /\ Busy(p, "create") /\ proc[p].mode = "staged"
  /\ \E c \in FreeCtr :
       /\ ctr' = [ctr EXCEPT ![c] = [st |-> "up", owner |-> proc[p].job.dep]]
       /\ proc' = [proc EXCEPT ![p].pc = "record", ![p].ctr = c]
  /\ UNCHANGED <<row, direct, fixes, tracked, queue, live, allowed, livePlan, ops>>

\* _resolve_live_container(): the container, or if it is gone the canonical one.
Resolved(c) == IF ~Exists(c) /\ Exists(live) THEN live ELSE c

\* HEALTH_CHECK and the container id are saved whatever the row says by now;
\* a container that is the canonical one counts as promoted.
Record(p) ==
  LET d == proc[p].job.dep
      c == Resolved(proc[p].ctr)
      new == [row[d] EXCEPT !.st = "HEALTH_CHECK", !.green = c]
  IN /\ Busy(p, "record")
     /\ row' = Save(d, new, "HEALTH_CHECK")
     /\ proc' = [proc EXCEPT ![p].pc = "refresh", ![p].obj = new, ![p].ctr = c,
                             ![p].mode = IF c = live THEN "direct" ELSE @]
     /\ UNCHANGED <<direct, fixes, tracked, queue, ctr, live, allowed, livePlan, ops>>

\* refresh_from_db(): whoever wrote the row since, its copy shows it.
Refresh(p) ==
  /\ Busy(p, "refresh")
  /\ proc' = [proc EXCEPT ![p].pc = "wait", ![p].obj = row[proc[p].job.dep]]
  /\ UNCHANGED <<row, direct, fixes, tracked, queue, ctr, live, allowed, livePlan, ops>>

\* Healthy: staged, unless the copy already showed the row ACTIVE.
WaitOk(p) ==
  /\ Busy(p, "wait") /\ Up(proc[p].ctr)
  /\ Goto(p, IF proc[p].mode = "staged" /\ proc[p].obj.st # "ACTIVE"
               THEN "cancel_staged" ELSE "activate")
  /\ UNCHANGED <<row, direct, fixes, tracked, queue, ctr, live, allowed, livePlan, ops>>

\* The addon probe fails: the whole copy is saved as FAILED, then it raises.
AddonFails(p) ==
  /\ Busy(p, "wait") /\ "fault" \in Ops
  /\ row' = Save(proc[p].job.dep, [proc[p].obj EXCEPT !.st = "FAILED"], "FAILED")
  /\ Goto(p, "fail_read")
  /\ UNCHANGED <<direct, fixes, tracked, queue, ctr, live, allowed, livePlan, ops>>

\* _cancel_previous_staged(): other STAGED and HEALTH_CHECK rows are cancelled
\* and their containers removed; nothing happens when Docker is unreachable.
CancelPreviousStaged(p) ==
  LET previous == {e \in Dep \ {proc[p].job.dep} : row[e].st \in {"STAGED", "HEALTH_CHECK"}}
  IN /\ Busy(p, "cancel_staged")
     /\ \/ /\ row' = [e \in Dep |-> IF e \in previous THEN [row[e] EXCEPT !.st = "CANCELLED"]
                                    ELSE row[e]]
           /\ ctr' = Removed(UNION {IdsOf(row[e]) : e \in previous})
        \/ "nodocker" \in Ops /\ UNCHANGED <<row, ctr>>
     /\ Goto(p, "stage")
     /\ UNCHANGED <<direct, fixes, tracked, queue, live, allowed, livePlan, ops>>

StageSave(p) ==
  LET d == proc[p].job.dep
  IN /\ Busy(p, "stage")
     /\ row' = Save(d, [row[d] EXCEPT !.st = "STAGED", !.cid = proc[p].ctr], "STAGED")
     /\ Done(p)
     /\ UNCHANGED <<direct, fixes, tracked, queue, ctr, live, allowed, livePlan, ops>>

\* The end of _deploy_container and of _do_promote: every field of the copy.
ActiveSave(p) ==
  LET d == proc[p].job.dep
      new == [proc[p].obj EXCEPT !.st = "ACTIVE", !.cid = proc[p].ctr]
  IN /\ Busy(p, "activate")
     /\ row' = Save(d, new, "ACTIVE")
     /\ proc' = [proc EXCEPT ![p].pc = "post", ![p].obj = new]
     /\ UNCHANGED <<direct, fixes, tracked, queue, ctr, live, allowed, livePlan, ops>>

\* The log lines after it, and the monitor of a deployment (not of a promotion).
PostSave(p) ==
  LET d == proc[p].job.dep
  IN /\ Busy(p, "post")
     /\ row' = SaveLog(d, "ACTIVE")
     /\ queue' = IF proc[p].mode = "promote" THEN queue
                 ELSE queue \cup {Monitor(d, proc[p].ctr)}
     /\ Done(p)
     /\ UNCHANGED <<direct, fixes, tracked, ctr, live, allowed, livePlan, ops>>

\* The clone, build, container creation or health wait raises.
WorkFails(p) ==
  /\ proc[p].pc \in {"analyse", "build", "create", "wait"}
  /\ "fault" \in Ops \/ (Busy(p, "wait") /\ ~Up(proc[p].ctr))
  /\ Goto(p, "fail_read")
  /\ UNCHANGED <<row, direct, fixes, tracked, queue, ctr, live, allowed, livePlan, ops>>

\* A Docker or connection error of smart_deploy_task: Celery retries the message.
TransientRetry(p) ==
  /\ proc[p].pc \in {"analyse", "build", "create", "wait"} /\ proc[p].job.kind = "smart"
  /\ Spend("transient")
  /\ queue' = queue \cup {proc[p].job}
  /\ Done(p)
  /\ UNCHANGED <<row, direct, fixes, tracked, ctr, live, allowed, livePlan>>

\* _handle_failure(): reads the row again, talks to GitHub ...
FailRead(p) ==
  LET d == proc[p].job.dep
  IN /\ Busy(p, "fail_read")
     /\ IF row[d].st = "CANCELLED" THEN Done(p)
        ELSE proc' = [proc EXCEPT ![p].pc = "fail_save", ![p].obj = row[d]]
     /\ UNCHANGED <<row, direct, fixes, tracked, queue, ctr, live, allowed, livePlan, ops>>

\* ... and saves every field as FAILED, then removes the containers it names.
FailSave(p) ==
  LET obj == proc[p].obj
  IN /\ Busy(p, "fail_save")
     /\ row' = Save(proc[p].job.dep, [obj EXCEPT !.st = "FAILED"], "FAILED")
     /\ ctr' = Removed(IdsOf(obj))
     /\ Done(p)
     /\ UNCHANGED <<direct, fixes, tracked, queue, live, allowed, livePlan, ops>>

---------------------------------------------------------------------------
(* _post_deploy_monitor: 30 seconds with a copy read at the start *)

Crashed(c) == ~Up(c) /\ (Exists(c) \/ ~Up(live))

\* Healthy to the end: log lines are saved with the copy's status.
WatchOk(p) ==
  /\ Busy(p, "watch") /\ ~Crashed(proc[p].job.ctr)
  /\ row' = SaveLog(proc[p].job.dep, proc[p].obj.st)
  /\ Done(p)
  /\ UNCHANGED <<direct, fixes, tracked, queue, ctr, live, allowed, livePlan, ops>>

\* A crash: a log line with the old copy, then the copy is refreshed.
WatchCrash(p) ==
  LET d == proc[p].job.dep
  IN /\ Busy(p, "watch") /\ Crashed(proc[p].job.ctr)
     /\ row' = SaveLog(d, proc[p].obj.st)
     /\ proc' = [proc EXCEPT ![p].pc = "diagnose", ![p].obj = row'[d]]
     /\ UNCHANGED <<direct, fixes, tracked, queue, ctr, live, allowed, livePlan, ops>>

\* After the diagnosis: FAILED, every field of the copy; at the cap of automatic
\* fixes a log line with the copy's status comes first.
DiagnoseFail(p) ==
  /\ Busy(p, "diagnose")
  /\ \E memSt \in {"FAILED", proc[p].obj.st} :
       row' = Save(proc[p].job.dep, [proc[p].obj EXCEPT !.st = "FAILED"], memSt)
  /\ Done(p)
  /\ UNCHANGED <<direct, fixes, tracked, queue, ctr, live, allowed, livePlan, ops>>

\* Below the cap: the log line, FAILED, and a new row with its task.
DiagnoseFix(p) ==
  LET n == NextRow
  IN /\ Busy(p, "diagnose") /\ "autofix" \in Ops
     /\ n \in Dep /\ Cardinality(fixes) < MaxFixes
     /\ row' = [Save(proc[p].job.dep, [proc[p].obj EXCEPT !.st = "FAILED"], proc[p].obj.st)
                  EXCEPT ![n].st = "QUEUED"]
     /\ fixes' = fixes \cup {n} /\ tracked' = tracked \cup {n} /\ allowed' = allowed \cup {n}
     /\ queue' = queue \cup {Smart(n, TRUE)}
     /\ Done(p)
     /\ UNCHANGED <<direct, ctr, live, livePlan, ops>>

---------------------------------------------------------------------------
(* The rest of the platform *)

\* The health webhook activates every HEALTH_CHECK row, one after another, so
\* the last one stays ACTIVE.
HealthHook ==
  LET checking == {d \in Dep : row[d].st = "HEALTH_CHECK"}
  IN /\ Spend("healthhook")
     /\ \E last \in checking :
          row' = [d \in Dep |->
                    IF d = last THEN [row[d] EXCEPT !.st = "ACTIVE"]
                    ELSE IF d \in checking \/ row[d].st = "ACTIVE"
                         THEN [row[d] EXCEPT !.st = "INACTIVE"] ELSE row[d]]
     /\ UNCHANGED <<direct, fixes, tracked, queue, proc, ctr, live, allowed, livePlan>>

\* Faulty: the restored message skips the review.
QueueRestoreSkip(d) ==
  /\ Spend("requeue") /\ row[d].st = "QUEUED"
  /\ queue' = queue \cup {Smart(d, TRUE)}
  /\ tracked' = tracked \cup {d}
  /\ UNCHANGED <<row, direct, fixes, proc, ctr, live, allowed, livePlan>>

\* recover_stalled_queued_deployments(): after a platform update, publishes a
\* QUEUED row's task again unless its stored task id is known to be running.
QueueRestore(d) ==
  /\ Spend("requeue") /\ row[d].st = "QUEUED"
  /\ ~(d \in tracked /\ \E p \in Procs : proc[p].job.kind = "smart" /\ proc[p].job.dep = d)
  /\ queue' = queue \cup {Smart(d, d \in direct)}
  /\ tracked' = tracked \cup {d}
  /\ UNCHANGED <<row, direct, fixes, proc, ctr, live, allowed, livePlan>>

\* A container exits.
Dies(c) ==
  /\ Spend("die") /\ Up(c)
  /\ ctr' = [ctr EXCEPT ![c].st = "exited"]
  /\ UNCHANGED <<row, direct, fixes, tracked, queue, proc, live, allowed, livePlan>>

\* A worker dies in a task: CELERY_TASK_ACKS_LATE redelivers the message, but
\* a killed child loses it (no reject_on_worker_lost).
WorkerCrash(p) ==
  /\ Spend("crash") /\ proc[p].pc # "idle" /\ proc[p].job.kind \in TaskKinds
  /\ queue' \in {queue, queue \cup {proc[p].job}}
  /\ Done(p)
  /\ UNCHANGED <<row, direct, fixes, tracked, ctr, live, allowed, livePlan>>

PlanEnds ==
  /\ livePlan /\ livePlan' = FALSE
  /\ UNCHANGED <<row, direct, fixes, tracked, queue, proc, ctr, live, allowed, ops>>

---------------------------------------------------------------------------
\* What a busy process does next.
Step(p) ==
  \/ TriggerCreate(p)
  \/ CancelCommit(p) \/ ApproveCommit(p) \/ RetryCommit(p)
  \/ SweepCommit(p) \/ ReapCommit(p)
  \/ PromoteCut(p) \/ PromoteFails(p)
  \/ Supersede(p) \/ Proceed(p) \/ AnalysisDone(p) \/ BuildDone(p)
  \/ CreateLive(p) \/ CreateGreen(p) \/ Record(p) \/ Refresh(p) \/ WaitOk(p) \/ AddonFails(p)
  \/ CancelPreviousStaged(p) \/ StageSave(p) \/ ActiveSave(p) \/ PostSave(p)
  \/ WorkFails(p) \/ FailRead(p) \/ FailSave(p)
  \/ WatchOk(p) \/ WatchCrash(p) \/ DiagnoseFail(p) \/ DiagnoseFix(p)

Environment ==
  \/ \E p \in Procs : TriggerCheck(p) \/ WorkerCrash(p) \/ TransientRetry(p)
  \/ Push
  \/ \E d \in Dep : Rollback(d) \/ QueueRestore(d)
  \/ \E p \in Procs, k \in RequestKinds, d \in Dep : Read(p, k, d)
  \/ \E S \in SUBSET Dep : BulkCancel(S)
  \/ HealthHook
  \/ \E c \in Ctr : Dies(c)
  \/ PlanEnds

Next ==
  \/ \E p \in Procs : Step(p)
  \/ \E p \in Procs : \E j \in queue : Take(p, j)
  \/ Environment

Spec == Init /\ [][Next]_vars

---------------------------------------------------------------------------
(* Fairness.  A busy process runs on: its next step is taken (a container   *)
(* that neither comes up nor fails does not exist: the health waits have    *)
(* timeouts).  Celery beat starts the sweeper and the reaper every 15       *)
(* minutes for as long as the platform runs: the work queue is FIFO, so an  *)
(* entry that finds a free worker again and again is served (SF, not WF:    *)
(* the workers are busy in between).  A plan ends or is swept.              *)
(* Operators, webhooks and mishaps promise nothing.                         *)

Fairness ==
  /\ \A p \in Procs : WF_vars(Step(p))
  /\ \A d \in Dep : SF_vars(\E p \in Procs : Read(p, "sweep", d))
  /\ \A d \in Dep : SF_vars(\E p \in Procs : Read(p, "reap", d))
  /\ SF_vars(\E p \in Procs, j \in queue : Take(p, j))
  /\ WF_vars(PlanEnds)

FairSpec == Spec /\ Fairness

---------------------------------------------------------------------------
(* Properties *)

\* Every variable stays in its domain.
TypeOK ==
  /\ row \in [Dep -> Row]
  /\ direct \subseteq Dep /\ fixes \subseteq Dep /\ tracked \subseteq Dep /\ allowed \subseteq Dep
  /\ queue \subseteq Message
  /\ proc \in [Procs -> [pc : PCs, job : Job, obj : Row, mode : Modes, ctr : 0..NCtr]]
  /\ ctr \in [Ctr -> [st : {"free", "up", "exited", "gone"}, owner : 0..NDep]]
  /\ live \in 0..NCtr
  /\ livePlan \in BOOLEAN
  /\ ops \in 0..MaxOps

\* At most one row of a service is ACTIVE, whoever saves whichever stale copy
\* (Deployment.save() is the only place that demotes the others).
OneActive == \A d, e \in Dep : row[d].st = "ACTIVE" /\ row[e].st = "ACTIVE" => d = e

\* A deployment that asked for a review runs no container and reaches no state
\* past the review before somebody approved it: not through a retry, a
\* redelivered or restored message, a resumed build or a webhook.
ReviewGate ==
  /\ \A d \in Dep : row[d].st \in {"BUILDING", "HEALTH_CHECK", "STAGED", "ACTIVE"} => d \in allowed
  /\ \A c \in Ctr : ctr[c].st # "free" => ctr[c].owner \in allowed

\* A cancelled row comes back only through retry(), through a process that
\* held a copy from before the cancellation, or through a deployment that had
\* passed the build hand-off (it does not look at the status its refresh reads):
\* a task that starts, or reaches the hand-off, after the cancellation never
\* revives the row.
NoRevival ==
  [][\A d \in Dep :
       row[d].st = "CANCELLED" /\ row'[d].st \notin {"CANCELLED", "FAILED"} =>
         \E p \in Procs :
           /\ proc[p].pc # "idle" /\ proc[p].job.dep = d
           /\ \/ proc[p].obj.st # "CANCELLED"
              \/ proc[p].pc \in {"stage", "activate"}
              \/ proc[p].job.kind = "retry" /\ row'[d].st = "QUEUED"]_vars

\* A rollback is never held for a human: no review, no staging, even when its
\* message is restored, retried or redelivered.
RollbackNeverHeld == \A d \in direct : row[d].st \notin {"REVIEW", "STAGED"}

\* No row stays in flight for ever: lost messages, dead workers and parked
\* plans all end with the sweeper, whatever the row's tasks were doing.
InFlight(d) == row[d].st \in {"QUEUED", "REVIEW", "BUILDING", "HEALTH_CHECK"}
NoGhostRows == \A d \in Dep : InFlight(d) ~> ~InFlight(d)

\* A STAGED row whose green container is dead does not stay STAGED.
DeadGreenReaped ==
  \A d \in Dep : (row[d].st = "STAGED" /\ ~Up(row[d].green))
                   ~> (row[d].st # "STAGED" \/ Up(row[d].green))

---------------------------------------------------------------------------
(* What the documentation and the comments say, and the code does not do   *)

Quiet == queue = {} /\ \A p \in Procs : proc[p].pc = "idle"

\* docs/deployments.md: an INACTIVE row was "demoted by a newer promotion" - so
\* a row that stops being ACTIVE does so because another one is ACTIVE now.
RetiredOnlyByReplacement ==
  [][\A d \in Dep : row[d].st = "ACTIVE" /\ row'[d].st = "INACTIVE"
                      => \E e \in Dep : row'[e].st = "ACTIVE"]_vars

\* docs/deployments.md lists CANCELLED as terminal (retry() is not in the instance).
CancelledIsTerminal ==
  [][\A d \in Dep : row[d].st = "CANCELLED" => row'[d].st = "CANCELLED"]_vars

\* _deploy_docker(): "The old container keeps serving while the green candidate
\* is warming up": no step leaves the service without its live container.
LiveKeepsServing == [][Up(live) => ctr'[live'].st = "up"]_vars

\* docs/deployments.md, ACTIVE: "The deployment is the live revision".
ActiveRunsItsRevision ==
  Quiet => \A d \in Dep : row[d].st = "ACTIVE" /\ Up(row[d].cid) => ctr[row[d].cid].owner = d

=============================================================================
