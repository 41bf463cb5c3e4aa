------------------------ MODULE DeploymentsGateProofs ------------------------
(***************************************************************************)
(* What no interleaving of handlers, tasks and beat tasks gets past: the   *)
(* review of a deployment, the exemption of rollbacks from it, and a       *)
(* cancellation, for any number of rows, processes and containers and any  *)
(* set of Ops.                                                             *)
(*                                                                         *)
(* None of the three is inductive: each depends on what processes, and the *)
(* messages at the broker, carry along.  The invariant says what a process *)
(* at a given point of its task knows about its row.                       *)
(***************************************************************************)
EXTENDS DeploymentsProofs, FiniteSetTheorems

---------------------------------------------------------------------------
(* The invariant *)

Working(pr) == pr.pc \notin {"idle", "create_row"}
\* From here on a task runs, or goes on to run, what it has built.
PastGate    == {"build", "create", "record", "refresh", "wait", "cancel_staged", "stage", "activate"}
\* Up to here a task carries a copy that did not show its row CANCELLED.
BeforeLive  == {"start", "analyse", "build", "create", "record"}
Promotes    == {"promote", "autopromote"}
Approves    == {"approve", "autoreview"}

\* A process whose work is covered by the sets al of allowed, di of direct and us of used rows.
Covered(pr, al, di, us) ==
  /\ pr.pc = "create_row" => pr.job.kind = "trigger"
  /\ Working(pr) =>
       /\ pr.job.dep \in us
       /\ pr.job.skip \/ pr.job.kind = "resume" => pr.job.dep \in al
       /\ pr.pc \in PastGate => pr.job.dep \in al
       /\ pr.pc = "commit" /\ pr.job.kind \in Promotes => pr.job.dep \in al
       /\ pr.pc \in {"analyse", "cancel_staged", "stage"} \/ pr.mode \in {"review", "staged"}
            => pr.job.dep \notin di
       /\ pr.pc \in BeforeLive => pr.obj.st # "CANCELLED"
       /\ pr.pc = "commit" /\ pr.job.kind \in Approves => pr.obj.st = "REVIEW"

\* A message whose task is covered in the same way.
Posted(m, al, us) ==
  /\ m.dep \in us
  /\ m.skip \/ m.kind = "resume" => m.dep \in al

\* Rows are used in the order of their numbers.
Consecutive == \A d \in Used, e \in Dep : e < d => e \in Used

GateInv ==
  /\ Consecutive
  /\ direct \subseteq allowed
  /\ \A p \in Procs : Covered(proc[p], allowed, direct, Used)
  /\ \A m \in queue : Posted(m, allowed, Used)
  /\ ReviewGate
  /\ RollbackNeverHeld

---------------------------------------------------------------------------
(* How rows are used *)

LEMMA UsedFinite == IsFiniteSet(Used) /\ Cardinality(Used) \in Nat /\ NextRow \in Nat \ {0}
<1>1. IsFiniteSet(Dep)
  BY FS_Interval, SizesAssumption DEF Dep
<1>2. Used \in SUBSET Dep
  BY DEF Used
<1>. QED
  BY <1>1, <1>2, FS_Subset, FS_CardinalityType DEF NextRow

\* The next row is a fresh one, and leaves no gap.
LEMMA NextRowFresh ==
  ASSUME Consecutive, NextRow \in Dep
  PROVE  NextRow \notin Used /\ \A e \in Dep : e < NextRow => e \in Used
<1>. DEFINE n == Cardinality(Used)
<1>a. Used \in SUBSET Dep /\ IsFiniteSet(Used) /\ n \in Nat /\ NextRow = n + 1 /\ Dep \subseteq Nat
  BY UsedFinite DEF Used, NextRow, Dep
<1>1. NextRow \notin Used
  <2>. SUFFICES ASSUME NextRow \in Used PROVE FALSE
    OBVIOUS
  <2>1. 1 .. (n + 1) \in SUBSET Used
    <3>. SUFFICES ASSUME NEW e \in 1 .. (n + 1) PROVE e \in Used
      OBVIOUS
    <3>1. e \in Dep /\ (e = NextRow \/ e < NextRow)
      BY <1>a, SizesAssumption DEF Dep
    <3>. QED
      BY <3>1 DEF Consecutive
  <2>2. Cardinality(1 .. (n + 1)) = n + 1
    BY <1>a, FS_Interval
  <2>3. Cardinality(1 .. (n + 1)) <= n
    BY <1>a, <2>1, FS_Subset
  <2>. QED
    BY <1>a, <2>2, <2>3
<1>2. ASSUME NEW e \in Dep, e < NextRow PROVE e \in Used
  <2>. SUFFICES ASSUME e \notin Used PROVE FALSE
    OBVIOUS
  <2>1. e \in Nat /\ 1 <= e /\ e <= n
    BY <1>2, <1>a DEF Dep
  <2>2. Used \in SUBSET (1 .. (e - 1))
    BY <1>a, <2>1 DEF Consecutive, Dep
  <2>3. IsFiniteSet(1 .. (e - 1)) /\ Cardinality(1 .. (e - 1)) = e - 1
    BY <2>1, FS_Interval
  <2>4. n <= e - 1
    BY <2>2, <2>3, FS_Subset
  <2>. QED
    BY <1>a, <2>1, <2>4
<1>. QED
  BY <1>1, <1>2

---------------------------------------------------------------------------
(* What a step may do to the status of a row, and who may do it *)

At(pc, d)      == \E p \in Procs : proc[p].pc = pc /\ proc[p].job.dep = d
Commit(K, d)   == \E p \in Procs : proc[p].pc = "commit" /\ proc[p].job.kind \in K /\ proc[p].job.dep = d
WorkedOn(d)    == d \in Used \/ \E p \in Procs : Working(proc[p]) /\ proc[p].job.dep = d

RowChange(d) ==
  \/ row'[d].st = row[d].st
  \/ row'[d].st \in {"FAILED", "CANCELLED"} /\ WorkedOn(d)
  \/ row'[d].st = "INACTIVE" /\ (row[d].st \in {"ACTIVE", "HEALTH_CHECK"} \/ At("start", d))
  \/ row'[d].st = "QUEUED" /\ (d = NextRow \/ Commit({"retry"}, d))
  \/ row'[d].st = "REVIEW" /\ At("analyse", d)
  \/ row'[d].st = "BUILDING" /\ Commit(Approves, d) /\ d \in allowed'
  \/ row'[d].st = "HEALTH_CHECK" /\ At("record", d)
  \/ row'[d].st = "STAGED" /\ At("stage", d)
  \/ row'[d].st = "ACTIVE" /\ (row[d].st = "HEALTH_CHECK" \/ At("activate", d))

\* A save changes the status of its row and may demote ACTIVE ones.
LEMMA SaveChanges ==
  ASSUME TypeOK, NEW d \in Dep, NEW new \in Row, NEW memSt, NEW saved,
         saved = Save(d, new, memSt)
  PROVE  /\ saved[d] = new
         /\ \A e \in Dep \ {d} : saved[e] = row[e] \/ (saved[e].st = "INACTIVE" /\ row[e].st = "ACTIVE")
<1>1. \A e \in Dep : [row[e] EXCEPT !.st = "INACTIVE"].st = "INACTIVE"
  BY DEF TypeOK, Row
<1>. QED
  BY <1>1 DEF Save

LEMMA SaveStatusChanges ==
  ASSUME TypeOK, NEW d \in Dep, NEW s \in Status, NEW saved, saved = SaveStatus(d, s)
  PROVE  /\ saved[d].st = s
         /\ \A e \in Dep \ {d} : saved[e] = row[e] \/ (saved[e].st = "INACTIVE" /\ row[e].st = "ACTIVE")
<1>. DEFINE new == [row[d] EXCEPT !.st = s]
<1>1. new \in Row /\ new.st = s
  BY WithStatus DEF TypeOK
<1>2. saved = Save(d, new, s)
  BY DEF SaveStatus
<1>. HIDE DEF new
<1>. QED
  BY <1>1, <1>2, SaveChanges

\* A whole copy saved with another status.
LEMMA CopySaveChanges ==
  ASSUME TypeOK, NEW d \in Dep, NEW o \in Row, NEW s \in Status, NEW memSt \in Status, NEW saved,
         saved = Save(d, [o EXCEPT !.st = s], memSt)
  PROVE  /\ saved[d].st = s
         /\ \A e \in Dep \ {d} : saved[e] = row[e] \/ (saved[e].st = "INACTIVE" /\ row[e].st = "ACTIVE")
<1>1. [o EXCEPT !.st = s] \in Row /\ [o EXCEPT !.st = s].st = s
  BY WithStatus
<1>2. /\ saved[d] = [o EXCEPT !.st = s]
      /\ \A e \in Dep \ {d} : saved[e] = row[e] \/ (saved[e].st = "INACTIVE" /\ row[e].st = "ACTIVE")
  BY <1>1, SaveChanges
<1>. QED
  BY <1>1, <1>2

LEMMA SaveLogChanges ==
  ASSUME TypeOK, NEW d \in Dep, NEW memSt, NEW saved, saved = SaveLog(d, memSt)
  PROVE  \A e \in Dep : saved[e] = row[e] \/ (saved[e].st = "INACTIVE" /\ row[e].st = "ACTIVE")
<1>1. row[d] \in Row
  BY DEF TypeOK
<1>2. saved = Save(d, row[d], memSt)
  BY DEF SaveLog
<1>. QED
  BY <1>1, <1>2, SaveChanges

LEMMA CreatedChanges ==
  ASSUME TypeOK, NEW n \in Dep
  PROVE  /\ Created(n)[n].st = "QUEUED"
         /\ \A e \in Dep \ {n} : Created(n)[e] = row[e]
  BY DEF Created, TypeOK, Row

LEMMA RowStep ==
  ASSUME TypeOK, NEW p \in Procs, Step(p)
  PROVE  \A e \in Dep : RowChange(e)
<1>. DEFINE d == proc[p].job.dep
            obj == proc[p].obj
<1>a. d \in Dep /\ obj \in Row /\ row[d] \in Row /\ proc[p].ctr \in 0..NCtr /\ obj.st \in Status
  BY ProcessParts DEF TypeOK, Row
<1>b. \A e \in Dep : row[e] \in Row
  BY DEF TypeOK
<1>1. CASE UNCHANGED row
  BY <1>1 DEF RowChange
<1>2. CASE TriggerCreate(p)
  BY <1>2, CreatedChanges DEF TriggerCreate, RowChange
<1>3. CASE CancelCommit(p) \/ AddonFails(p) \/ FailSave(p)
  <2>1. Working(proc[p])
    BY <1>3 DEF CancelCommit, Commits, AddonFails, FailSave, Busy, Working
  <2>2. /\ row'[d].st \in {"FAILED", "CANCELLED"}
        /\ \A e \in Dep \ {d} : row'[e] = row[e] \/ (row'[e].st = "INACTIVE" /\ row[e].st = "ACTIVE")
    <3>1. PICK s \in {"FAILED", "CANCELLED"} : row' = Save(d, [obj EXCEPT !.st = s], s)
      BY <1>3 DEF CancelCommit, AddonFails, FailSave
    <3>. QED
      BY <3>1, <1>a, CopySaveChanges, StatusNames
  <2>. QED
    BY <2>1, <2>2 DEF RowChange, WorkedOn
<1>4. CASE ApproveCommit(p)
  <2>1. Commit(Approves, d) /\ d \in allowed'
    BY <1>4 DEF ApproveCommit, Commits, Commit, Busy, Approves
  <2>. QED
    BY <1>4, <1>a, <2>1, SaveStatusChanges, StatusNames DEF ApproveCommit, RowChange
<1>5. CASE RetryCommit(p)
  <2>1. Commit({"retry"}, d)
    BY <1>5 DEF RetryCommit, Commits, Commit, Busy
  <2>. QED
    BY <1>5, <1>a, <2>1, SaveStatusChanges, StatusNames DEF RetryCommit, RowChange
<1>6. CASE Supersede(p)
  <2>1. At("start", d)
    BY <1>6 DEF Supersede, At, Busy
  <2>. QED
    BY <1>6, <1>a, <2>1, SaveStatusChanges, StatusNames DEF Supersede, RowChange
<1>7. CASE AnalysisDone(p)
  <2>1. At("analyse", d)
    BY <1>7 DEF AnalysisDone, At, Busy
  <2>. QED
    BY <1>7, <1>a, <2>1, SaveStatusChanges, StatusNames DEF AnalysisDone, RowChange
<1>8. CASE SweepCommit(p) \/ ReapCommit(p) \/ PromoteFails(p)
  <2>1. Working(proc[p])
    BY <1>8 DEF SweepCommit, ReapCommit, PromoteFails, Commits, Busy, Working
  <2>2. CASE UNCHANGED row
    BY <2>2, <1>1
  <2>3. CASE row' = SaveStatus(d, "FAILED") \/ row' = SaveStatus(d, "CANCELLED")
    BY <2>3, <2>1, <1>a, SaveStatusChanges, StatusNames DEF RowChange, WorkedOn
  <2>. QED
    BY <1>8, <2>2, <2>3 DEF SweepCommit, ReapCommit, PromoteFails
<1>9. CASE PromoteCut(p) \/ Proceed(p) \/ BuildDone(p) \/ CreateLive(p) \/ CreateGreen(p) \/ Refresh(p) \/ WaitOk(p)
           \/ WorkFails(p) \/ FailRead(p)
  BY <1>9, <1>1 DEF PromoteCut, Proceed, BuildDone, CreateLive, CreateGreen, Refresh, WaitOk, WorkFails, FailRead
<1>10. CASE Record(p)
  <2>. DEFINE new == [row[d] EXCEPT !.st = "HEALTH_CHECK", !.green = Resolved(proc[p].ctr)]
  <2>1. Resolved(proc[p].ctr) \in 0..NCtr
    BY <1>a DEF Resolved, TypeOK
  <2>2. new \in Row /\ new.st = "HEALTH_CHECK"
    BY <1>a, <2>1, StatusNames DEF Row
  <2>3. row' = Save(d, new, "HEALTH_CHECK") /\ At("record", d)
    BY <1>10 DEF Record, At, Busy
  <2>. HIDE DEF new
  <2>. QED
    BY <1>a, <2>2, <2>3, SaveChanges DEF RowChange
<1>11. CASE CancelPreviousStaged(p)
  <2>1. \A e \in Dep : [row[e] EXCEPT !.st = "CANCELLED"].st = "CANCELLED"
    BY <1>b DEF Row
  <2>2. ASSUME NEW e \in Dep
        PROVE  row'[e] = row[e] \/ (row'[e].st = "CANCELLED" /\ row[e].st \in {"STAGED", "HEALTH_CHECK"})
    <3>1. CASE UNCHANGED row
      BY <3>1
    <3>2. CASE ~UNCHANGED row
      BY <1>11, <2>1, <3>2 DEF CancelPreviousStaged
    <3>. QED
      BY <3>1, <3>2
  <2>. QED
    BY <2>2 DEF RowChange, WorkedOn, Used
<1>12. CASE StageSave(p)
  <2>. DEFINE new == [row[d] EXCEPT !.st = "STAGED", !.cid = proc[p].ctr]
  <2>1. new \in Row /\ new.st = "STAGED"
    BY <1>a, StatusNames DEF Row
  <2>2. row' = Save(d, new, "STAGED") /\ At("stage", d)
    BY <1>12 DEF StageSave, At, Busy
  <2>. HIDE DEF new
  <2>. QED
    BY <1>a, <2>1, <2>2, SaveChanges DEF RowChange
<1>13. CASE ActiveSave(p)
  <2>. DEFINE new == [obj EXCEPT !.st = "ACTIVE", !.cid = proc[p].ctr]
  <2>1. new \in Row /\ new.st = "ACTIVE"
    BY <1>a, StatusNames DEF Row
  <2>2. row' = Save(d, new, "ACTIVE") /\ At("activate", d)
    BY <1>13 DEF ActiveSave, At, Busy
  <2>. HIDE DEF new
  <2>. QED
    BY <1>a, <2>1, <2>2, SaveChanges DEF RowChange
<1>14. CASE PostSave(p) \/ WatchOk(p) \/ WatchCrash(p)
  BY <1>14, <1>a, SaveLogChanges DEF PostSave, WatchOk, WatchCrash, RowChange
<1>15. CASE DiagnoseFail(p)
  <2>1. Working(proc[p])
    BY <1>15 DEF DiagnoseFail, Busy, Working
  <2>2. PICK memSt \in Status : row' = Save(d, [obj EXCEPT !.st = "FAILED"], memSt)
    BY <1>15, <1>a, StatusNames DEF DiagnoseFail
  <2>3. /\ row'[d].st = "FAILED"
        /\ \A e \in Dep \ {d} : row'[e] = row[e] \/ (row'[e].st = "INACTIVE" /\ row[e].st = "ACTIVE")
    <3>. HIDE DEF d, obj
    <3>. QED
      BY <1>a, <2>2, CopySaveChanges, StatusNames
  <2>. QED
    BY <2>1, <2>3 DEF RowChange, WorkedOn
<1>16. CASE DiagnoseFix(p)
  <2>. DEFINE saved == Save(d, [obj EXCEPT !.st = "FAILED"], obj.st)
  <2>1. saved \in [Dep -> Row]
    BY <1>a, SaveType, WithStatus, StatusNames
  <2>2. /\ saved[d].st = "FAILED"
        /\ \A e \in Dep \ {d} : saved[e] = row[e] \/ (saved[e].st = "INACTIVE" /\ row[e].st = "ACTIVE")
    BY <1>a, CopySaveChanges, StatusNames
  <2>3. row' = [saved EXCEPT ![NextRow].st = "QUEUED"] /\ NextRow \in Dep /\ Working(proc[p])
    BY <1>16 DEF DiagnoseFix, Busy, Working
  <2>. HIDE DEF saved
  <2>4. row'[NextRow].st = "QUEUED" /\ \A e \in Dep \ {NextRow} : row'[e] = saved[e]
    BY <2>1, <2>3 DEF Row
  <2>. QED
    BY <2>2, <2>3, <2>4 DEF RowChange, WorkedOn
<1>. QED
  BY <1>2, <1>3, <1>4, <1>5, <1>6, <1>7, <1>8, <1>9, <1>10, <1>11, <1>12, <1>13, <1>14, <1>15, <1>16 DEF Step

LEMMA RowEnvironment ==
  ASSUME TypeOK, Environment
  PROVE  \A e \in Dep : RowChange(e)
<1>b. \A e \in Dep : /\ row[e] \in Row /\ [row[e] EXCEPT !.st = "CANCELLED"].st = "CANCELLED"
                     /\ [row[e] EXCEPT !.st = "INACTIVE"].st = "INACTIVE"
                     /\ [row[e] EXCEPT !.st = "FAILED"].st = "FAILED"
                     /\ [row[e] EXCEPT !.st = "ACTIVE"].st = "ACTIVE"
  BY DEF TypeOK, Row
<1>1. CASE UNCHANGED row
  BY <1>1 DEF RowChange
<1>2. ASSUME NEW p \in Procs, TriggerCheck(p) PROVE \A e \in Dep : RowChange(e)
  <2>1. ASSUME NEW e \in Dep
        PROVE  \/ row'[e] = row[e]
               \/ row'[e].st \in {"FAILED", "CANCELLED"} /\ row[e].st \in InProgress
    <3>1. PICK stuck \in SUBSET {d \in Dep : "slow" \in Ops /\ row[d].st = "BUILDING"} :
            row' = AfterStaleCancel(stuck)
      BY <1>2 DEF TriggerCheck
    <3>. QED
      BY <3>1, <1>b DEF AfterStaleCancel, InProgress
  <2>. QED
    BY <2>1 DEF RowChange, WorkedOn, Used, InProgress
<1>3. ASSUME NEW p \in Procs, WorkerCrash(p) \/ TransientRetry(p) PROVE \A e \in Dep : RowChange(e)
  BY <1>3, <1>1 DEF WorkerCrash, TransientRetry
<1>4. CASE Push \/ \E d \in Dep : Rollback(d)
  <2>1. NextRow \in Dep /\ row' = Created(NextRow)
    BY <1>4 DEF Push, Rollback
  <2>. QED
    BY <2>1, CreatedChanges DEF RowChange
<1>5. ASSUME NEW d \in Dep, QueueRestore(d) PROVE \A e \in Dep : RowChange(e)
  BY <1>5, <1>1 DEF QueueRestore
<1>6. ASSUME NEW p \in Procs, NEW k \in RequestKinds, NEW d \in Dep, Read(p, k, d)
      PROVE  \A e \in Dep : RowChange(e)
  BY <1>6, <1>1 DEF Read
<1>7. ASSUME NEW S \in SUBSET Dep, BulkCancel(S) PROVE \A e \in Dep : RowChange(e)
  <2>1. ASSUME NEW e \in Dep
        PROVE  row'[e] = row[e] \/ (row'[e].st = "CANCELLED" /\ row[e].st \in Bulkable)
    BY <1>7, <1>b DEF BulkCancel
  <2>. QED
    BY <2>1 DEF RowChange, WorkedOn, Used, Bulkable, Cancellable
<1>8. CASE HealthHook
  <2>1. ASSUME NEW e \in Dep
        PROVE  \/ row'[e] = row[e]
               \/ row'[e].st = "ACTIVE" /\ row[e].st = "HEALTH_CHECK"
               \/ row'[e].st = "INACTIVE" /\ row[e].st \in {"ACTIVE", "HEALTH_CHECK"}
    BY <1>8, <1>b DEF HealthHook
  <2>. QED
    BY <2>1 DEF RowChange
<1>9. ASSUME NEW c \in Ctr, Dies(c) PROVE \A e \in Dep : RowChange(e)
  BY <1>9, <1>1 DEF Dies
<1>10. CASE PlanEnds
  BY <1>10, <1>1 DEF PlanEnds
<1>. QED
  BY <1>2, <1>3, <1>4, <1>5, <1>6, <1>7, <1>8, <1>9, <1>10 DEF Environment

\* Every step changes statuses in one of these ways.
LEMMA RowNext ==
  ASSUME TypeOK, [Next]_vars
  PROVE  \A d \in Dep : RowChange(d)
<1>1. ASSUME NEW p \in Procs, NEW j \in queue, Take(p, j) PROVE \A d \in Dep : RowChange(d)
  BY <1>1 DEF Take, RowChange
<1>2. CASE UNCHANGED vars
  BY <1>2 DEF vars, RowChange
<1>. QED
  BY <1>1, <1>2, RowStep, RowEnvironment DEF Next

---------------------------------------------------------------------------
(* What is covered stays covered *)

\* Rows stay used, at most one is added, and no gap appears.
LEMMA UsedStep ==
  ASSUME TypeOK, GateInv, [Next]_vars
  PROVE  /\ Used \subseteq Used' /\ Used' \subseteq Used \cup {NextRow}
         /\ NextRow \in Dep => NextRow \notin Used
         /\ Consecutive'
<1>1. ASSUME NEW d \in Dep, WorkedOn(d) PROVE d \in Used
  BY <1>1 DEF WorkedOn, GateInv, Covered
<1>2. ASSUME NEW d \in Dep, NEW pc \in PCs \ {"idle", "create_row"}, At(pc, d) PROVE d \in Used
  BY <1>2 DEF At, GateInv, Covered, Working
<1>3. ASSUME NEW d \in Dep, NEW K, Commit(K, d) PROVE d \in Used
  BY <1>3 DEF Commit, GateInv, Covered, Working
<1>4. ASSUME NEW d \in Dep
      PROVE  /\ row[d].st # "none" => row'[d].st # "none"
             /\ row'[d].st # "none" => d \in Used \/ d = NextRow
  <2>1. RowChange(d)
    BY RowNext
  <2>2. At("start", d) \/ At("analyse", d) \/ At("record", d) \/ At("stage", d) \/ At("activate", d) => d \in Used
    BY <1>2 DEF PCs
  <2>3. Commit({"retry"}, d) \/ Commit(Approves, d) => d \in Used
    BY <1>3
  <2>. QED
    BY <2>1, <2>2, <2>3, <1>1 DEF RowChange, Used
<1>5. Used \subseteq Used' /\ Used' \subseteq Used \cup {NextRow}
  BY <1>4 DEF Used
<1>6. NextRow \in Dep => NextRow \notin Used /\ \A e \in Dep : e < NextRow => e \in Used
  BY NextRowFresh DEF GateInv
<1>7. Consecutive'
  <2>. SUFFICES ASSUME NEW d \in Used', NEW e \in Dep, e < d PROVE e \in Used'
    BY DEF Consecutive
  <2>1. d \in Dep /\ (d \in Used \/ d = NextRow)
    BY <1>5 DEF Used
  <2>. QED
    BY <2>1, <1>5, <1>6 DEF GateInv, Consecutive
<1>. QED
  BY <1>5, <1>6, <1>7

LEMMA CoverGrows ==
  ASSUME NEW pr, NEW al, NEW al2, NEW di, NEW di2, NEW us, NEW us2, NEW n,
         al \subseteq al2, us \subseteq us2, di2 \subseteq di \cup {n}, n \notin us,
         Covered(pr, al, di, us)
  PROVE  Covered(pr, al2, di2, us2)
  BY DEF Covered

LEMMA IdleCovered ==
  ASSUME NEW al, NEW di, NEW us
  PROVE  Covered(Idle, al, di, us)
  BY DEF Covered, Idle, Working

\* Nobody's approval is withdrawn, and only a fresh row becomes a rollback.
LEMMA HistoryStep ==
  ASSUME TypeOK, GateInv, [Next]_vars
  PROVE  allowed \subseteq allowed' /\ direct' \subseteq direct \cup {NextRow} /\ direct' \subseteq allowed'
<1>1. ASSUME NEW p \in Procs, Step(p) PROVE allowed \subseteq allowed' /\ direct' = direct
  BY <1>1 DEF Step, TriggerCreate, CancelCommit, ApproveCommit, RetryCommit, SweepCommit, ReapCommit,
       PromoteCut, PromoteFails, Supersede, Proceed, AnalysisDone, BuildDone, CreateLive, CreateGreen,
       Record, Refresh, WaitOk, AddonFails, CancelPreviousStaged, StageSave, ActiveSave, PostSave,
       WorkFails, FailRead, FailSave, WatchOk, WatchCrash, DiagnoseFail, DiagnoseFix
<1>2. ASSUME NEW p \in Procs, NEW j \in queue, Take(p, j) PROVE allowed' = allowed /\ direct' = direct
  BY <1>2 DEF Take
<1>3. CASE Environment
  <2>1. CASE \E d \in Dep : Rollback(d)
    BY <2>1 DEF Rollback, GateInv
  <2>2. CASE ~\E d \in Dep : Rollback(d)
    <3>1. allowed \subseteq allowed' /\ direct' = direct
      BY <1>3, <2>2 DEF Environment, TriggerCheck, WorkerCrash, TransientRetry, Push, QueueRestore, Read,
           BulkCancel, HealthHook, Dies, PlanEnds
    <3>. QED
      BY <3>1 DEF GateInv
  <2>. QED
    BY <2>1, <2>2
<1>4. CASE UNCHANGED vars
  BY <1>4 DEF vars, GateInv
<1>. QED
  BY <1>1, <1>2, <1>3, <1>4 DEF Next, GateInv

\* What was covered before a step is covered after it.
LEMMA CoverKept ==
  ASSUME TypeOK, GateInv, [Next]_vars
  PROVE  /\ \A p \in Procs : Covered(proc[p], allowed', direct', Used')
         /\ \A m \in queue : Posted(m, allowed', Used')
<1>1. NextRow \notin Used
  BY UsedStep DEF Used
<1>2. Used \subseteq Used' /\ allowed \subseteq allowed' /\ direct' \subseteq direct \cup {NextRow}
  BY UsedStep, HistoryStep
<1>3. ASSUME NEW p \in Procs PROVE Covered(proc[p], allowed', direct', Used')
  <2>1. Covered(proc[p], allowed, direct, Used)
    BY DEF GateInv
  <2>. QED
    BY <1>1, <1>2, <2>1, CoverGrows
<1>4. ASSUME NEW m \in queue PROVE Posted(m, allowed', Used')
  BY <1>2 DEF GateInv, Posted
<1>. QED
  BY <1>3, <1>4

\* Tasks that end, and revoked ones, leave idle processes.
LEMMA DoneCovered ==
  ASSUME TypeOK, NEW p \in Procs, NEW al, NEW di, NEW us, Done(p)
  PROVE  \A q \in Procs : proc'[q] = proc[q] \/ Covered(proc'[q], al, di, us)
  BY IdleCovered DEF TypeOK, Done

LEMMA RevokeCovered ==
  ASSUME TypeOK, NEW S, NEW P, NEW al, NEW di, NEW us, Revoke(S, P)
  PROVE  /\ \A q \in Procs : proc'[q] = proc[q] \/ Covered(proc'[q], al, di, us)
         /\ queue' \subseteq queue
  BY IdleCovered DEF Revoke

\* The next point a task reaches is covered by what it knew before.
LEMMA StepCovered ==
  ASSUME TypeOK, GateInv, NEW p \in Procs, Step(p), [Next]_vars
  PROVE  \A q \in Procs : proc'[q] = proc[q] \/ Covered(proc'[q], allowed', direct', Used')
<1>. DEFINE d == proc[p].job.dep
            Goal == \A q \in Procs : proc'[q] = proc[q] \/ Covered(proc'[q], allowed', direct', Used')
<1>a. Covered(proc[p], allowed', direct', Used') /\ proc[p] \in Process /\ d \in Dep
  BY CoverKept, ProcessParts
<1>b. proc \in [Procs -> Process]
  BY DEF TypeOK, Process
<1>1. CASE Done(p)
  BY <1>1, DoneCovered
<1>2. CASE CancelCommit(p)
  BY <1>2, RevokeCovered DEF CancelCommit
<1>3. CASE PromoteCut(p)
  <2>1. /\ proc'[p].pc = "activate" /\ proc'[p].job = proc[p].job /\ proc'[p].mode = "promote"
        /\ \A q \in Procs \ {p} : proc'[q] = proc[q]
        /\ proc[p].pc = "commit" /\ proc[p].job.kind \in Promotes
    BY <1>3, <1>b DEF PromoteCut, Process, Commits, Busy, Promotes
  <2>. QED
    BY <2>1, <1>a DEF Covered, Working, PastGate, BeforeLive
<1>4. CASE Proceed(p)
  <2>. DEFINE m == Mode(d, proc[p].job.skip)
  <2>1. /\ proc'[p].pc = IF m = "review" THEN "analyse" ELSE "build"
        /\ proc'[p].mode = m /\ proc'[p].job = proc[p].job /\ proc'[p].obj = proc[p].obj
        /\ \A q \in Procs \ {p} : proc'[q] = proc[q]
        /\ proc[p].pc = "start" /\ direct' = direct /\ allowed' = allowed
    BY <1>4, <1>b DEF Proceed, Process, Busy
  <2>2. /\ m \in {"review", "staged"} => d \notin direct
        /\ m # "review" => d \in allowed
        /\ m \in {"review", "staged", "direct"}
    BY <1>a, <2>1 DEF Mode, Covered, Working, GateInv
  <2>. HIDE DEF m
  <2>. QED
    BY <2>1, <2>2, <1>a DEF Covered, Working, PastGate, BeforeLive
<1>5. CASE BuildDone(p) \/ FailRead(p)
  <2>1. CASE Done(p)
    BY <2>1, <1>1
  <2>2. CASE ~Done(p)
    <3>1. /\ proc'[p].pc \in {"create", "fail_save"} /\ proc'[p].obj.st = row[d].st /\ row[d].st # "CANCELLED"
          /\ proc'[p].job = proc[p].job /\ proc'[p].mode = proc[p].mode
          /\ proc'[p].pc = "create" => proc[p].pc = "build"
          /\ proc[p].pc \in {"build", "fail_read"}
          /\ \A q \in Procs \ {p} : proc'[q] = proc[q]
      BY <1>5, <2>2, <1>b DEF BuildDone, FailRead, Process, Busy
    <3>. QED
      BY <3>1, <1>a DEF Covered, Working, PastGate, BeforeLive
  <2>. QED
    BY <2>1, <2>2
<1>6. CASE CreateLive(p) \/ CreateGreen(p)
  <2>1. /\ proc'[p].pc = "record" /\ proc[p].pc = "create"
        /\ proc'[p].job = proc[p].job /\ proc'[p].mode = proc[p].mode /\ proc'[p].obj = proc[p].obj
        /\ \A q \in Procs \ {p} : proc'[q] = proc[q]
    BY <1>6, <1>b DEF CreateLive, CreateGreen, Process, Busy
  <2>. QED
    BY <2>1, <1>a DEF Covered, Working, PastGate, BeforeLive
<1>7. CASE Record(p)
  <2>1. /\ proc'[p].pc = "refresh" /\ proc[p].pc = "record"
        /\ proc'[p].job = proc[p].job /\ proc'[p].mode \in {proc[p].mode, "direct"}
        /\ \A q \in Procs \ {p} : proc'[q] = proc[q]
    BY <1>7, <1>b DEF Record, Process, Busy
  <2>. QED
    BY <2>1, <1>a DEF Covered, Working, PastGate, BeforeLive
<1>8. CASE Refresh(p) \/ WaitOk(p) \/ CancelPreviousStaged(p) \/ ActiveSave(p)
  <2>1. /\ <<proc[p].pc, proc'[p].pc>> \in {<<"refresh", "wait">>, <<"wait", "cancel_staged">>, <<"wait", "activate">>,
                                            <<"cancel_staged", "stage">>, <<"activate", "post">>}
        /\ proc'[p].pc = "cancel_staged" => proc[p].mode = "staged"
        /\ proc'[p].job = proc[p].job /\ proc'[p].mode = proc[p].mode
        /\ \A q \in Procs \ {p} : proc'[q] = proc[q]
    BY <1>8, <1>b DEF Refresh, WaitOk, CancelPreviousStaged, ActiveSave, Goto, Process, Busy
  <2>. QED
    BY <2>1, <1>a DEF Covered, Working, PastGate, BeforeLive
<1>9. CASE AddonFails(p) \/ WorkFails(p) \/ WatchCrash(p)
  <2>1. /\ proc[p].pc \in {"analyse", "build", "create", "wait", "watch"} /\ proc'[p].pc \in {"fail_read", "diagnose"}
        /\ proc'[p].job = proc[p].job /\ proc'[p].mode = proc[p].mode
        /\ \A q \in Procs \ {p} : proc'[q] = proc[q]
    BY <1>9, <1>b DEF AddonFails, WorkFails, WatchCrash, Goto, Process, Busy
  <2>. QED
    BY <2>1, <1>a DEF Covered, Working, PastGate, BeforeLive
<1>. QED
  BY <1>1, <1>2, <1>3, <1>4, <1>5, <1>6, <1>7, <1>8, <1>9
     DEF Step, TriggerCreate, ApproveCommit, RetryCommit, SweepCommit, ReapCommit, PromoteFails, Supersede,
         AnalysisDone, StageSave, PostSave, FailSave, WatchOk, DiagnoseFail, DiagnoseFix

\* A delivered message starts a task that is covered as the message was.
LEMMA TakeCovered ==
  ASSUME TypeOK, GateInv, NEW p \in Procs, NEW j \in queue, Take(p, j), [Next]_vars
  PROVE  \A q \in Procs : proc'[q] = proc[q] \/ Covered(proc'[q], allowed', direct', Used')
<1>a. /\ Posted(j, allowed', Used') /\ j.dep \in Dep /\ j.kind \in TaskKinds
      /\ proc \in [Procs -> Process]
  BY CoverKept DEF TypeOK, Message, Process
<1>. DEFINE task(pc, mode) == [pc |-> pc, job |-> j, obj |-> row[j.dep], mode |-> mode, ctr |-> 0]
<1>1. CASE UNCHANGED proc
  BY <1>1
<1>2. ASSUME proc' = [proc EXCEPT ![p] = task("watch", "")]
      PROVE  \A q \in Procs : proc'[q] = proc[q] \/ Covered(proc'[q], allowed', direct', Used')
  BY <1>a, <1>2 DEF Covered, Posted, Working, PastGate, BeforeLive
<1>3. ASSUME proc' = [proc EXCEPT ![p] = task("start", "")], row[j.dep].st # "CANCELLED"
      PROVE  \A q \in Procs : proc'[q] = proc[q] \/ Covered(proc'[q], allowed', direct', Used')
  BY <1>a, <1>3 DEF Covered, Posted, Working, PastGate, BeforeLive
<1>4. ASSUME proc' = [proc EXCEPT ![p] = task("build", "direct")], row[j.dep].st # "CANCELLED", j.kind = "resume"
      PROVE  \A q \in Procs : proc'[q] = proc[q] \/ Covered(proc'[q], allowed', direct', Used')
  BY <1>a, <1>4 DEF Covered, Posted, Working, PastGate, BeforeLive
<1>5. CASE j.kind = "monitor"
  BY <1>5, <1>2 DEF Take, Start
<1>6. CASE j.kind = "smart"
  BY <1>6, <1>1, <1>3 DEF Take, Start
<1>7. CASE j.kind = "resume"
  BY <1>7, <1>1, <1>4 DEF Take, Start
<1>. QED
  BY <1>a, <1>5, <1>6, <1>7 DEF TaskKinds

LEMMA EnvironmentCovered ==
  ASSUME TypeOK, GateInv, Environment, [Next]_vars
  PROVE  \A q \in Procs : proc'[q] = proc[q] \/ Covered(proc'[q], allowed', direct', Used')
<1>. DEFINE Goal == \A q \in Procs : proc'[q] = proc[q] \/ Covered(proc'[q], allowed', direct', Used')
<1>a. proc \in [Procs -> Process]
  BY DEF TypeOK, Process
<1>b. Used \subseteq Used' /\ allowed \subseteq allowed'
  BY UsedStep, HistoryStep
<1>1. CASE UNCHANGED proc
  BY <1>1
<1>2. ASSUME NEW p \in Procs, TriggerCheck(p) PROVE Goal
  <2>. DEFINE new == [pc |-> "create_row", job |-> Request("trigger", 1), obj |-> row[1], mode |-> "", ctr |-> 0]
  <2>1. UNCHANGED proc \/ proc' = [proc EXCEPT ![p] = new]
    BY <1>2 DEF TriggerCheck, Start, Request
  <2>2. Covered(new, allowed', direct', Used')
    BY DEF Covered, Working, Request
  <2>. HIDE DEF new
  <2>. QED
    BY <1>a, <2>1, <2>2
<1>3. ASSUME NEW p \in Procs, WorkerCrash(p) \/ TransientRetry(p) PROVE Goal
  BY <1>3, DoneCovered DEF WorkerCrash, TransientRetry
<1>4. ASSUME NEW p \in Procs, NEW k \in RequestKinds, NEW d \in Dep, Read(p, k, d) PROVE Goal
  <2>. DEFINE new == [pc |-> "commit", job |-> Request(k, d), obj |-> row[d], mode |-> "", ctr |-> 0]
  <2>1. proc' = [proc EXCEPT ![p] = new] /\ row[d].st \in Guard(k)
    BY <1>4 DEF Read, Start, Request
  <2>2. /\ row[d].st # "none"
        /\ k \in Promotes => row[d].st = "STAGED"
        /\ k \in Approves => row[d].st = "REVIEW"
    BY <2>1 DEF Guard, RequestKinds, Promotes, Approves, Cancellable, Sweepable
  <2>3. k # "resume" /\ d \in Used' /\ (k \in Promotes => d \in allowed')
    BY <1>b, <2>2 DEF RequestKinds, Used, GateInv, ReviewGate
  <2>4. Covered(new, allowed', direct', Used')
    BY <2>2, <2>3 DEF Covered, Working, PastGate, BeforeLive, Request
  <2>. QED
    BY <1>a, <2>1, <2>4
<1>5. ASSUME NEW S \in SUBSET Dep, BulkCancel(S) PROVE Goal
  BY <1>5, RevokeCovered DEF BulkCancel
<1>6. CASE Push \/ (\E d \in Dep : Rollback(d) \/ QueueRestore(d)) \/ HealthHook \/ (\E c \in Ctr : Dies(c)) \/ PlanEnds
  BY <1>6, <1>1 DEF Push, Rollback, QueueRestore, HealthHook, Dies, PlanEnds
<1>. QED
  BY <1>2, <1>3, <1>4, <1>5, <1>6 DEF Environment

\* Every message published is covered by what its sender knows.
LEMMA QueueStep ==
  ASSUME TypeOK, GateInv, [Next]_vars
  PROVE  \A m \in queue' : Posted(m, allowed', Used')
<1>. SUFFICES ASSUME NEW m \in queue', m \notin queue PROVE Posted(m, allowed', Used')
  BY CoverKept
<1>a. \A p \in Procs : Covered(proc[p], allowed', direct', Used')
  BY CoverKept
<1>b. Used \subseteq Used' /\ direct \subseteq allowed /\ allowed \subseteq allowed'
  BY UsedStep, HistoryStep DEF GateInv
<1>c. ASSUME NextRow \in Dep, row'[NextRow].st = "QUEUED" PROVE NextRow \in Used'
  BY <1>c DEF Used
<1>1. ASSUME NEW p \in Procs, Step(p) PROVE Posted(m, allowed', Used')
  <2>. DEFINE d == proc[p].job.dep
  <2>a. Working(proc[p]) => d \in Used'
    BY <1>a DEF Covered
  <2>1. CASE TriggerCreate(p)
    <3>1. NextRow \in Used'
      BY <2>1, <1>c, CreatedChanges DEF TriggerCreate
    <3>2. m = Smart(NextRow, FALSE)
      BY <2>1 DEF TriggerCreate
    <3>. QED
      BY <3>1, <3>2 DEF Posted, Smart
  <2>2. CASE ApproveCommit(p)
    <3>1. m = Resume(d) /\ d \in Used' /\ d \in allowed'
      BY <2>2, <2>a DEF ApproveCommit, Commits, Busy, Working
    <3>. QED
      BY <3>1 DEF Posted, Resume
  <2>3. CASE RetryCommit(p)
    <3>1. m = Smart(d, FALSE) /\ d \in Used'
      BY <2>3, <2>a DEF RetryCommit, Commits, Busy, Working
    <3>. QED
      BY <3>1 DEF Posted, Smart
  <2>4. CASE PostSave(p)
    <3>1. m = Monitor(d, proc[p].ctr) /\ d \in Used'
      BY <2>4, <2>a DEF PostSave, Busy, Working
    <3>. QED
      BY <3>1 DEF Posted, Monitor
  <2>5. CASE DiagnoseFix(p)
    <3>1. row'[NextRow].st = "QUEUED" /\ NextRow \in Dep
      <4>. DEFINE saved == Save(d, [proc[p].obj EXCEPT !.st = "FAILED"], proc[p].obj.st)
      <4>1. saved \in [Dep -> Row]
        BY ProcessParts, SaveType, WithStatus, StatusNames
      <4>2. row' = [saved EXCEPT ![NextRow].st = "QUEUED"] /\ NextRow \in Dep
        BY <2>5 DEF DiagnoseFix
      <4>. HIDE DEF saved
      <4>. QED
        BY <4>1, <4>2 DEF Row
    <3>2. m = Smart(NextRow, TRUE) /\ NextRow \in Used' /\ NextRow \in allowed'
      BY <2>5, <3>1, <1>c DEF DiagnoseFix
    <3>. QED
      BY <3>2 DEF Posted, Smart
  <2>6. CASE CancelCommit(p)
    BY <2>6, RevokeCovered DEF CancelCommit
  <2>. QED
    BY <1>1, <2>1, <2>2, <2>3, <2>4, <2>5, <2>6
       DEF Step, SweepCommit, ReapCommit,
       PromoteCut, PromoteFails, Supersede, Proceed, AnalysisDone, BuildDone, CreateLive, CreateGreen,
       Record, Refresh, WaitOk, AddonFails, CancelPreviousStaged, StageSave, ActiveSave,
       WorkFails, FailRead, FailSave, WatchOk, WatchCrash, DiagnoseFail
<1>2. ASSUME NEW p \in Procs, NEW j \in queue, Take(p, j) PROVE Posted(m, allowed', Used')
  BY <1>2 DEF Take
<1>3. CASE Environment
  <2>1. ASSUME NEW p \in Procs, WorkerCrash(p) \/ TransientRetry(p) PROVE Posted(m, allowed', Used')
    <3>1. m = proc[p].job /\ proc[p].pc # "idle" /\ proc[p].job.kind # "trigger"
      BY <2>1 DEF WorkerCrash, TransientRetry, TaskKinds
    <3>2. Working(proc[p])
      BY <3>1, <1>a DEF Covered, Working
    <3>. QED
      BY <3>1, <3>2, <1>a DEF Covered, Posted
  <2>2. CASE Push
    <3>1. m = Smart(NextRow, TRUE) /\ NextRow \in Used' /\ NextRow \in allowed'
      BY <2>2, <1>c, CreatedChanges DEF Push
    <3>. QED
      BY <3>1 DEF Posted, Smart
  <2>3. ASSUME NEW d \in Dep, Rollback(d) PROVE Posted(m, allowed', Used')
    <3>1. m = Smart(NextRow, FALSE) /\ NextRow \in Used'
      BY <2>3, <1>c, CreatedChanges DEF Rollback
    <3>. QED
      BY <3>1 DEF Posted, Smart
  <2>4. ASSUME NEW d \in Dep, QueueRestore(d) PROVE Posted(m, allowed', Used')
    <3>1. m = Smart(d, d \in direct) /\ d \in Used'
      BY <2>4, <1>b DEF QueueRestore, Used
    <3>. QED
      BY <3>1, <1>b DEF Posted, Smart
  <2>5. ASSUME NEW S \in SUBSET Dep, BulkCancel(S) PROVE Posted(m, allowed', Used')
    BY <2>5, RevokeCovered DEF BulkCancel
  <2>. QED
    BY <1>3, <2>1, <2>2, <2>3, <2>4, <2>5 DEF Environment, TriggerCheck, Read, HealthHook, Dies, PlanEnds
<1>4. CASE UNCHANGED vars
  BY <1>4 DEF vars
<1>. QED
  BY <1>1, <1>2, <1>3, <1>4 DEF Next

---------------------------------------------------------------------------
(* The theorems *)

\* Containers are started by tasks past the gate, and promoted ones inherit their owner.
LEMMA OwnerStep ==
  ASSUME TypeOK, GateInv, [Next]_vars, NEW c \in Ctr, ctr'[c].st # "free"
  PROVE  ctr'[c].owner \in allowed'
<1>a. allowed \subseteq allowed' /\ \A b \in Ctr : ctr[b].st # "free" => ctr[b].owner \in allowed
  BY HistoryStep DEF GateInv, ReviewGate
<1>b. ctr \in [Ctr -> Container]
  BY DEF TypeOK, Container
<1>c. ASSUME NEW S PROVE \A b \in Ctr : /\ Removed(S)[b].owner = ctr[b].owner
                                        /\ Removed(S)[b].st # "free" => ctr[b].st # "free"
                                        /\ Removed(S) \in [Ctr -> Container]
  BY <1>b, RemovedType DEF Removed, Exists, Container
<1>1. CASE ctr'[c].owner = ctr[c].owner /\ ctr[c].st # "free"
  BY <1>1, <1>a
<1>2. ASSUME NEW p \in Procs, Step(p) PROVE ctr'[c].owner \in allowed'
  <2>1. ASSUME NEW S, ctr' = Removed(S) PROVE ctr'[c].owner \in allowed'
    BY <2>1, <1>c, <1>1
  <2>2. ASSUME NEW S, NEW b \in Ctr, NEW o \in allowed, ctr' = [Removed(S) EXCEPT ![b] = [st |-> "up", owner |-> o]]
        PROVE  ctr'[c].owner \in allowed'
    BY <2>2, <1>c, <1>1, <1>a
  <2>3. CASE UNCHANGED ctr
    BY <2>3, <1>1
  <2>4. CASE CancelCommit(p) \/ ReapCommit(p) \/ CancelPreviousStaged(p) \/ FailSave(p)
    BY <2>4, <2>1, <2>3 DEF CancelCommit, ReapCommit, CancelPreviousStaged, FailSave
  <2>5. CASE PromoteCut(p)
    <3>1. ctr[proc[p].obj.green].owner \in allowed
      BY <2>5, <1>a DEF PromoteCut, Up
    <3>. QED
      BY <2>5, <3>1, <2>2, <2>3 DEF PromoteCut, FreeCtr
  <2>6. CASE CreateLive(p) \/ CreateGreen(p)
    <3>1. proc[p].job.dep \in allowed
      BY <2>6 DEF GateInv, Covered, Working, PastGate, CreateLive, CreateGreen, Busy
    <3>2. CASE CreateLive(p)
      BY <3>1, <3>2, <2>2 DEF CreateLive, FreeCtr
    <3>3. CASE CreateGreen(p)
      BY <3>1, <3>3, <1>1, <1>a, <1>b DEF CreateGreen, FreeCtr
    <3>. QED
      BY <2>6, <3>2, <3>3
  <2>. QED
    BY <1>2, <2>3, <2>4, <2>5, <2>6
       DEF Step, TriggerCreate, ApproveCommit, RetryCommit, SweepCommit, PromoteFails, Supersede, Proceed,
       AnalysisDone, BuildDone, Record, Refresh, WaitOk, AddonFails, StageSave, ActiveSave, PostSave,
       WorkFails, FailRead, WatchOk, WatchCrash, DiagnoseFail, DiagnoseFix
<1>3. ASSUME NEW b \in Ctr, Dies(b) PROVE ctr'[c].owner \in allowed'
  BY <1>3, <1>1, <1>b DEF Dies, Up, Container
<1>4. CASE UNCHANGED ctr
  BY <1>4, <1>1
<1>. QED
  BY <1>2, <1>3, <1>4 DEF Next, Environment, Take, TriggerCheck, WorkerCrash, TransientRetry, Push, Rollback,
     QueueRestore, Read, BulkCancel, HealthHook, PlanEnds, vars

\* A row reaches a state past the review, or one that holds it, only from a
\* task or handler that knows it may.
LEMMA GateStep ==
  ASSUME TypeOK, GateInv, [Next]_vars
  PROVE  ReviewGate' /\ RollbackNeverHeld'
<1>a. /\ allowed \subseteq allowed' /\ direct' \subseteq direct \cup {NextRow}
      /\ NextRow \in Dep => row[NextRow].st = "none"
      /\ ReviewGate /\ RollbackNeverHeld
  BY HistoryStep, UsedStep DEF Used, GateInv
<1>b. ASSUME NEW d \in Dep
      PROVE  /\ At("record", d) \/ At("stage", d) \/ At("activate", d) => d \in allowed
             /\ At("analyse", d) \/ At("stage", d) => d \notin direct /\ d \in Used
  BY DEF GateInv, Covered, At, Working, PastGate
<1>1. ASSUME NEW d \in Dep, row'[d].st \in {"BUILDING", "HEALTH_CHECK", "STAGED", "ACTIVE"}
      PROVE  d \in allowed'
  <2>1. RowChange(d)
    BY RowNext
  <2>. QED
    BY <1>1, <1>a, <1>b, <2>1 DEF RowChange, ReviewGate
<1>2. ASSUME NEW d \in direct', row'[d].st \in {"REVIEW", "STAGED"}
      PROVE  FALSE
  <2>1. d \in Dep /\ RowChange(d)
    BY RowNext, TypeStep DEF TypeOK
  <2>2. CASE d = NextRow
    BY <1>2, <1>a, <1>b, <2>1, <2>2 DEF RowChange, Used
  <2>3. CASE d \in direct
    BY <1>2, <1>a, <1>b, <2>1, <2>3 DEF RowChange, RollbackNeverHeld
  <2>. QED
    BY <1>a, <2>2, <2>3
<1>. QED
  BY <1>1, <1>2, OwnerStep DEF ReviewGate, RollbackNeverHeld

LEMMA GateInductive == TypeOK /\ GateInv /\ [Next]_vars => GateInv'
<1>. SUFFICES ASSUME TypeOK, GateInv, [Next]_vars PROVE GateInv'
  OBVIOUS
<1>1. ASSUME NEW p \in Procs PROVE Covered(proc'[p], allowed', direct', Used')
  <2>1. proc'[p] = proc[p] \/ Covered(proc'[p], allowed', direct', Used')
    <3>1. CASE UNCHANGED vars
      BY <3>1 DEF vars
    <3>. QED
      BY <3>1, StepCovered, TakeCovered, EnvironmentCovered DEF Next
  <2>. QED
    BY <2>1, CoverKept
<1>2. \A m \in queue' : Posted(m, allowed', Used')
  BY QueueStep
<1>. QED
  BY <1>1, <1>2, UsedStep, HistoryStep, GateStep DEF GateInv

LEMMA GateInit == Init => GateInv
<1>. SUFFICES ASSUME Init PROVE GateInv
  OBVIOUS
<1>1. Used = {} /\ queue = {} /\ direct = {} /\ \A p \in Procs : proc[p] = Idle
  BY DEF Init, Used, NoRow
<1>2. ReviewGate
  BY DEF Init, NoRow, ReviewGate
<1>. QED
  BY <1>1, <1>2, IdleCovered DEF GateInv, Consecutive, RollbackNeverHeld

LEMMA GateAlways == Spec => [](TypeOK /\ GateInv)
  BY TypeInit, TypeStep, GateInit, GateInductive, PTL DEF Spec

\* No deployment gets past the review, as a row or as a container, before it
\* was approved or asked for without one (approve(), resume_deploy_task,
\* smart_deploy_task's skip_review), whatever is retried, redelivered,
\* restored or resumed.
THEOREM ReviewIsNeverSkipped == Spec => []ReviewGate
<1>1. TypeOK /\ GateInv => ReviewGate
  BY DEF GateInv
<1>. QED
  BY <1>1, GateAlways, PTL

\* A rollback waits neither for a review nor in staging (rollback(),
\* _run_smart_pipeline's is_rollback branch), whichever task works on it.
THEOREM RollbacksGoStraight == Spec => []RollbackNeverHeld
<1>1. TypeOK /\ GateInv => RollbackNeverHeld
  BY DEF GateInv
<1>. QED
  BY <1>1, GateAlways, PTL

\* What brings a CANCELLED row back.
LEMMA NoRevivalStep ==
  ASSUME TypeOK, GateInv, [Next]_vars, NEW d \in Dep,
         row[d].st = "CANCELLED", row'[d].st \notin {"CANCELLED", "FAILED"}
  PROVE  \E p \in Procs :
           /\ proc[p].pc # "idle" /\ proc[p].job.dep = d
           /\ \/ proc[p].obj.st # "CANCELLED"
              \/ proc[p].pc \in {"stage", "activate"}
              \/ (proc[p].job.kind = "retry" /\ row'[d].st = "QUEUED")
<1>1. RowChange(d)
  BY RowNext
<1>2. d # NextRow
  BY UsedStep DEF Used
<1>3. ASSUME NEW pc \in {"start", "analyse", "record"}, At(pc, d)
      PROVE  \E p \in Procs : proc[p].pc # "idle" /\ proc[p].job.dep = d /\ proc[p].obj.st # "CANCELLED"
  BY <1>3 DEF At, GateInv, Covered, Working, BeforeLive
<1>4. ASSUME Commit(Approves, d)
      PROVE  \E p \in Procs : proc[p].pc # "idle" /\ proc[p].job.dep = d /\ proc[p].obj.st # "CANCELLED"
  BY <1>4 DEF Commit, GateInv, Covered, Working
<1>5. ASSUME At("stage", d) \/ At("activate", d)
      PROVE  \E p \in Procs : proc[p].pc # "idle" /\ proc[p].job.dep = d /\ proc[p].pc \in {"stage", "activate"}
  BY <1>5 DEF At
<1>6. ASSUME Commit({"retry"}, d)
      PROVE  \E p \in Procs : proc[p].pc # "idle" /\ proc[p].job.dep = d /\ proc[p].job.kind = "retry"
  BY <1>6 DEF Commit
<1>. QED
  BY <1>1, <1>2, <1>3, <1>4, <1>5, <1>6 DEF RowChange

\* A CANCELLED row comes back only through retry(), a process that read it
\* before it was cancelled, or a deployment already past the build hand-off
\* (_abort_if_cancelled looks for the last time there).
THEOREM CancelledStaysCancelled == Spec => NoRevival
<1>1. TypeOK /\ GateInv /\ [Next]_vars =>
        [\A d \in Dep :
           row[d].st = "CANCELLED" /\ row'[d].st \notin {"CANCELLED", "FAILED"} =>
             \E p \in Procs :
               /\ proc[p].pc # "idle" /\ proc[p].job.dep = d
               /\ \/ proc[p].obj.st # "CANCELLED"
                  \/ proc[p].pc \in {"stage", "activate"}
                  \/ proc[p].job.kind = "retry" /\ row'[d].st = "QUEUED"]_vars
  BY NoRevivalStep
<1>. QED
  BY <1>1, GateAlways, PTL DEF Spec, NoRevival

=============================================================================
