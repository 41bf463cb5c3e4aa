-------------------------- MODULE DeploymentsProofs --------------------------
(***************************************************************************)
(* Deployments stays in its types and never has two ACTIVE rows, for any   *)
(* number of rows, processes and containers and any set of Ops.            *)
(***************************************************************************)
EXTENDS Deployments, TLAPS

---------------------------------------------------------------------------
(* What the operators of the model return *)

Process   == [pc : PCs, job : Job, obj : Row, mode : Modes, ctr : 0..NCtr]
Container == [st : {"free", "up", "exited", "gone"}, owner : 0..NDep]

\* save() returns a table of rows.
LEMMA SaveType ==
  ASSUME TypeOK, NEW d \in Dep, NEW new \in Row, NEW memSt
  PROVE  Save(d, new, memSt) \in [Dep -> Row]
<1>1. ASSUME NEW e \in Dep PROVE [row[e] EXCEPT !.st = "INACTIVE"] \in Row
  BY DEF TypeOK, Row, Status
<1>. QED
  BY <1>1 DEF TypeOK, Save

LEMMA WithStatus ==
  ASSUME NEW r \in Row, NEW s \in Status
  PROVE  [r EXCEPT !.st = s] \in Row /\ [r EXCEPT !.st = s].st = s
  BY DEF Row

LEMMA SaveStatusType ==
  ASSUME TypeOK, NEW d \in Dep, NEW s \in Status
  PROVE  SaveStatus(d, s) \in [Dep -> Row]
  BY SaveType, WithStatus DEF SaveStatus, TypeOK

LEMMA SaveLogType ==
  ASSUME TypeOK, NEW d \in Dep, NEW memSt
  PROVE  SaveLog(d, memSt) \in [Dep -> Row]
  BY SaveType DEF SaveLog, TypeOK

LEMMA CreatedType ==
  ASSUME TypeOK, NEW d \in Dep
  PROVE  Created(d) \in [Dep -> Row]
<1>1. [row[d] EXCEPT !.st = "QUEUED"] \in Row
  BY WithStatus DEF TypeOK, Status
<1>. QED
  BY <1>1 DEF TypeOK, Created

LEMMA RemovedType ==
  ASSUME TypeOK, NEW S
  PROVE  Removed(S) \in [Ctr -> Container]
  BY DEF TypeOK, Removed, Container

LEMMA MessageType ==
  ASSUME NEW d \in Dep, NEW skip \in BOOLEAN, NEW c \in 0..NCtr, NEW k \in RequestKinds
  PROVE  /\ Smart(d, skip) \in Message /\ Resume(d) \in Message /\ Monitor(d, c) \in Message
         /\ Request(k, d) \in Job
  BY SizesAssumption DEF Smart, Resume, Monitor, Request, Message, Job, TaskKinds

LEMMA IdleType == Idle \in Process
<1>1. 1 \in Dep /\ 0 \in 0..NCtr
  BY SizesAssumption DEF Dep
<1>2. NoRow \in Row
  BY <1>1 DEF NoRow, Row, Status
<1>3. Request("none", 1) \in Job
  BY <1>1 DEF Request, Job
<1>. QED
  BY <1>1, <1>2, <1>3 DEF Idle, Process, PCs, Modes

LEMMA DoneType ==
  ASSUME TypeOK, NEW p \in Procs, Done(p)
  PROVE  proc' \in [Procs -> Process]
  BY IdleType DEF TypeOK, Done, Process

LEMMA GotoType ==
  ASSUME TypeOK, NEW p \in Procs, NEW pc \in PCs, Goto(p, pc)
  PROVE  proc' \in [Procs -> Process]
  BY DEF TypeOK, Goto, Process

LEMMA StartType ==
  ASSUME TypeOK, NEW p \in Procs, NEW pc \in PCs, NEW j \in Job, Start(p, j, pc)
  PROVE  proc' \in [Procs -> Process]
<1>1. row[j.dep] \in Row /\ 0 \in 0..NCtr
  BY SizesAssumption DEF TypeOK, Job
<1>2. [pc |-> pc, job |-> j, obj |-> row[j.dep], mode |-> "", ctr |-> 0] \in Process
  BY <1>1 DEF Process, Modes
<1>. QED
  BY <1>2 DEF TypeOK, Start, Process

\* The updates of a process the steps make, field by field ...
LEMMA FieldTypes ==
  ASSUME NEW f \in [Procs -> Process], NEW p \in Procs
  PROVE  /\ \A x \in PCs : [f EXCEPT ![p].pc = x] \in [Procs -> Process]
         /\ \A x \in Modes : [f EXCEPT ![p].mode = x] \in [Procs -> Process]
         /\ \A x \in 0..NCtr : [f EXCEPT ![p].ctr = x] \in [Procs -> Process]
         /\ \A x \in Row : [f EXCEPT ![p].obj = x] \in [Procs -> Process]
  BY DEF Process

\* ... and together.
LEMMA CutUpdate ==
  ASSUME TypeOK, NEW p \in Procs, NEW pc \in PCs, NEW m \in Modes, NEW c \in 0..NCtr,
         proc' = [proc EXCEPT ![p].pc = pc, ![p].mode = m, ![p].ctr = c]
  PROVE  proc' \in [Procs -> Process]
<1>1. [proc EXCEPT ![p].pc = pc] \in [Procs -> Process]
  BY FieldTypes DEF TypeOK, Process
<1>2. [[proc EXCEPT ![p].pc = pc] EXCEPT ![p].mode = m] \in [Procs -> Process]
  BY <1>1, FieldTypes
<1>3. [[[proc EXCEPT ![p].pc = pc] EXCEPT ![p].mode = m] EXCEPT ![p].ctr = c] \in [Procs -> Process]
  BY <1>2, FieldTypes
<1>. QED
  BY <1>3

LEMMA CopyUpdate ==
  ASSUME TypeOK, NEW p \in Procs, NEW pc \in PCs, NEW o \in Row,
         proc' = [proc EXCEPT ![p].pc = pc, ![p].obj = o]
  PROVE  proc' \in [Procs -> Process]
<1>1. [proc EXCEPT ![p].pc = pc] \in [Procs -> Process]
  BY FieldTypes DEF TypeOK, Process
<1>2. [[proc EXCEPT ![p].pc = pc] EXCEPT ![p].obj = o] \in [Procs -> Process]
  BY <1>1, FieldTypes
<1>. QED
  BY <1>2

LEMMA ModeUpdate ==
  ASSUME TypeOK, NEW p \in Procs, NEW pc \in PCs, NEW m \in Modes,
         proc' = [proc EXCEPT ![p].mode = m, ![p].pc = pc]
  PROVE  proc' \in [Procs -> Process]
<1>1. [proc EXCEPT ![p].mode = m] \in [Procs -> Process]
  BY FieldTypes DEF TypeOK, Process
<1>2. [[proc EXCEPT ![p].mode = m] EXCEPT ![p].pc = pc] \in [Procs -> Process]
  BY <1>1, FieldTypes
<1>. QED
  BY <1>2

LEMMA ContainerUpdate ==
  ASSUME TypeOK, NEW p \in Procs, NEW pc \in PCs, NEW c \in 0..NCtr,
         proc' = [proc EXCEPT ![p].pc = pc, ![p].ctr = c]
  PROVE  proc' \in [Procs -> Process]
<1>1. [proc EXCEPT ![p].pc = pc] \in [Procs -> Process]
  BY FieldTypes DEF TypeOK, Process
<1>2. [[proc EXCEPT ![p].pc = pc] EXCEPT ![p].ctr = c] \in [Procs -> Process]
  BY <1>1, FieldTypes
<1>. QED
  BY <1>2

LEMMA RecordUpdate ==
  ASSUME TypeOK, NEW p \in Procs, NEW pc \in PCs, NEW o \in Row, NEW c \in 0..NCtr, NEW m \in Modes,
         proc' = [proc EXCEPT ![p].pc = pc, ![p].obj = o, ![p].ctr = c, ![p].mode = m]
  PROVE  proc' \in [Procs -> Process]
<1>1. [proc EXCEPT ![p].pc = pc] \in [Procs -> Process]
  BY FieldTypes DEF TypeOK, Process
<1>2. [[proc EXCEPT ![p].pc = pc] EXCEPT ![p].obj = o] \in [Procs -> Process]
  BY <1>1, FieldTypes
<1>3. [[[proc EXCEPT ![p].pc = pc] EXCEPT ![p].obj = o] EXCEPT ![p].ctr = c] \in [Procs -> Process]
  BY <1>2, FieldTypes
<1>4. [[[[proc EXCEPT ![p].pc = pc] EXCEPT ![p].obj = o] EXCEPT ![p].ctr = c] EXCEPT ![p].mode = m]
        \in [Procs -> Process]
  BY <1>3, FieldTypes
<1>. QED
  BY <1>4

LEMMA SpendType ==
  ASSUME TypeOK, NEW k, Spend(k)
  PROVE  ops' \in 0..MaxOps
  BY SizesAssumption DEF TypeOK, Spend

\* What a process holds.
LEMMA ProcessParts ==
  ASSUME TypeOK, NEW p \in Procs
  PROVE  /\ proc[p] \in Process /\ proc[p].job \in Job /\ proc[p].job.dep \in Dep
         /\ proc[p].obj \in Row /\ proc[p].ctr \in 0..NCtr /\ proc[p].job.ctr \in 0..NCtr
         /\ proc[p].obj.green \in 0..NCtr
         /\ proc[p].job.skip \in BOOLEAN
  BY DEF TypeOK, Process, Job, Row

LEMMA StatusNames ==
  /\ "QUEUED" \in Status /\ "REVIEW" \in Status /\ "BUILDING" \in Status /\ "HEALTH_CHECK" \in Status
  /\ "STAGED" \in Status /\ "ACTIVE" \in Status /\ "INACTIVE" \in Status /\ "FAILED" \in Status
  /\ "CANCELLED" \in Status /\ "none" \in Status
  BY DEF Status

---------------------------------------------------------------------------
(* Type correctness *)

LEMMA TypeInit == Init => TypeOK
<1>. SUFFICES ASSUME Init PROVE TypeOK
  OBVIOUS
<1>1. NoRow \in Row
  BY SizesAssumption DEF NoRow, Row, Status
<1>2. 0 \in 0..NCtr /\ 0 \in 0..NDep /\ 0 \in 0..MaxOps
  BY SizesAssumption
<1>. QED
  BY <1>1, <1>2, IdleType DEF Init, TypeOK, Process

(* One fact per variable: the step lemmas below show that each is kept. *)

LEMMA TypeParts ==
  TypeOK <=> /\ row \in [Dep -> Row]
             /\ direct \subseteq Dep /\ fixes \subseteq Dep /\ tracked \subseteq Dep /\ allowed \subseteq Dep
             /\ queue \subseteq Message
             /\ proc \in [Procs -> Process]
             /\ ctr \in [Ctr -> Container]
             /\ live \in 0..NCtr /\ livePlan \in BOOLEAN /\ ops \in 0..MaxOps
  BY DEF TypeOK, Process, Container

\* Revoking tasks takes messages away and makes processes idle.
LEMMA RevokeType ==
  ASSUME TypeOK, NEW S, NEW P, Revoke(S, P)
  PROVE  queue' \subseteq Message /\ proc' \in [Procs -> Process]
  BY IdleType, TypeParts DEF Revoke

LEMMA RequestsType ==
  ASSUME TypeOK, NEW p \in Procs
  PROVE  /\ TriggerCheck(p) => TypeOK'
         /\ TriggerCreate(p) => TypeOK'
         /\ \A k \in RequestKinds, d \in Dep : Read(p, k, d) => TypeOK'
<1>1. ASSUME TriggerCheck(p) PROVE TypeOK'
  <2>1. ASSUME NEW stuck PROVE AfterStaleCancel(stuck) \in [Dep -> Row]
    BY WithStatus, StatusNames DEF TypeOK, AfterStaleCancel
  <2>2. row' \in [Dep -> Row]
    BY <1>1, <2>1 DEF TriggerCheck
  <2>3. Request("trigger", 1) \in Job /\ "create_row" \in PCs
    BY SizesAssumption DEF Request, Job, Dep, PCs
  <2>4. proc' \in [Procs -> Process]
    BY <1>1, <2>3, StartType, TypeParts DEF TriggerCheck
  <2>5. ops' \in 0..MaxOps
    BY <1>1, SpendType DEF TriggerCheck
  <2>. QED
    BY <1>1, <2>2, <2>4, <2>5 DEF TriggerCheck, TypeOK, Process
<1>2. ASSUME TriggerCreate(p) PROVE TypeOK'
  <2>1. Smart(NextRow, FALSE) \in Message
    BY <1>2, SizesAssumption DEF TriggerCreate, Smart, Message, Job, TaskKinds
  <2>2. proc' \in [Procs -> Process]
    BY <1>2, DoneType DEF TriggerCreate
  <2>3. row' \in [Dep -> Row]
    BY <1>2, CreatedType DEF TriggerCreate
  <2>. QED
    BY <1>2, <2>1, <2>2, <2>3 DEF TriggerCreate, TypeOK, Process
<1>3. ASSUME NEW k \in RequestKinds, NEW d \in Dep, Read(p, k, d) PROVE TypeOK'
  <2>1. Request(k, d) \in Job /\ "commit" \in PCs
    BY SizesAssumption DEF Request, Job, PCs
  <2>2. proc' \in [Procs -> Process]
    BY <1>3, <2>1, StartType DEF Read
  <2>3. ops' \in 0..MaxOps
    BY <1>3, SpendType DEF Read, TypeOK
  <2>. QED
    BY <1>3, <2>2, <2>3 DEF Read, TypeOK, Process
<1>. QED
  BY <1>1, <1>2, <1>3

LEMMA CommitsType ==
  ASSUME TypeOK, NEW p \in Procs
  PROVE  /\ CancelCommit(p) \/ ApproveCommit(p) \/ RetryCommit(p) => TypeOK'
         /\ SweepCommit(p) \/ ReapCommit(p) => TypeOK'
         /\ PromoteCut(p) \/ PromoteFails(p) => TypeOK'
<1>. DEFINE d == proc[p].job.dep
            obj == proc[p].obj
<1>a. d \in Dep /\ obj \in Row /\ obj.green \in 0..NCtr
  BY ProcessParts
<1>1. ASSUME CancelCommit(p) PROVE TypeOK'
  <2>1. [obj EXCEPT !.st = "CANCELLED"] \in Row
    BY <1>a, WithStatus, StatusNames
  <2>2. row' \in [Dep -> Row]
    BY <1>1, <1>a, <2>1, SaveType DEF CancelCommit
  <2>3. queue' \subseteq Message /\ proc' \in [Procs -> Process]
    BY <1>1, RevokeType DEF CancelCommit
  <2>4. ctr' \in [Ctr -> Container]
    BY <1>1, RemovedType DEF CancelCommit
  <2>. QED
    BY <1>1, <2>2, <2>3, <2>4 DEF CancelCommit, TypeOK, Process, Container
<1>2. ASSUME ApproveCommit(p) PROVE TypeOK'
  <2>1. row' \in [Dep -> Row] /\ proc' \in [Procs -> Process]
    BY <1>2, <1>a, SaveStatusType, StatusNames, DoneType DEF ApproveCommit
  <2>2. Resume(d) \in Message
    BY <1>a, SizesAssumption DEF Resume, Message, Job, TaskKinds
  <2>. QED
    BY <1>2, <1>a, <2>1, <2>2 DEF ApproveCommit, TypeOK, Process
<1>3. ASSUME RetryCommit(p) PROVE TypeOK'
  <2>1. row' \in [Dep -> Row] /\ proc' \in [Procs -> Process]
    BY <1>3, <1>a, SaveStatusType, StatusNames, DoneType DEF RetryCommit
  <2>2. Smart(d, FALSE) \in Message
    BY <1>a, SizesAssumption DEF Smart, Message, Job, TaskKinds
  <2>. QED
    BY <1>3, <2>1, <2>2 DEF RetryCommit, TypeOK, Process
<1>4. ASSUME SweepCommit(p) PROVE TypeOK'
  <2>1. row' \in [Dep -> Row] /\ proc' \in [Procs -> Process]
    BY <1>4, <1>a, SaveStatusType, StatusNames, DoneType, TypeParts DEF SweepCommit
  <2>. QED
    BY <1>4, <2>1 DEF SweepCommit, TypeOK, Process
<1>5. ASSUME ReapCommit(p) PROVE TypeOK'
  <2>1. row' \in [Dep -> Row] /\ proc' \in [Procs -> Process] /\ ctr' \in [Ctr -> Container]
    BY <1>5, <1>a, SaveStatusType, StatusNames, DoneType, RemovedType, TypeParts DEF ReapCommit
  <2>. QED
    BY <1>5, <2>1 DEF ReapCommit, TypeOK, Process, Container
<1>6. ASSUME PromoteCut(p) PROVE TypeOK'
  <2>1. "activate" \in PCs /\ "promote" \in Modes
    BY DEF PCs, Modes
  <2>2. CASE obj.green = live
    <3>1. proc' = [proc EXCEPT ![p].pc = "activate", ![p].mode = "promote", ![p].ctr = obj.green]
          /\ UNCHANGED <<row, direct, fixes, tracked, queue, allowed, livePlan, ops, ctr, live>>
      BY <1>6, <2>2 DEF PromoteCut
    <3>2. proc' \in [Procs -> Process]
      BY <3>1, <2>1, <1>a, CutUpdate
    <3>. QED
      BY <3>1, <3>2 DEF TypeOK, Process
  <2>3. CASE obj.green # live
    <3>1. PICK c \in FreeCtr :
             /\ ctr' = [Removed({obj.green, live}) EXCEPT ![c] =
                          [st |-> "up", owner |-> ctr[obj.green].owner]]
             /\ live' = c
             /\ proc' = [proc EXCEPT ![p].pc = "activate", ![p].mode = "promote", ![p].ctr = c]
      BY <1>6, <2>3 DEF PromoteCut
    <3>2. c \in Ctr /\ c \in 0..NCtr /\ obj.green \in Ctr
      BY <1>6, <3>1, SizesAssumption DEF FreeCtr, Ctr, PromoteCut, Up
    <3>3. [st |-> "up", owner |-> ctr[obj.green].owner] \in Container
      BY <3>2 DEF TypeOK, Container
    <3>4. ctr' \in [Ctr -> Container]
      BY <3>1, <3>2, <3>3, RemovedType
    <3>5. proc' \in [Procs -> Process]
      BY <3>1, <3>2, <2>1, CutUpdate
    <3>6. UNCHANGED <<row, direct, fixes, tracked, queue, allowed, livePlan, ops>>
      BY <1>6 DEF PromoteCut
    <3>. QED
      BY <3>1, <3>2, <3>4, <3>5, <3>6 DEF TypeOK, Process, Container
  <2>. QED
    BY <2>2, <2>3
<1>7. ASSUME PromoteFails(p) PROVE TypeOK'
  <2>1. row' \in [Dep -> Row] /\ proc' \in [Procs -> Process]
    BY <1>7, <1>a, SaveStatusType, StatusNames, DoneType, TypeParts DEF PromoteFails
  <2>. QED
    BY <1>7, <2>1 DEF PromoteFails, TypeOK, Process
<1>. QED
  BY <1>1, <1>2, <1>3, <1>4, <1>5, <1>6, <1>7

(* The steps of the tasks *)

LEMMA TakeType ==
  ASSUME TypeOK, NEW p \in Procs, NEW j \in queue, Take(p, j)
  PROVE  TypeOK'
<1>1. /\ j \in Job /\ j.kind \in TaskKinds /\ j.dep \in Dep
      /\ row[j.dep] \in Row /\ 0 \in 0..NCtr
  BY SizesAssumption DEF TypeOK, Message, Job
<1>2. "watch" \in PCs /\ "start" \in PCs /\ "build" \in PCs /\ "direct" \in Modes
  BY DEF PCs, Modes
<1>3. proc' \in [Procs -> Process]
  <2>1. [pc |-> "build", job |-> j, obj |-> row[j.dep], mode |-> "direct", ctr |-> 0] \in Process
    BY <1>1, <1>2 DEF Process
  <2>2. CASE j.kind = "monitor"
    BY <2>2, <1>1, <1>2, StartType DEF Take
  <2>3. CASE j.kind = "smart"
    BY <2>3, <1>1, <1>2, StartType, TypeParts DEF Take
  <2>4. CASE j.kind = "resume"
    <3>1. \/ UNCHANGED proc
          \/ proc' = [proc EXCEPT ![p] = [pc |-> "build", job |-> j, obj |-> row[j.dep],
                                          mode |-> "direct", ctr |-> 0]]
      BY <2>4 DEF Take
    <3>. QED
      BY <3>1, <2>1, TypeParts
  <2>. QED
    BY <1>1, <2>2, <2>3, <2>4 DEF TaskKinds
<1>. QED
  BY <1>3 DEF Take, TypeOK, Process

LEMMA WorkType ==
  ASSUME TypeOK, NEW p \in Procs
  PROVE  /\ Supersede(p) \/ Proceed(p) \/ AnalysisDone(p) \/ BuildDone(p) => TypeOK'
         /\ CreateLive(p) \/ CreateGreen(p) => TypeOK'
         /\ Record(p) \/ Refresh(p) \/ WaitOk(p) \/ AddonFails(p) => TypeOK'
         /\ CancelPreviousStaged(p) \/ StageSave(p) \/ ActiveSave(p) \/ PostSave(p) => TypeOK'
<1>. DEFINE d == proc[p].job.dep
            obj == proc[p].obj
<1>a. /\ d \in Dep /\ obj \in Row /\ row[d] \in Row /\ proc[p].job \in Job
      /\ proc[p].ctr \in 0..NCtr /\ live \in 0..NCtr
  BY ProcessParts DEF TypeOK
<1>b. /\ "create" \in PCs /\ "record" \in PCs /\ "refresh" \in PCs /\ "wait" \in PCs /\ "cancel_staged" \in PCs
      /\ "stage" \in PCs /\ "activate" \in PCs /\ "post" \in PCs /\ "fail_read" \in PCs
      /\ "analyse" \in PCs /\ "build" \in PCs
      /\ "review" \in Modes /\ "staged" \in Modes /\ "direct" \in Modes
  BY DEF PCs, Modes
<1>1. ASSUME Supersede(p) PROVE TypeOK'
  <2>1. row' \in [Dep -> Row] /\ proc' \in [Procs -> Process]
    BY <1>1, <1>a, SaveStatusType, StatusNames, DoneType DEF Supersede
  <2>. QED
    BY <1>1, <2>1 DEF Supersede, TypeOK, Process, Container
<1>2. ASSUME Proceed(p) PROVE TypeOK'
  <2>1. proc' \in [Procs -> Process]
    BY <1>2, <1>a, <1>b, ModeUpdate DEF Proceed, Mode
  <2>. QED
    BY <1>2, <2>1 DEF Proceed, TypeOK, Process, Container
<1>3. ASSUME AnalysisDone(p) PROVE TypeOK'
  <2>1. row' \in [Dep -> Row] /\ proc' \in [Procs -> Process]
    BY <1>3, <1>a, SaveStatusType, StatusNames, DoneType DEF AnalysisDone
  <2>. QED
    BY <1>3, <2>1 DEF AnalysisDone, TypeOK, Process, Container
<1>4. ASSUME BuildDone(p) PROVE TypeOK'
  <2>1. proc' \in [Procs -> Process]
    BY <1>4, <1>a, <1>b, CopyUpdate, DoneType DEF BuildDone
  <2>. QED
    BY <1>4, <2>1 DEF BuildDone, TypeOK, Process, Container
<1>c. ASSUME NEW c \in FreeCtr PROVE c \in Ctr /\ c \in 0..NCtr /\ [st |-> "up", owner |-> d] \in Container
  BY <1>a, SizesAssumption DEF FreeCtr, Ctr, Dep, Container
<1>5. ASSUME CreateLive(p) PROVE TypeOK'
  <2>1. PICK c \in FreeCtr :
           /\ ctr' = [Removed({live}) EXCEPT ![c] = [st |-> "up", owner |-> proc[p].job.dep]]
           /\ live' = c
           /\ proc' = [proc EXCEPT ![p].pc = "record", ![p].ctr = c]
    BY <1>5 DEF CreateLive
  <2>2. ctr' \in [Ctr -> Container] /\ live' \in 0..NCtr
    BY <2>1, <1>c, RemovedType
  <2>3. proc' \in [Procs -> Process]
    BY <2>1, <1>b, <1>c, ContainerUpdate
  <2>. QED
    BY <1>5, <2>2, <2>3 DEF CreateLive, TypeOK, Process, Container
<1>6. ASSUME CreateGreen(p) PROVE TypeOK'
  <2>1. PICK c \in FreeCtr :
           /\ ctr' = [ctr EXCEPT ![c] = [st |-> "up", owner |-> proc[p].job.dep]]
           /\ proc' = [proc EXCEPT ![p].pc = "record", ![p].ctr = c]
    BY <1>6 DEF CreateGreen
  <2>2. ctr' \in [Ctr -> Container]
    BY <2>1, <1>c, TypeParts
  <2>3. proc' \in [Procs -> Process]
    BY <2>1, <1>b, <1>c, ContainerUpdate
  <2>. QED
    BY <1>6, <2>2, <2>3 DEF CreateGreen, TypeOK, Process, Container
<1>7. ASSUME Record(p) PROVE TypeOK'
  <2>1. Resolved(proc[p].ctr) \in 0..NCtr /\ proc[p].mode \in Modes
    BY <1>a DEF Resolved, TypeOK
  <2>2. [row[d] EXCEPT !.st = "HEALTH_CHECK", !.green = Resolved(proc[p].ctr)] \in Row
    BY <1>a, <2>1, StatusNames DEF Row
  <2>3. row' \in [Dep -> Row]
    BY <1>7, <1>a, <2>2, SaveType DEF Record
  <2>4. proc' \in [Procs -> Process]
    <3>. DEFINE m == IF Resolved(proc[p].ctr) = live THEN "direct" ELSE proc[p].mode
    <3>1. m \in Modes
      BY <2>1, <1>b
    <3>2. proc' = [proc EXCEPT ![p].pc = "refresh",
                     ![p].obj = [row[d] EXCEPT !.st = "HEALTH_CHECK", !.green = Resolved(proc[p].ctr)],
                     ![p].ctr = Resolved(proc[p].ctr), ![p].mode = m]
      BY <1>7 DEF Record
    <3>. QED
      BY <3>1, <3>2, <2>1, <2>2, <1>b, RecordUpdate
  <2>. QED
    BY <1>7, <2>3, <2>4 DEF Record, TypeOK, Process
<1>8. ASSUME WaitOk(p) PROVE TypeOK'
  <2>1. proc' \in [Procs -> Process]
    BY <1>8, <1>b, GotoType DEF WaitOk
  <2>. QED
    BY <1>8, <2>1 DEF WaitOk, TypeOK, Process
<1>9. ASSUME AddonFails(p) PROVE TypeOK'
  <2>1. row' \in [Dep -> Row] /\ proc' \in [Procs -> Process]
    BY <1>9, <1>a, <1>b, WithStatus, StatusNames, SaveType, GotoType DEF AddonFails
  <2>. QED
    BY <1>9, <2>1 DEF AddonFails, TypeOK, Process
<1>10. ASSUME CancelPreviousStaged(p) PROVE TypeOK'
  <2>1. \A e \in Dep : row[e] \in Row /\ [row[e] EXCEPT !.st = "CANCELLED"] \in Row
    BY WithStatus, StatusNames DEF TypeOK
  <2>2. row' \in [Dep -> Row]
    BY <1>10, <2>1, TypeParts DEF CancelPreviousStaged
  <2>3. ctr' \in [Ctr -> Container]
    BY <1>10, RemovedType, TypeParts DEF CancelPreviousStaged
  <2>4. proc' \in [Procs -> Process]
    BY <1>10, <1>b, GotoType DEF CancelPreviousStaged
  <2>. QED
    BY <1>10, <2>2, <2>3, <2>4 DEF CancelPreviousStaged, TypeOK, Process, Container
<1>11. ASSUME StageSave(p) PROVE TypeOK'
  <2>1. [row[d] EXCEPT !.st = "STAGED", !.cid = proc[p].ctr] \in Row
    BY <1>a, StatusNames DEF Row
  <2>2. row' \in [Dep -> Row] /\ proc' \in [Procs -> Process]
    BY <1>11, <1>a, <2>1, SaveType, DoneType DEF StageSave
  <2>. QED
    BY <1>11, <2>2 DEF StageSave, TypeOK, Process
<1>12. ASSUME ActiveSave(p) PROVE TypeOK'
  <2>1. [obj EXCEPT !.st = "ACTIVE", !.cid = proc[p].ctr] \in Row
    BY <1>a, StatusNames DEF Row
  <2>2. row' \in [Dep -> Row] /\ proc' \in [Procs -> Process]
    BY <1>12, <1>a, <1>b, <2>1, SaveType, CopyUpdate DEF ActiveSave
  <2>. QED
    BY <1>12, <2>2 DEF ActiveSave, TypeOK, Process
<1>13. ASSUME PostSave(p) PROVE TypeOK'
  <2>1. row' \in [Dep -> Row] /\ proc' \in [Procs -> Process]
    BY <1>13, <1>a, SaveLogType, DoneType DEF PostSave
  <2>2. Monitor(d, proc[p].ctr) \in Message
    BY <1>a DEF Monitor, Message, Job, TaskKinds
  <2>. QED
    BY <1>13, <2>1, <2>2 DEF PostSave, TypeOK, Process
<1>14. ASSUME Refresh(p) PROVE TypeOK'
  <2>1. proc' \in [Procs -> Process]
    BY <1>14, <1>a, <1>b, CopyUpdate DEF Refresh
  <2>. QED
    BY <1>14, <2>1 DEF Refresh, TypeOK, Process
<1>. QED
  BY <1>1, <1>2, <1>3, <1>4, <1>5, <1>6, <1>7, <1>8, <1>9, <1>10, <1>11, <1>12, <1>13, <1>14

LEMMA FailureType ==
  ASSUME TypeOK, NEW p \in Procs
  PROVE  /\ WorkFails(p) \/ TransientRetry(p) \/ FailRead(p) \/ FailSave(p) => TypeOK'
         /\ WatchOk(p) \/ WatchCrash(p) \/ DiagnoseFail(p) \/ DiagnoseFix(p) => TypeOK'
         /\ WorkerCrash(p) => TypeOK'
<1>. DEFINE d == proc[p].job.dep
            obj == proc[p].obj
<1>a. /\ d \in Dep /\ obj \in Row /\ row[d] \in Row /\ proc[p].job \in Job
      /\ [obj EXCEPT !.st = "FAILED"] \in Row
  BY ProcessParts, WithStatus, StatusNames DEF TypeOK
<1>b. "fail_read" \in PCs /\ "fail_save" \in PCs /\ "diagnose" \in PCs
  BY DEF PCs
<1>1. ASSUME WorkFails(p) PROVE TypeOK'
  <2>1. proc' \in [Procs -> Process]
    BY <1>1, <1>b, GotoType DEF WorkFails
  <2>. QED
    BY <1>1, <2>1 DEF WorkFails, TypeOK, Process
<1>2. ASSUME TransientRetry(p) PROVE TypeOK'
  <2>1. proc[p].job \in Message
    BY <1>2, <1>a DEF TransientRetry, Message, Job, TaskKinds
  <2>2. proc' \in [Procs -> Process] /\ ops' \in 0..MaxOps
    BY <1>2, DoneType, SpendType DEF TransientRetry
  <2>. QED
    BY <1>2, <2>1, <2>2 DEF TransientRetry, TypeOK, Process
<1>3. ASSUME FailRead(p) PROVE TypeOK'
  <2>1. proc' \in [Procs -> Process]
    BY <1>3, <1>a, <1>b, CopyUpdate, DoneType DEF FailRead
  <2>. QED
    BY <1>3, <2>1 DEF FailRead, TypeOK, Process
<1>4. ASSUME FailSave(p) PROVE TypeOK'
  <2>1. row' \in [Dep -> Row] /\ proc' \in [Procs -> Process] /\ ctr' \in [Ctr -> Container]
    BY <1>4, <1>a, SaveType, DoneType, RemovedType DEF FailSave
  <2>. QED
    BY <1>4, <2>1 DEF FailSave, TypeOK, Process, Container
<1>5. ASSUME WatchOk(p) PROVE TypeOK'
  <2>1. row' \in [Dep -> Row] /\ proc' \in [Procs -> Process]
    BY <1>5, <1>a, SaveLogType, DoneType DEF WatchOk
  <2>. QED
    BY <1>5, <2>1 DEF WatchOk, TypeOK, Process
<1>6. ASSUME WatchCrash(p) PROVE TypeOK'
  <2>1. row' \in [Dep -> Row]
    BY <1>6, <1>a, SaveLogType DEF WatchCrash
  <2>2. proc' \in [Procs -> Process]
    BY <1>6, <2>1, <1>a, <1>b, CopyUpdate DEF WatchCrash
  <2>. QED
    BY <1>6, <2>1, <2>2 DEF WatchCrash, TypeOK, Process
<1>7. ASSUME DiagnoseFail(p) PROVE TypeOK'
  <2>1. row' \in [Dep -> Row] /\ proc' \in [Procs -> Process]
    BY <1>7, <1>a, SaveType, DoneType DEF DiagnoseFail
  <2>. QED
    BY <1>7, <2>1 DEF DiagnoseFail, TypeOK, Process
<1>8. ASSUME DiagnoseFix(p) PROVE TypeOK'
  <2>. DEFINE saved == Save(d, [obj EXCEPT !.st = "FAILED"], obj.st)
              n == NextRow
  <2>1. saved \in [Dep -> Row] /\ n \in Dep
    BY <1>8, <1>a, SaveType DEF DiagnoseFix
  <2>2. [saved[n] EXCEPT !.st = "QUEUED"] \in Row
    BY <2>1, WithStatus, StatusNames
  <2>3. row' = [saved EXCEPT ![n].st = "QUEUED"] /\ queue' = queue \cup {Smart(n, TRUE)}
    BY <1>8 DEF DiagnoseFix
  <2>4. row' \in [Dep -> Row]
    <3>. HIDE DEF saved, n
    <3>. QED
      BY <2>1, <2>2, <2>3
  <2>5. Smart(n, TRUE) \in Message
    BY <2>1, SizesAssumption DEF Smart, Message, Job, TaskKinds
  <2>6. proc' \in [Procs -> Process]
    BY <1>8, DoneType DEF DiagnoseFix
  <2>. QED
    BY <1>8, <2>1, <2>3, <2>4, <2>5, <2>6 DEF DiagnoseFix, TypeOK, Process
<1>9. ASSUME WorkerCrash(p) PROVE TypeOK'
  <2>1. proc[p].job \in Message
    BY <1>9, <1>a DEF WorkerCrash, Message, Job, TaskKinds
  <2>2. proc' \in [Procs -> Process] /\ ops' \in 0..MaxOps
    BY <1>9, DoneType, SpendType DEF WorkerCrash
  <2>. QED
    BY <1>9, <2>1, <2>2 DEF WorkerCrash, TypeOK, Process
<1>. QED
  BY <1>1, <1>2, <1>3, <1>4, <1>5, <1>6, <1>7, <1>8, <1>9

LEMMA PlatformType ==
  ASSUME TypeOK
  PROVE  /\ Push => TypeOK'
         /\ \A d \in Dep : Rollback(d) \/ QueueRestore(d) => TypeOK'
         /\ \A S \in SUBSET Dep : BulkCancel(S) => TypeOK'
         /\ HealthHook => TypeOK'
         /\ \A c \in Ctr : Dies(c) => TypeOK'
         /\ PlanEnds => TypeOK'
<1>a. ASSUME NEW d \in Dep, NEW skip \in BOOLEAN PROVE Smart(d, skip) \in Message
  BY SizesAssumption DEF Smart, Message, Job, TaskKinds
<1>b. \A e \in Dep : /\ row[e] \in Row /\ [row[e] EXCEPT !.st = "CANCELLED"] \in Row
                     /\ [row[e] EXCEPT !.st = "ACTIVE"] \in Row
                     /\ [row[e] EXCEPT !.st = "INACTIVE"] \in Row
  BY WithStatus, StatusNames DEF TypeOK
<1>1. ASSUME Push PROVE TypeOK'
  <2>1. NextRow \in Dep /\ row' \in [Dep -> Row] /\ ops' \in 0..MaxOps
    BY <1>1, CreatedType, SpendType DEF Push
  <2>. QED
    BY <1>1, <1>a, <2>1 DEF Push, TypeOK
<1>2. ASSUME NEW d \in Dep, Rollback(d) PROVE TypeOK'
  <2>1. NextRow \in Dep /\ row' \in [Dep -> Row] /\ ops' \in 0..MaxOps
    BY <1>2, CreatedType, SpendType DEF Rollback
  <2>. QED
    BY <1>2, <1>a, <2>1 DEF Rollback, TypeOK
<1>3. ASSUME NEW d \in Dep, QueueRestore(d) PROVE TypeOK'
  <2>1. ops' \in 0..MaxOps
    BY <1>3, SpendType DEF QueueRestore
  <2>2. (d \in direct) \in BOOLEAN
    OBVIOUS
  <2>3. Smart(d, d \in direct) \in Message
    BY <1>a, <2>2
  <2>. QED
    BY <1>3, <2>1, <2>3 DEF QueueRestore, TypeOK
<1>4. ASSUME NEW S \in SUBSET Dep, BulkCancel(S) PROVE TypeOK'
  <2>1. row' \in [Dep -> Row] /\ ops' \in 0..MaxOps
    BY <1>4, <1>b, SpendType DEF BulkCancel
  <2>2. queue' \subseteq Message /\ proc' \in [Procs -> Process]
    BY <1>4, RevokeType DEF BulkCancel
  <2>. QED
    BY <1>4, <2>1, <2>2 DEF BulkCancel, TypeOK, Process
<1>5. ASSUME HealthHook PROVE TypeOK'
  <2>1. row' \in [Dep -> Row] /\ ops' \in 0..MaxOps
    BY <1>5, <1>b, SpendType DEF HealthHook
  <2>. QED
    BY <1>5, <2>1 DEF HealthHook, TypeOK
<1>6. ASSUME NEW c \in Ctr, Dies(c) PROVE TypeOK'
  <2>1. ops' \in 0..MaxOps
    BY <1>6, SpendType DEF Dies
  <2>2. ctr' \in [Ctr -> Container]
    BY <1>6 DEF Dies, TypeOK, Container
  <2>. QED
    BY <1>6, <2>1, <2>2 DEF Dies, TypeOK, Container
<1>7. ASSUME PlanEnds PROVE TypeOK'
  BY <1>7 DEF PlanEnds, TypeOK
<1>. QED
  BY <1>1, <1>2, <1>3, <1>4, <1>5, <1>6, <1>7

LEMMA TypeStep == TypeOK /\ [Next]_vars => TypeOK'
<1>. SUFFICES ASSUME TypeOK, [Next]_vars PROVE TypeOK'
  OBVIOUS
<1>1. ASSUME NEW p \in Procs, Step(p) PROVE TypeOK'
  BY <1>1, RequestsType, CommitsType, WorkType, FailureType DEF Step
<1>2. ASSUME NEW p \in Procs, NEW j \in queue, Take(p, j) PROVE TypeOK'
  BY <1>2, TakeType
<1>3. ASSUME Environment PROVE TypeOK'
  BY <1>3, RequestsType, FailureType, PlatformType DEF Environment
<1>4. CASE UNCHANGED vars
  BY <1>4 DEF vars, TypeOK
<1>. QED
  BY <1>1, <1>2, <1>3, <1>4 DEF Next

\* Every variable stays in its domain, however many rows, processes, containers and
\* messages there are.
THEOREM TypeCorrect == Spec => []TypeOK
  BY TypeInit, TypeStep, PTL DEF Spec

---------------------------------------------------------------------------
(* At most one ACTIVE row.  The invariant is inductive over the typed states: *)
(* each save either demotes the others, by the status in memory, or leaves    *)
(* the set of ACTIVE rows or makes it smaller.                                *)

\* A save whose new row is ACTIVE carries ACTIVE in memory, or changes nothing.
LEMMA SaveKeepsOneActive ==
  ASSUME TypeOK, OneActive, NEW d \in Dep, NEW new \in Row, NEW memSt,
         new.st = "ACTIVE" => memSt = "ACTIVE" \/ row[d].st = "ACTIVE",
         row' = Save(d, new, memSt)
  PROVE  OneActive'
<1>. SUFFICES ASSUME NEW a \in Dep, NEW b \in Dep, row'[a].st = "ACTIVE", row'[b].st = "ACTIVE"
              PROVE  a = b
  BY DEF OneActive
<1>1. ASSUME NEW e \in Dep \ {d}, row'[e].st = "ACTIVE"
      PROVE  row[e].st = "ACTIVE" /\ memSt # "ACTIVE"
  <2>1. row[e] \in Row
    BY DEF TypeOK
  <2>2. [row[e] EXCEPT !.st = "INACTIVE"].st = "INACTIVE"
    BY <2>1 DEF Row
  <2>. QED
    BY <1>1, <2>2 DEF Save
<1>2. row'[d] = new
  BY DEF Save
<1>. QED
  BY <1>1, <1>2 DEF OneActive

\* A step that makes no row ACTIVE keeps the property.
LEMMA FewerActive ==
  ASSUME OneActive, \A d \in Dep : row'[d].st = "ACTIVE" => row[d].st = "ACTIVE"
  PROVE  OneActive'
  BY DEF OneActive

LEMMA SaveStatusKeepsOneActive ==
  ASSUME TypeOK, OneActive, NEW d \in Dep, NEW s \in Status, row' = SaveStatus(d, s)
  PROVE  OneActive'
<1>1. row[d] \in Row /\ [row[d] EXCEPT !.st = s] \in Row /\ [row[d] EXCEPT !.st = s].st = s
  BY WithStatus DEF TypeOK
<1>. QED
  BY <1>1, SaveKeepsOneActive DEF SaveStatus

LEMMA SaveLogKeepsOneActive ==
  ASSUME TypeOK, OneActive, NEW d \in Dep, NEW memSt, row' = SaveLog(d, memSt)
  PROVE  OneActive'
<1>1. row[d] \in Row
  BY DEF TypeOK
<1>. QED
  BY <1>1, SaveKeepsOneActive DEF SaveLog

LEMMA CreatedKeepsOneActive ==
  ASSUME TypeOK, OneActive, NEW d \in Dep, row' = Created(d)
  PROVE  OneActive'
<1>1. \A e \in Dep : row'[e].st = "ACTIVE" => row[e].st = "ACTIVE"
  BY DEF Created, TypeOK, Row
<1>. QED
  BY <1>1, FewerActive

\* A whole copy saved with a status that is not ACTIVE.
LEMMA CopySaveKeepsOneActive ==
  ASSUME TypeOK, OneActive, NEW d \in Dep, NEW o \in Row, NEW s \in Status \ {"ACTIVE"}, NEW memSt,
         row' = Save(d, [o EXCEPT !.st = s], memSt)
  PROVE  OneActive'
<1>1. [o EXCEPT !.st = s] \in Row /\ [o EXCEPT !.st = s].st = s
  BY WithStatus
<1>. QED
  BY <1>1, SaveKeepsOneActive

LEMMA OneActiveStep ==
  ASSUME TypeOK, OneActive, NEW p \in Procs, Step(p)
  PROVE  OneActive'
<1>. DEFINE d == proc[p].job.dep
            obj == proc[p].obj
<1>a. d \in Dep /\ obj \in Row /\ row[d] \in Row /\ proc[p].ctr \in 0..NCtr
  BY ProcessParts DEF TypeOK
<1>b. \A e \in Dep : row[e] \in Row
  BY DEF TypeOK
<1>1. CASE UNCHANGED row
  BY <1>1, FewerActive
<1>2. CASE TriggerCreate(p)
  BY <1>2, CreatedKeepsOneActive DEF TriggerCreate
<1>3. CASE CancelCommit(p)
  BY <1>3, <1>a, CopySaveKeepsOneActive, StatusNames DEF CancelCommit
<1>4. CASE ApproveCommit(p) \/ RetryCommit(p) \/ Supersede(p) \/ AnalysisDone(p)
  BY <1>4, <1>a, SaveStatusKeepsOneActive, StatusNames
     DEF ApproveCommit, RetryCommit, Supersede, AnalysisDone
<1>5. CASE SweepCommit(p) \/ ReapCommit(p) \/ PromoteFails(p)
  BY <1>5, <1>a, <1>1, SaveStatusKeepsOneActive, StatusNames DEF SweepCommit, ReapCommit, PromoteFails
<1>6. CASE PromoteCut(p) \/ Proceed(p) \/ BuildDone(p) \/ CreateLive(p) \/ CreateGreen(p) \/ Refresh(p) \/ WaitOk(p)
           \/ WorkFails(p) \/ FailRead(p)
  BY <1>6, <1>1 DEF PromoteCut, Proceed, BuildDone, CreateLive, CreateGreen, Refresh, WaitOk, WorkFails, FailRead
<1>7. CASE Record(p)
  <2>. DEFINE new == [row[d] EXCEPT !.st = "HEALTH_CHECK", !.green = Resolved(proc[p].ctr)]
  <2>1. Resolved(proc[p].ctr) \in 0..NCtr
    BY <1>a DEF Resolved, TypeOK
  <2>2. new \in Row /\ new.st = "HEALTH_CHECK"
    BY <1>a, <2>1, StatusNames DEF Row
  <2>3. row' = Save(d, new, "HEALTH_CHECK")
    BY <1>7 DEF Record
  <2>. QED
    BY <1>a, <2>2, <2>3, SaveKeepsOneActive
<1>8. CASE AddonFails(p) \/ FailSave(p) \/ DiagnoseFail(p)
  BY <1>8, <1>a, CopySaveKeepsOneActive, StatusNames DEF AddonFails, FailSave, DiagnoseFail
<1>9. CASE CancelPreviousStaged(p)
  <2>1. \A e \in Dep : [row[e] EXCEPT !.st = "CANCELLED"].st = "CANCELLED"
    BY <1>b DEF Row
  <2>2. \A e \in Dep : row'[e].st = "ACTIVE" => row[e].st = "ACTIVE"
    BY <1>9, <2>1 DEF CancelPreviousStaged
  <2>. QED
    BY <2>2, FewerActive
<1>10. CASE StageSave(p)
  <2>1. [row[d] EXCEPT !.st = "STAGED", !.cid = proc[p].ctr] \in Row
    BY <1>a, StatusNames DEF Row
  <2>2. [row[d] EXCEPT !.st = "STAGED", !.cid = proc[p].ctr].st = "STAGED"
    BY <1>a DEF Row
  <2>. QED
    BY <1>10, <1>a, <2>1, <2>2, SaveKeepsOneActive DEF StageSave
<1>11. CASE ActiveSave(p)
  <2>1. [obj EXCEPT !.st = "ACTIVE", !.cid = proc[p].ctr] \in Row
    BY <1>a, StatusNames DEF Row
  <2>. QED
    BY <1>11, <1>a, <2>1, SaveKeepsOneActive DEF ActiveSave
<1>12. CASE PostSave(p) \/ WatchOk(p) \/ WatchCrash(p)
  BY <1>12, <1>a, SaveLogKeepsOneActive DEF PostSave, WatchOk, WatchCrash
<1>13. CASE DiagnoseFix(p)
  <2>. DEFINE saved == Save(d, [obj EXCEPT !.st = "FAILED"], obj.st)
  <2>1. [obj EXCEPT !.st = "FAILED"] \in Row /\ [obj EXCEPT !.st = "FAILED"].st = "FAILED"
    BY <1>a, WithStatus, StatusNames
  <2>2. saved \in [Dep -> Row]
    BY <1>a, <2>1, SaveType
  <2>3. \A e \in Dep : saved[e].st = "ACTIVE" => row[e].st = "ACTIVE"
    BY <2>1 DEF Save
  <2>4. row' = [saved EXCEPT ![NextRow].st = "QUEUED"]
    BY <1>13 DEF DiagnoseFix
  <2>5. \A e \in Dep : row'[e].st = "ACTIVE" => row[e].st = "ACTIVE"
    <3>. HIDE DEF saved
    <3>. QED
      BY <2>2, <2>3, <2>4 DEF Row
  <2>. QED
    BY <2>5, FewerActive
<1>. QED
  BY <1>2, <1>3, <1>4, <1>5, <1>6, <1>7, <1>8, <1>9, <1>10, <1>11, <1>12, <1>13 DEF Step

LEMMA OneActiveEnvironment ==
  ASSUME TypeOK, OneActive, Environment
  PROVE  OneActive'
<1>b. \A e \in Dep : /\ row[e] \in Row /\ [row[e] EXCEPT !.st = "CANCELLED"].st = "CANCELLED"
                     /\ [row[e] EXCEPT !.st = "INACTIVE"].st = "INACTIVE"
                     /\ [row[e] EXCEPT !.st = "FAILED"].st = "FAILED"
  BY DEF TypeOK, Row
<1>1. CASE UNCHANGED row
  BY <1>1, FewerActive
<1>2. ASSUME NEW p \in Procs, TriggerCheck(p) PROVE OneActive'
  <2>1. \A e \in Dep : row'[e].st = "ACTIVE" => row[e].st = "ACTIVE"
    BY <1>2, <1>b DEF TriggerCheck, AfterStaleCancel
  <2>. QED
    BY <2>1, FewerActive
<1>3. ASSUME NEW p \in Procs, WorkerCrash(p) \/ TransientRetry(p) PROVE OneActive'
  BY <1>3, <1>1 DEF WorkerCrash, TransientRetry
<1>4. CASE Push
  BY <1>4, CreatedKeepsOneActive DEF Push
<1>5. ASSUME NEW d \in Dep, Rollback(d) PROVE OneActive'
  BY <1>5, CreatedKeepsOneActive DEF Rollback
<1>6. ASSUME NEW d \in Dep, QueueRestore(d) PROVE OneActive'
  BY <1>6, <1>1 DEF QueueRestore
<1>7. ASSUME NEW p \in Procs, NEW k \in RequestKinds, NEW d \in Dep, Read(p, k, d) PROVE OneActive'
  BY <1>7, <1>1 DEF Read
<1>8. ASSUME NEW S \in SUBSET Dep, BulkCancel(S) PROVE OneActive'
  <2>1. \A e \in Dep : row'[e].st = "ACTIVE" => row[e].st = "ACTIVE"
    BY <1>8, <1>b DEF BulkCancel
  <2>. QED
    BY <2>1, FewerActive
<1>9. CASE HealthHook
  <2>1. PICK last \in Dep : \A e \in Dep \ {last} : row'[e].st # "ACTIVE"
    BY <1>9, <1>b DEF HealthHook
  <2>. QED
    BY <2>1 DEF OneActive
<1>10. ASSUME NEW c \in Ctr, Dies(c) PROVE OneActive'
  BY <1>10, <1>1 DEF Dies
<1>11. CASE PlanEnds
  BY <1>11, <1>1 DEF PlanEnds
<1>. QED
  BY <1>2, <1>3, <1>4, <1>5, <1>6, <1>7, <1>8, <1>9, <1>10, <1>11 DEF Environment

\* At most one row of the service is ACTIVE, for any number of rows and processes and
\* any interleaving of handlers, tasks, sweeps and mishaps.
THEOREM AtMostOneActive == Spec => []OneActive
<1>1. Init => OneActive
  BY DEF Init, OneActive, NoRow
<1>2. TypeOK /\ OneActive /\ [Next]_vars => OneActive'
  <2>. SUFFICES ASSUME TypeOK, OneActive, [Next]_vars PROVE OneActive'
    OBVIOUS
  <2>1. ASSUME NEW p \in Procs, NEW j \in queue, Take(p, j) PROVE OneActive'
    BY <2>1, FewerActive DEF Take
  <2>2. CASE UNCHANGED vars
    BY <2>2, FewerActive DEF vars
  <2>. QED
    BY <2>1, <2>2, OneActiveStep, OneActiveEnvironment DEF Next
<1>. QED
  BY <1>1, <1>2, TypeCorrect, PTL DEF Spec

==============================================================================
