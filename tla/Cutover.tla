------------------------------ MODULE Cutover ------------------------------
(***************************************************************************)
(* The containers of one service while its deployments go live:            *)
(* promote_container() of the local Docker adapter, call by call, run by   *)
(* an operator's promotion, the automatic promotion of staged deployments  *)
(* or a deployment that cuts over by itself, which may still fail when the *)
(* name has been switched; and who else touches the same containers: the   *)
(* green reaper, the orphan sweep, and a staged deployment that supersedes *)
(* the earlier ones.                                                       *)
(*                                                                         *)
(* Docker serialises its calls and lets one container have a name; between *)
(* two calls anything may happen.                                          *)
(***************************************************************************)
EXTENDS Integers, FiniteSets

CONSTANTS
  Promoters,  \* promotions that may run
  Deps,       \* deployments, each with a green container
  Prev,       \* the deployment that is live at the beginning, if one is
  None,
  Faults,     \* "api": a Docker call fails; "crash": a worker dies;
              \* "sick": a green turns unhealthy; "reap", "sweep": the beat tasks;
              \* "supersede": another staged deployment of the service
  MaxMishaps  \* bound on those in a behaviour

ASSUME IdsAssumption ==
  /\ Prev \notin Deps /\ None \notin Deps \cup {Prev} \cup Promoters
  /\ MaxMishaps \in Nat

VARIABLES
  ctr,      \* ctr[c]: the name container c has ("" if it does not exist), and its state
  row,      \* row[d]: status, green_container_id and container_id of the database row
  proc,     \* proc[p]: the promotion p
  passed,   \* history: containers that have served, or passed their health check under the name
  beat,     \* the reaper, the sweep or a superseding deployment: how far it is with a container
  discarded,\* history: a container that had passed was removed by the sweep, by its own
            \* deployment's failure, or because another one superseded it
  spoiled,  \* history: an event after which the name is not guaranteed
  mishaps   \* mishaps so far

vars == <<ctr, row, proc, passed, beat, discarded, spoiled, mishaps>>
dockerVars == <<ctr, passed, discarded>>

OldCtr       == <<"old", None>>
Green(d)     == <<"green", d>>
New(p)       == <<"new", p>>
Emergency(p) == <<"emergency", p>>
Ctr == {OldCtr} \cup {Green(d) : d \in Deps} \cup {New(p) : p \in Promoters}
         \cup {Emergency(p) : p \in Promoters}

\* "No container" is not a container.
ASSUME NoneAssumption == None \notin Ctr

Status == {"BUILDING", "HEALTH_CHECK", "STAGED", "ACTIVE", "INACTIVE", "FAILED", "CANCELLED"}
PCs == {"idle", "check", "get", "stop", "rename", "create", "conflict", "aside", "again", "start",
        "wait", "drop_green", "drop_old", "record", "mark", "discard", "undo", "restore", "restart",
        "emergency", "failed", "end", "dead"}
\* The old container may be off its name, the new one unproven or about to be removed.
Switching == {"rename", "create", "conflict", "aside", "again", "start", "wait", "discard", "undo",
              "restore", "restart", "emergency"}

NoCtr == [name |-> "", up |-> FALSE, sick |-> FALSE]
NoJob == [pc |-> "idle", dep |-> None, kind |-> None, began |-> FALSE, old |-> None,
          wasUp |-> FALSE, result |-> "pending"]

NoBeat == [pc |-> "idle", ctr |-> OldCtr, dep |-> None]

\* The green_container_id of a staged row stays what it is when the row goes live.
Row(st, c) == [st |-> st, green |-> c, cid |-> c]

\* Greens wait under their own names; the service has a live container, or this is
\* its first deployment.
Init ==
  /\ \E first \in BOOLEAN :
       /\ ctr = [c \in Ctr |-> CASE c[1] = "green" -> [NoCtr EXCEPT !.name = "green", !.up = TRUE]
                                 [] c = OldCtr /\ ~first -> [NoCtr EXCEPT !.name = "live", !.up = TRUE]
                                 [] OTHER -> NoCtr]
       /\ passed = IF first THEN {} ELSE {OldCtr}
       /\ \E staged \in SUBSET Deps :
            row = [d \in Deps \cup {Prev} |->
                     IF d = Prev
                       THEN IF first THEN Row("INACTIVE", None) ELSE Row("ACTIVE", OldCtr)
                       ELSE IF d \in staged THEN Row("STAGED", Green(d)) ELSE Row("BUILDING", None)]
  /\ proc = [p \in Promoters |-> NoJob]
  /\ beat = NoBeat
  /\ discarded = FALSE
  /\ spoiled = FALSE
  /\ mishaps = 0

At(p, pc) == proc[p].pc = pc
Exists(c) == ctr[c].name # ""
Holders   == {c \in Ctr : ctr[c].name = "live"}
Begun     == {p \in Promoters : proc[p].began /\ proc[p].pc \notin {"end", "dead"}}

Goto(p, pc)     == proc' = [proc EXCEPT ![p].pc = pc]
\* What is still known of a promotion that is over.
Finish(p, pc, result) ==
  proc' = [proc EXCEPT ![p] = [@ EXCEPT !.pc = pc, !.old = None, !.wasUp = FALSE, !.result = result]]
Removed(c)      == [ctr EXCEPT ![c] = NoCtr]
Named(c, n)     == [ctr EXCEPT ![c].name = n]
Stopped(c)      == [ctr EXCEPT ![c].up = FALSE]
Started(c)      == [ctr EXCEPT ![c].up = TRUE]
Created(c)      == [ctr EXCEPT ![c] = [NoCtr EXCEPT !.name = "live"]]

Mishap(kind) == kind \in Faults /\ mishaps < MaxMishaps /\ mishaps' = mishaps + 1
Trouble      == Mishap("api")
Fine         == UNCHANGED mishaps

---------------------------------------------------------------------------
(* Who promotes *)

\* The row is read: an operator's request and the list of the beat task find it
\* STAGED ("staged" is either); a deployment's own task is still building it.
Start(p, d, kind) ==
  /\ At(p, "idle")
  /\ row[d].st = IF kind = "deploy" THEN "BUILDING" ELSE "STAGED"
  /\ kind = "deploy" => \A q \in Promoters : proc[q].dep = d => proc[q].kind # "deploy"
  /\ proc' = [proc EXCEPT ![p].pc = "check", ![p].dep = d, ![p].kind = kind]
  /\ Fine
  /\ UNCHANGED <<dockerVars, row, beat, spoiled>>

\* Faulty: a state nobody handles.
CheckStuck(p) ==
  /\ At(p, "check")
  /\ Goto(p, IF Exists(Green(proc[p].dep)) THEN "get" ELSE "refused")
  /\ Fine
  /\ UNCHANGED <<dockerVars, row, beat, spoiled>>

\* Nothing is touched when the green is gone, stopped or unhealthy.
Check(p) ==
  /\ At(p, "check")
  /\ LET g == ctr[Green(proc[p].dep)]
         fit == g.name # "" /\ g.up /\ ~g.sick
     IN \/ Fine /\ Goto(p, IF fit THEN "get" ELSE "failed")
        \/ Trouble /\ Goto(p, "failed")
  /\ UNCHANGED <<dockerVars, row, beat, spoiled>>

---------------------------------------------------------------------------
(* Preserving the live container *)

\* containers.get(name).  A second promotion of the service is not kept out.
Get(p) ==
  /\ At(p, "get")
  /\ \/ /\ Fine
        /\ IF Holders = {}
             THEN proc' = [proc EXCEPT ![p].pc = "create", ![p].began = TRUE]
             ELSE \E c \in Holders :
                    proc' = [proc EXCEPT ![p].pc = "stop", ![p].began = TRUE,
                                         ![p].old = c, ![p].wasUp = ctr[c].up]
        /\ spoiled' = (spoiled \/ Begun # {})
     \/ Trouble /\ Goto(p, "failed") /\ UNCHANGED spoiled
  /\ UNCHANGED <<dockerVars, row, beat>>

\* Best effort.
StopOld(p) ==
  /\ At(p, "stop")
  /\ \/ Fine /\ ctr' = Stopped(proc[p].old)
     \/ Trouble /\ UNCHANGED ctr
  /\ Goto(p, "rename")
  /\ UNCHANGED <<passed, discarded, row, beat, spoiled>>

\* A container that has gone meanwhile counts as no container; any other error
\* ends the promotion with the old container stopped.
RenameOld(p) ==
  /\ At(p, "rename")
  /\ \/ /\ ctr' = IF Exists(proc[p].old) THEN Named(proc[p].old, "backup") ELSE ctr
        /\ Goto(p, "create") /\ Fine /\ UNCHANGED spoiled
     \/ Trouble /\ Goto(p, "failed") /\ spoiled' = TRUE /\ UNCHANGED ctr
  /\ UNCHANGED <<passed, discarded, row, beat>>

---------------------------------------------------------------------------
(* The new container *)

Create(p) ==
  /\ At(p, "create")
  /\ \/ Holders = {} /\ ctr' = Created(New(p)) /\ Goto(p, "start") /\ Fine
     \/ Holders # {} /\ Goto(p, "conflict") /\ Fine /\ UNCHANGED ctr
     \/ Trouble /\ Goto(p, "undo") /\ UNCHANGED ctr
  /\ UNCHANGED <<passed, discarded, row, beat, spoiled>>

\* Another actor has taken the name: its container is stopped, moved aside, and
\* the creation tried once more.
StopHolder(p) ==
  /\ At(p, "conflict")
  /\ \/ \E c \in Holders : ctr' = Stopped(c) /\ Fine
     \/ ((Holders = {} /\ Fine) \/ Trouble) /\ UNCHANGED ctr
  /\ Goto(p, "aside")
  /\ UNCHANGED <<passed, discarded, row, beat, spoiled>>

MoveAside(p) ==
  /\ At(p, "aside")
  /\ \/ \E c \in Holders : ctr' = Named(c, "aside") /\ Goto(p, "again") /\ Fine
     \/ ((Holders = {} /\ Fine) \/ Trouble) /\ Goto(p, "undo") /\ UNCHANGED ctr
  /\ UNCHANGED <<passed, discarded, row, beat, spoiled>>

CreateAgain(p) ==
  /\ At(p, "again")
  /\ \/ Holders = {} /\ ctr' = Created(New(p)) /\ Goto(p, "start") /\ Fine
     \/ ((Holders # {} /\ Fine) \/ Trouble) /\ Goto(p, "undo") /\ UNCHANGED ctr
  /\ UNCHANGED <<passed, discarded, row, beat, spoiled>>

StartNew(p) ==
  /\ At(p, "start")
  /\ \/ Exists(New(p)) /\ ctr' = Started(New(p)) /\ Goto(p, "wait") /\ Fine
     \/ ((~Exists(New(p)) /\ Fine) \/ Trouble) /\ Goto(p, "undo") /\ UNCHANGED ctr
  /\ UNCHANGED <<passed, discarded, row, beat, spoiled>>

\* Faulty: the container is taken for healthy as soon as it was started.
WaitNot(p) ==
  /\ At(p, "wait")
  /\ Goto(p, "drop_green") /\ UNCHANGED passed /\ Fine
  /\ UNCHANGED <<ctr, discarded, row, beat, spoiled>>

\* _wait_container_healthy() looks the container up by its id: one that was moved
\* aside is stopped, and fails.
Wait(p) ==
  /\ At(p, "wait")
  /\ \/ /\ Exists(New(p)) /\ ctr[New(p)].up
        /\ passed' = passed \cup {New(p)} /\ Goto(p, "drop_green")
     \/ Goto(p, "undo") /\ UNCHANGED passed
  /\ Fine
  /\ UNCHANGED <<ctr, discarded, row, beat, spoiled>>

\* Both removals are best effort.
DropGreen(p) ==
  /\ At(p, "drop_green")
  /\ \/ ctr' = Removed(Green(proc[p].dep)) /\ Fine
     \/ Trouble /\ UNCHANGED ctr
  /\ Goto(p, "drop_old")
  /\ UNCHANGED <<passed, discarded, row, beat, spoiled>>

DropOld(p) ==
  /\ At(p, "drop_old")
  /\ \/ proc[p].old # None /\ ctr' = Removed(proc[p].old) /\ Fine
     \/ ((proc[p].old = None /\ Fine) \/ Trouble) /\ UNCHANGED ctr
  /\ Goto(p, IF proc[p].kind = "deploy" THEN "record" ELSE "mark")
  /\ UNCHANGED <<passed, discarded, row, beat, spoiled>>

---------------------------------------------------------------------------
(* The row, after promote_container() has returned *)

\* A deployment's own task looks its container up by the id promote_container() returned,
\* or by the name if it is gone, and goes on checking it.
Record(p) ==
  /\ At(p, "record")
  /\ \E live \in {New(p)} \cup (IF Exists(New(p)) THEN {} ELSE Holders) :
       row' = [row EXCEPT ![proc[p].dep].st = "HEALTH_CHECK", ![proc[p].dep].green = live]
  /\ Goto(p, "mark") /\ Fine
  /\ UNCHANGED <<dockerVars, beat, spoiled>>

\* The container's readiness, its sidecar or its addons fail.  The row becomes FAILED
\* unless it was cancelled; the failing addons write FAILED over that too.
ChecksFail(p) ==
  /\ At(p, "mark") /\ proc[p].kind = "deploy"
  /\ \/ row' = [row EXCEPT ![proc[p].dep].st = "FAILED"] /\ Goto(p, "discard")
     \/ row[proc[p].dep].st = "CANCELLED" /\ Finish(p, "end", "failed") /\ UNCHANGED row
  /\ Fine
  /\ UNCHANGED <<dockerVars, beat, spoiled>>

\* _handle_failure() removes the container the row names: the live one by now.  Best effort.
Discard(p) ==
  /\ At(p, "discard")
  /\ LET live == row[proc[p].dep].green IN
       \/ /\ ctr' = Removed(live) /\ discarded' = (discarded \/ live \in passed)
          /\ Fine /\ UNCHANGED spoiled
       \/ Trouble /\ spoiled' = TRUE /\ UNCHANGED <<ctr, discarded>>
  /\ Finish(p, "end", "withdrawn")
  /\ UNCHANGED <<passed, row, beat>>

\* Faulty: the row keeps the id of the green.
MarkGreen(p) ==
  /\ At(p, "mark")
  /\ row' = [d \in DOMAIN row |-> IF d = proc[p].dep THEN [row[d] EXCEPT !.st = "ACTIVE"]
                                  ELSE IF row[d].st = "ACTIVE" THEN [row[d] EXCEPT !.st = "INACTIVE"]
                                  ELSE row[d]]
  /\ Finish(p, "end", "promoted")
  /\ Fine
  /\ UNCHANGED <<dockerVars, beat, spoiled>>

\* The row becomes ACTIVE, save() demotes the other one.
Mark(p) ==
  /\ At(p, "mark")
  /\ row' = [d \in DOMAIN row |-> IF d = proc[p].dep
                                    THEN IF proc[p].kind = "deploy" THEN Row("ACTIVE", row[d].green)
                                         ELSE [row[d] EXCEPT !.st = "ACTIVE", !.cid = New(p)]
                                  ELSE IF row[d].st = "ACTIVE" THEN [row[d] EXCEPT !.st = "INACTIVE"]
                                  ELSE row[d]]
  /\ Finish(p, "end", "promoted")
  /\ Fine
  /\ UNCHANGED <<dockerVars, beat, spoiled>>

---------------------------------------------------------------------------
(* A step has failed: the way back *)

\* Faulty: cleans up only when there is something to restore.
UndoIfOld(p) ==
  /\ At(p, "undo")
  /\ ctr' = IF proc[p].old = None THEN ctr ELSE Removed(New(p))
  /\ Goto(p, IF proc[p].old = None THEN "failed" ELSE "restore") /\ Fine
  /\ UNCHANGED <<passed, discarded, row, beat, spoiled>>

Undo(p) ==
  /\ At(p, "undo")
  /\ \/ ctr' = Removed(New(p)) /\ Fine /\ UNCHANGED spoiled
     \/ Trouble /\ Exists(New(p)) /\ spoiled' = TRUE /\ UNCHANGED ctr
  /\ Goto(p, IF proc[p].old = None THEN "failed" ELSE "restore")
  /\ UNCHANGED <<passed, discarded, row, beat>>

\* reload() tells the name the container has by now.  When it fails, the attributes
\* of the first look are used: nothing seems to need a rename, nor, if it ran then, a
\* start.  When the name is taken the promotion gives up.
Restore(p) ==
  /\ At(p, "restore")
  /\ LET old == proc[p].old IN
       \/ ~Exists(old) /\ Goto(p, "emergency") /\ Fine /\ UNCHANGED <<ctr, spoiled>>
       \/ /\ Exists(old) /\ Holders \subseteq {old}
          /\ ctr' = Named(old, "live") /\ Goto(p, "restart") /\ Fine /\ UNCHANGED spoiled
       \/ /\ Exists(old) /\ ((Holders \ {old} # {} /\ Fine) \/ Trouble)
          /\ Goto(p, "failed") /\ spoiled' = TRUE /\ UNCHANGED ctr
       \/ /\ Trouble /\ Goto(p, IF proc[p].wasUp THEN "failed" ELSE "restart")
          /\ spoiled' = TRUE /\ UNCHANGED ctr
  /\ UNCHANGED <<passed, discarded, row, beat>>

Restart(p) ==
  /\ At(p, "restart")
  /\ \/ Exists(proc[p].old) /\ ctr' = Started(proc[p].old) /\ Fine /\ UNCHANGED spoiled
     \/ ((~Exists(proc[p].old) /\ Fine) \/ Trouble) /\ spoiled' = TRUE /\ UNCHANGED ctr
  /\ Goto(p, "failed")
  /\ UNCHANGED <<passed, discarded, row, beat>>

\* The old container is gone: a new one is made from the image that has just failed.
Recreate(p) ==
  /\ At(p, "emergency")
  /\ \/ Holders = {} /\ ctr' = [Created(Emergency(p)) EXCEPT ![Emergency(p)].up = TRUE] /\ Fine
     \/ ((Holders # {} /\ Fine) \/ Trouble) /\ UNCHANGED ctr
  /\ spoiled' = TRUE
  /\ Goto(p, "failed")
  /\ UNCHANGED <<passed, discarded, row, beat>>

\* The automatic promotion marks the row FAILED when the green is gone or at the fifth
\* failure, whatever the row says by now; a deployment's own task always does, and finds
\* no container in the row to remove; an operator's request writes nothing.
Fail(p) ==
  /\ At(p, "failed")
  /\ \/ /\ row' = [row EXCEPT ![proc[p].dep].st = "FAILED"]
        /\ spoiled' = (spoiled \/ row[proc[p].dep].st = "ACTIVE")
     \/ proc[p].kind # "deploy" /\ UNCHANGED <<row, spoiled>>
  /\ Finish(p, "end", "failed")
  /\ Fine
  /\ UNCHANGED <<dockerVars, beat>>

Crash(p) ==
  /\ Mishap("crash") /\ proc[p].pc \notin {"idle", "end", "dead"}
  /\ Finish(p, "dead", "abandoned")
  /\ spoiled' = (spoiled \/ proc[p].pc \in Switching)
  /\ UNCHANGED <<dockerVars, row, beat>>

Sick(d) ==
  /\ Mishap("sick") /\ Exists(Green(d)) /\ ~ctr[Green(d)].sick
  /\ ctr' = [ctr EXCEPT ![Green(d)].sick = TRUE]
  /\ UNCHANGED <<passed, discarded, row, proc, beat, spoiled>>

---------------------------------------------------------------------------
(* The beat tasks, and a deployment that supersedes staged ones *)

\* The ids rows with one of these statuses refer to.
Ids(statuses) ==
  {c \in Ctr : \E d \in DOMAIN row : row[d].st \in statuses /\ c \in {row[d].green, row[d].cid}}

\* reap_failed_greens_task, for one container: the ids of ACTIVE rows are read first ...
ReapLive(c) ==
  /\ Mishap("reap") /\ beat.pc = "idle"
  /\ Exists(c) /\ c \notin Ids({"ACTIVE"})
  /\ beat' = [NoBeat EXCEPT !.pc = "rows", !.ctr = c]
  /\ UNCHANGED <<dockerVars, row, proc, spoiled>>

\* ... then the rows that failed, were cancelled or are staged ...
ReapRows ==
  /\ beat.pc = "rows"
  /\ beat' = IF beat.ctr \in Ids({"FAILED", "CANCELLED"}) THEN [beat EXCEPT !.pc = "stop"]
               ELSE IF beat.ctr \in Ids({"STAGED"}) THEN [beat EXCEPT !.pc = "stop_sick"]
               ELSE NoBeat
  /\ Fine
  /\ UNCHANGED <<dockerVars, row, proc, spoiled>>

\* ... and it is stopped: for a staged row only when it runs and is unhealthy.
ReapStop ==
  /\ beat.pc \in {"stop", "stop_sick"}
  /\ LET c == beat.ctr IN
       ctr' = IF Exists(c) /\ (beat.pc = "stop_sick" => ctr[c].up /\ ctr[c].sick) THEN Stopped(c) ELSE ctr
  /\ beat' = NoBeat /\ Fine
  /\ UNCHANGED <<passed, discarded, row, proc, spoiled>>

\* The orphan sweep, for one container: is it referred to by a row that has a
\* container_id and has neither failed nor been cancelled ...
Referred == {c \in Ctr : \E d \in DOMAIN row : /\ row[d].st \notin {"FAILED", "CANCELLED"}
                                             /\ row[d].cid # None /\ c \in {row[d].green, row[d].cid}}
SweepRefs(c) ==
  /\ Mishap("sweep") /\ beat.pc = "idle" /\ Exists(c)
  /\ beat' = [NoBeat EXCEPT !.pc = IF c \in Referred THEN "list_referred" ELSE "list", !.ctr = c]
  /\ UNCHANGED <<dockerVars, row, proc, spoiled>>

\* ... what name does it have when the containers are listed: a green nobody refers to
\* is to go, and a backup, whose grace period is counted from its creation ...
SweepList ==
  /\ beat.pc \in {"list", "list_referred"}
  /\ LET name == ctr[beat.ctr].name IN
       beat' = IF name = "backup" \/ (name = "green" /\ beat.pc = "list")
                    THEN [beat EXCEPT !.pc = "remove"] ELSE NoBeat
  /\ Fine
  /\ UNCHANGED <<dockerVars, row, proc, spoiled>>

\* ... and it is removed, whatever it is called by now.
SweepRemove ==
  /\ beat.pc = "remove"
  /\ LET c == beat.ctr IN
       /\ ctr' = Removed(c)
       /\ discarded' = (discarded \/ c \in passed)
       /\ spoiled' = (spoiled \/ c[1] # "green")
  /\ beat' = NoBeat /\ Fine
  /\ UNCHANGED <<passed, row, proc>>

\* _cancel_previous_staged() of another deployment, which is about to be staged and is not
\* modelled itself: for one row it has read, that row's status ...
Supersede(d) ==
  /\ Mishap("supersede") /\ beat.pc = "idle"
  /\ row[d].st \in {"STAGED", "HEALTH_CHECK"}
  /\ beat' = [pc |-> "cancel", ctr |-> row[d].green, dep |-> d]
  /\ UNCHANGED <<dockerVars, row, proc, spoiled>>

\* ... is overwritten, whatever it is by now ...
CancelPrior ==
  /\ beat.pc = "cancel"
  /\ row' = [row EXCEPT ![beat.dep].st = "CANCELLED"]
  /\ spoiled' = (spoiled \/ row[beat.dep].st \in {"ACTIVE", "HEALTH_CHECK"})
  /\ beat' = [beat EXCEPT !.pc = "remove_prior"] /\ Fine
  /\ UNCHANGED <<dockerVars, proc>>

\* ... and its container is removed; the service goes on without one if it was the live one.
RemovePrior ==
  /\ beat.pc = "remove_prior"
  /\ LET c == beat.ctr IN
       \/ /\ ctr' = Removed(c) /\ Fine
          /\ discarded' = (discarded \/ c \in passed)
          /\ spoiled' = (spoiled \/ c[1] # "green")
       \/ Trouble /\ UNCHANGED <<ctr, discarded, spoiled>>
  /\ beat' = NoBeat
  /\ UNCHANGED <<passed, row, proc>>

---------------------------------------------------------------------------
Promotion(p) ==
  \/ Check(p) \/ Get(p) \/ StopOld(p) \/ RenameOld(p) \/ Create(p) \/ StopHolder(p) \/ MoveAside(p)
  \/ CreateAgain(p) \/ StartNew(p) \/ Wait(p) \/ DropGreen(p) \/ DropOld(p)
  \/ Record(p) \/ ChecksFail(p) \/ Discard(p) \/ Mark(p)
  \/ Undo(p) \/ Restore(p) \/ Restart(p) \/ Recreate(p) \/ Fail(p)

Next ==
  \/ \E p \in Promoters : \/ \E d \in Deps, k \in {"staged", "deploy"} : Start(p, d, k)
                          \/ Promotion(p) \/ Crash(p)
  \/ \E d \in Deps : Sick(d) \/ Supersede(d)
  \/ \E c \in Ctr : ReapLive(c) \/ SweepRefs(c)
  \/ ReapRows \/ ReapStop \/ SweepList \/ SweepRemove \/ CancelPrior \/ RemovePrior

Spec == Init /\ [][Next]_vars

---------------------------------------------------------------------------
(* Properties *)

TypeOK ==
  /\ ctr \in [Ctr -> [name : {"", "live", "green", "backup", "aside"}, up : BOOLEAN, sick : BOOLEAN]]
  /\ row \in [Deps \cup {Prev} -> [st : Status, green : Ctr \cup {None}, cid : Ctr \cup {None}]]
  /\ proc \in [Promoters -> [pc : PCs, dep : Deps \cup {None},
                             kind : {"staged", "deploy", None}, began : BOOLEAN,
                             old : Ctr \cup {None}, wasUp : BOOLEAN,
                             result : {"pending", "promoted", "failed", "withdrawn", "abandoned"}]]
  /\ passed \subseteq Ctr /\ discarded \in BOOLEAN /\ spoiled \in BOOLEAN
  /\ beat \in [pc : {"idle", "rows", "stop", "stop_sick", "list", "list_referred", "remove", "cancel",
                    "remove_prior"}, ctr : Ctr, dep : Deps \cup {None}]
  /\ mishaps \in 0..MaxMishaps

\* What the canonical name serves.
Revision(c) == CASE c[1] = "old" -> Prev
                 [] c[1] = "green" -> c[2]
                 [] OTHER -> proc[c[2]].dep
Serving == IF \E c \in Holders : ctr[c].up
             THEN Revision(CHOOSE c \in Holders : ctr[c].up) ELSE None
Busy    == IF Begun = {} THEN None ELSE CHOOSE p \in Begun : TRUE
Before  == IF Busy = None THEN None
           ELSE IF proc[Busy].old = None THEN None ELSE Revision(proc[Busy].old)

Switch == INSTANCE NameSwitch WITH
  Revisions <- Deps \cup {Prev},
  serving   <- Serving,
  busy      <- Busy,
  target    <- [p \in Promoters |-> IF proc[p].began THEN proc[p].dep ELSE None],
  before    <- Before,
  outcome   <- [p \in Promoters |-> proc[p].result]

\* promote_container() and its callers keep the promise of NameSwitch: whichever call or
\* health check fails, when a promotion ends the canonical name serves the new revision if
\* it reports success and the old one if it reports failure; only a deployment that fails
\* after the name was switched leaves it serving nothing ("withdrawn").  It does so unless
\* two promotions overlap, a worker dies while the name is switched or the new container is
\* being removed, the way back or that removal fails itself, the rename that begins it does
\* (the old container is then stopped already), the sweep takes a container that is not a
\* green, the automatic promotion marks FAILED what has gone live, or a superseding
\* deployment cancels or removes it.
KeepsPromise == Switch!Spec

\* Whatever promotions overlap or die, and whichever calls fail: one container that has
\* served, or has passed its health check as the live one, still exists, though perhaps
\* stopped and under another name.  promote_container() never removes the last; the orphan
\* sweep, a deployment that fails after its cut-over and one that supersedes it can.
NothingLost == ~discarded /\ passed # {} => \E c \in passed : Exists(c)

\* Between promotions the ACTIVE row names the container the service runs in: the
\* reaper, the sweep and the next promotion decide by that id.  The exception is a
\* deployment that failed after its cut-over: then nothing has the name, while the
\* row of the revision before still says ACTIVE, until a promotion succeeds.
DiedInside == \E p \in Promoters : proc[p].began /\ At(p, "dead")
Vacated    == Holders = {} /\ \E p \in Promoters : proc[p].result = "withdrawn"
ServedAsRecorded ==
  ~spoiled /\ Begun = {} /\ ~DiedInside /\ ~Vacated =>
    \A d \in DOMAIN row : row[d].st = "ACTIVE" => row[d].cid \in {c \in Holders : ctr[c].up}
=============================================================================
