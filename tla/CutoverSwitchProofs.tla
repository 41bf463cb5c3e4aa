------------------------ MODULE CutoverSwitchProofs ------------------------
(***************************************************************************)
(* For any number of promotions, deployments and mishaps, until an event   *)
(* that spoils the promise: the canonical name serves what the promotions  *)
(* report (every step of Cutover is one of NameSwitch), and between        *)
(* promotions the ACTIVE row names the container that serves.              *)
(***************************************************************************)
EXTENDS CutoverProofs

---------------------------------------------------------------------------
(* The inductive invariant *)

\* It has the name, or a promotion under way is to give it back.
InUse(c) == ctr[c].name = "live" \/ \E p \in Begun : proc[p].old = c

OneBegun     == \A p, q \in Begun : p = q
NoEmergency  == \A p \in Promoters : ~Exists(Emergency(p))

\* A deployment is about to remove c, its container.
Doomed(c) == \E p \in Promoters : At(p, "discard") /\ c = New(p)

\* A container in use is referred to by the ACTIVE row, by one whose deployment goes on
\* checking it, or by the FAILED row of one that is about to remove it.
RetiredRows  == \A d \in DOMAIN row, c \in Ctr :
                  /\ row[d].st # "ACTIVE" /\ c \in {row[d].green, row[d].cid}
                  /\ row[d].st = "HEALTH_CHECK" => c = row[d].cid
                  => ~InUse(c) \/ Doomed(c)
ReaperMisses == /\ beat.pc = "stop" => ~InUse(beat.ctr) \/ Doomed(beat.ctr)
                /\ beat.pc = "stop_sick" => \E d \in Deps : beat.ctr = Green(d)
                /\ beat.pc = "cancel" => row[beat.dep].st # "BUILDING"

\* Who works on a row, and what a deployment's own task has written to it.
Working == {p \in Promoters : proc[p].pc \notin {"idle"} \cup Over}
Owned(p) ==
  LET j == proc[p]  r == row[proc[p].dep] IN
  /\ j.kind # "deploy" => r.st \notin {"BUILDING", "HEALTH_CHECK"} /\ j.pc \notin {"record", "discard"}
  /\ j.kind = "deploy" =>
       /\ j.pc = "mark" => r.st = "HEALTH_CHECK"
       /\ j.pc = "discard" => r.st \in {"FAILED", "CANCELLED"}
       /\ j.pc \notin {"mark", "discard"} => r.st = "BUILDING"
       /\ j.pc \in {"mark", "discard"} => r.green = New(p)
       /\ \A q \in Working \ {p} : proc[q].dep # j.dep
\* No row but its own names the new container, and that one not before it is recorded.
Unnamed(p) ==
  \A d \in DOMAIN row : /\ row[d].cid # New(p)
                        /\ row[d].green = New(p) => Tracked(p) /\ d = proc[p].dep

\* A deployment has failed after its cut-over.
Withdrawn == \E p \in Promoters : proc[p].result = "withdrawn"

AtRest ==
  Begun = {} =>
    /\ \A c \in Ctr : ctr[c].name = "live" => ctr[c].up
    /\ ~DiedInside /\ ~Vacated =>
         \A d \in DOMAIN row : row[d].st = "ACTIVE" => row[d].cid \in Ctr /\ ctr[row[d].cid].name = "live"

\* Who has the name, by the call that is next.
Where(p) ==
  LET pc == proc[p].pc  old == proc[p].old IN
  /\ pc \notin {"conflict", "aside", "again", "emergency"}
  /\ pc \in {"create", "start", "wait", "undo", "restore"} /\ old # None => Exists(old)
  /\ pc \in {"stop", "rename", "restart"} => ctr[old].name = "live"
  /\ pc = "failed" /\ old # None => ctr[old].name = "live" /\ ctr[old].up
  /\ pc = "stop" => ctr[old].up
  /\ pc \in {"create", "restore"} \/ (pc = "failed" /\ old = None) => \A c \in Ctr : ctr[c].name # "live"
  /\ pc \in {"start", "wait"} \cup Proven => ctr[New(p)].name = "live"
  /\ pc \in Proven \ {"discard"} => ctr[New(p)].up
  /\ pc = "undo" => \A c \in Ctr : ctr[c].name = "live" => c = New(p)
  /\ old # New(p) /\ \A q \in Promoters : old # Emergency(q)

\* It is the container of the ACTIVE row that a promotion replaces, if any has the name.
Recorded(p) ==
  ~DiedInside /\ (Withdrawn => proc[p].old # None) =>
    \A d \in DOMAIN row : row[d].st = "ACTIVE" => proc[p].old # None /\ row[d].cid = proc[p].old

Promise ==
  /\ OneBegun /\ NoEmergency /\ RetiredRows /\ ReaperMisses /\ AtRest
  /\ \A p \in Working : Owned(p) /\ Unnamed(p)
  /\ \A p \in Begun : Where(p) /\ Recorded(p)

---------------------------------------------------------------------------
(* What a step of a promotion leaves alone *)

LEMMA SpoiledStays == TypeOK /\ [Next]_vars /\ ~spoiled' => ~spoiled
<1>. SUFFICES ASSUME TypeOK, [Next]_vars, ~spoiled' PROVE ~spoiled
  OBVIOUS
<1>1. ASSUME NEW p \in Promoters, Promotion(p) \/ Crash(p) PROVE ~spoiled
  BY <1>1 DEF Promotion, Check, Get, StopOld, RenameOld, Create, StopHolder, MoveAside, CreateAgain, StartNew,
     Wait, DropGreen, DropOld, Record, ChecksFail, Discard, Mark, Undo, Restore, Restart, Recreate, Fail, Crash
<1>2. ASSUME NEW p \in Promoters, NEW d \in Deps, NEW k \in {"staged", "deploy"}, Start(p, d, k) PROVE ~spoiled
  BY <1>2 DEF Start
<1>3. CASE Aside
  BY <1>3 DEF Aside, Sick, ReapLive, ReapRows, ReapStop, SweepRefs, SweepList, SweepRemove, Supersede,
     CancelPrior, RemovePrior
<1>. QED
  BY <1>1, <1>2, <1>3, NextParts DEF vars

Moving(p) == Promotion(p) \/ Crash(p) \/ \E d \in Deps, k \in {"staged", "deploy"} : Start(p, d, k)

\* The calls p goes on with by Goto, and those it ends with.
LEMMA MoveForms ==
  ASSUME NEW p \in Promoters, Moving(p)
  PROVE  \/ \E pc \in PCs : Goto(p, pc)
         \/ \E pc \in Over, r \in {"promoted", "failed", "withdrawn", "abandoned"} : Finish(p, pc, r)
         \/ Get(p)
         \/ \E d \in Deps, k \in {"staged", "deploy"} : Start(p, d, k)
  BY DEF Moving, Promotion, Check, Get, StopOld, RenameOld, Create, StopHolder, MoveAside, CreateAgain, StartNew,
     Wait, DropGreen, DropOld, Record, ChecksFail, Discard, Mark, Undo, Restore, Restart, Recreate, Fail, Crash, PCs, Over

LEMMA GetForms ==
  ASSUME TypeOK, NEW p \in Promoters, Get(p)
  PROVE  \/ Goto(p, "failed") /\ UNCHANGED spoiled
         \/ /\ proc'[p].began /\ proc'[p].dep = proc[p].dep /\ proc'[p].result = proc[p].result
            /\ spoiled' = (spoiled \/ Begun # {})
            /\ \/ /\ Holders = {} /\ proc'[p].pc = "create" /\ proc'[p].old = proc[p].old
               \/ /\ proc'[p].pc = "stop" /\ proc'[p].old \in Ctr /\ ctr[proc'[p].old].name = "live"
                  /\ proc'[p].wasUp = ctr[proc'[p].old].up
<1>0. proc \in [Promoters -> JobState] /\ proc[p] \in JobState
  BY TypeParts
<1>1. CASE Holders = {} /\ proc' = [proc EXCEPT ![p].pc = "create", ![p].began = TRUE]
  <2>1. proc'[p] = [proc[p] EXCEPT !.pc = "create", !.began = TRUE]
    BY <1>0, <1>1
  <2>2. proc'[p].began /\ proc'[p].dep = proc[p].dep /\ proc'[p].result = proc[p].result
    BY <1>0, <2>1 DEF JobState
  <2>3. proc'[p].pc = "create" /\ proc'[p].old = proc[p].old
    BY <1>0, <2>1 DEF JobState
  <2>4. spoiled' = (spoiled \/ Begun # {}) \/ (Goto(p, "failed") /\ UNCHANGED spoiled)
    BY DEF Get
  <2>. QED
    BY <1>1, <2>2, <2>3, <2>4
<1>2. ASSUME NEW c \in Holders,
             proc' = [proc EXCEPT ![p].pc = "stop", ![p].began = TRUE, ![p].old = c, ![p].wasUp = ctr[c].up]
      PROVE  /\ proc'[p].began /\ proc'[p].dep = proc[p].dep /\ proc'[p].result = proc[p].result
             /\ proc'[p].pc = "stop" /\ proc'[p].old = c /\ proc'[p].wasUp = ctr[c].up
             /\ c \in Ctr /\ ctr[c].name = "live"
  <2>1. proc'[p] = [proc[p] EXCEPT !.pc = "stop", !.began = TRUE, !.old = c, !.wasUp = ctr[c].up]
    BY <1>0, <1>2
  <2>2. proc'[p].began /\ proc'[p].dep = proc[p].dep /\ proc'[p].result = proc[p].result
    BY <1>0, <2>1 DEF JobState
  <2>3. proc'[p].pc = "stop" /\ proc'[p].old = c /\ proc'[p].wasUp = ctr[c].up
    BY <1>0, <2>1 DEF JobState
  <2>. QED
    BY <2>2, <2>3 DEF Holders
<1>. QED
  BY <1>1, <1>2 DEF Get

LEMMA StartMoves ==
  ASSUME TypeOK, NEW p \in Promoters, NEW d \in Deps, NEW k \in {"staged", "deploy"}, Start(p, d, k)
  PROVE  proc[p].pc = "idle" /\ proc'[p].pc = "check" /\ proc'[p].began = proc[p].began
<1>1. proc'[p] = [proc[p] EXCEPT !.pc = "check", !.dep = d, !.kind = k]
  BY TypeParts DEF Start
<1>2. proc[p] \in JobState
  BY TypeParts
<1>3. proc'[p].pc = "check" /\ proc'[p].began = proc[p].began
  BY <1>1, <1>2 DEF JobState
<1>. QED
  BY <1>3 DEF Start, At

\* Whoever begins finds no promotion under way, or spoils the promise; nobody else's
\* promotion begins.
LEMMA BeganStep ==
  ASSUME TypeOK, Shape, NEW p \in Promoters, Moving(p), ~spoiled'
  PROVE  \/ proc'[p].began = proc[p].began /\ proc'[p].dep = proc[p].dep
         \/ proc[p].pc = "idle" /\ proc'[p].pc = "check" /\ proc'[p].began = proc[p].began
         \/ Get(p) /\ Begun = {} /\ proc'[p].began /\ proc'[p].dep = proc[p].dep
<1>1. ASSUME NEW d \in Deps, NEW k \in {"staged", "deploy"}, Start(p, d, k)
      PROVE  proc[p].pc = "idle" /\ proc'[p].pc = "check" /\ proc'[p].began = proc[p].began
  BY <1>1, StartMoves
<1>2. ASSUME NEW pc \in PCs, Goto(p, pc) PROVE proc'[p].began = proc[p].began /\ proc'[p].dep = proc[p].dep
  BY <1>2, GotoMoves
<1>3. ASSUME NEW pc \in Over, NEW r \in {"promoted", "failed", "withdrawn", "abandoned"}, Finish(p, pc, r)
      PROVE  proc'[p].began = proc[p].began /\ proc'[p].dep = proc[p].dep
  <2>1. pc \in PCs
    BY DEF Over, PCs
  <2>. QED
    BY <1>3, <2>1, FinishMoves
<1>4. CASE Get(p)
  <2>1. "failed" \in PCs
    BY DEF PCs
  <2>. QED
    BY <1>2, <1>4, <2>1, GetForms
<1>. QED
  BY <1>1, <1>2, <1>3, <1>4, MoveForms

\* A promotion that has not begun touches no container.
LEMMA OutsideStep ==
  ASSUME TypeOK, Shape, NEW p \in Promoters, Moving(p), p \notin Begun
  PROVE  UNCHANGED ctr
<1>1. JobShape(p) /\ proc[p].pc \notin Over
  BY PromoterEffect DEF Moving, Effect, Flow, Shape
<1>2. proc[p].pc \in Before1 \cup {"failed"}
  BY <1>1 DEF JobShape, Begun, Over
<1>. QED
  BY <1>2 DEF Moving, Promotion, Check, Get, StopOld, RenameOld, Create, StopHolder, MoveAside, CreateAgain, StartNew,
     Wait, DropGreen, DropOld, Record, ChecksFail, Discard, Mark, Undo, Restore, Restart, Recreate, Fail, Crash, Start, At, Before1, dockerVars

LEMMA WorkingParts ==
  ASSUME TypeOK, Shape, NEW p \in Promoters, proc[p].pc \notin {"idle"} \cup Over
  PROVE  p \in Working /\ proc[p].dep \in DOMAIN row /\ proc[p].dep \in Deps /\ row[proc[p].dep] \in RowState
  BY TypeParts DEF Working, Shape, JobShape

\* What is written to the rows before Mark.
LEMMA RecordRows ==
  ASSUME TypeOK, Shape, Promise, NEW p \in Promoters, Record(p)
  PROVE  /\ p \in Working /\ proc[p].kind = "deploy" /\ row[proc[p].dep].st = "BUILDING"
         /\ proc'[p].pc = "mark"
         /\ \A d \in DOMAIN row :
              /\ d # proc[p].dep => row'[d] = row[d]
              /\ d = proc[p].dep => row'[d].st = "HEALTH_CHECK" /\ row'[d].green = New(p) /\ row'[d].cid = row[d].cid
<1>1. proc[p].pc = "record" /\ p \in Working /\ proc[p].dep \in DOMAIN row /\ row[proc[p].dep] \in RowState
  BY WorkingParts DEF Record, At, Over
<1>2. JobShape(p)
  BY DEF Shape
<1>3. p \in Begun
  BY <1>1, <1>2 DEF Begun, JobShape, Before1, Over
<1>4. Owned(p) /\ Where(p)
  BY <1>1, <1>3 DEF Promise
<1>5. proc[p].kind = "deploy" /\ row[proc[p].dep].st = "BUILDING" /\ ctr[New(p)].name = "live"
  BY <1>1, <1>4 DEF Owned, Where, Proven
<1>6. row' = [row EXCEPT ![proc[p].dep].st = "HEALTH_CHECK", ![proc[p].dep].green = New(p)]
  BY <1>5 DEF Record, Exists
<1>. DEFINE e == proc[p].dep
            r == [row[e] EXCEPT !.st = "HEALTH_CHECK", !.green = New(p)]
<1>7. r.st = "HEALTH_CHECK" /\ r.green = New(p) /\ r.cid = row[e].cid
  BY <1>1 DEF RowState
<1>8. row \in [Deps \cup {Prev} -> RowState] /\ DOMAIN row = Deps \cup {Prev} /\ e \in Deps \cup {Prev}
  BY <1>1, TypeParts
<1>9. row' = [row EXCEPT ![e] = r]
  BY <1>6, <1>8
<1>10. row'[e] = r /\ \A d \in DOMAIN row : d # e => row'[d] = row[d]
  <2>. HIDE DEF r
  <2>. QED
    BY <1>8, <1>9
<1>11. proc'[p].pc = "mark"
  BY GotoMoves DEF Record, PCs, Moves
<1>. QED
  BY <1>1, <1>5, <1>7, <1>10, <1>11

LEMMA ChecksFailRows ==
  ASSUME TypeOK, Shape, Promise, NEW p \in Promoters, ChecksFail(p)
  PROVE  /\ p \in Working /\ proc[p].kind = "deploy"
         /\ row[proc[p].dep].st = "HEALTH_CHECK" /\ row[proc[p].dep].green = New(p)
         /\ proc'[p].pc = "discard" /\ Goto(p, "discard")
         /\ \A d \in DOMAIN row :
              /\ d # proc[p].dep => row'[d] = row[d]
              /\ d = proc[p].dep => row'[d].st = "FAILED" /\ row'[d].green = row[d].green /\ row'[d].cid = row[d].cid
<1>1. proc[p].pc = "mark" /\ p \in Working /\ proc[p].dep \in DOMAIN row /\ row[proc[p].dep] \in RowState
      /\ proc[p].kind = "deploy"
  BY WorkingParts DEF ChecksFail, At, Over
<1>2. Owned(p)
  BY <1>1 DEF Promise
<1>3. row[proc[p].dep].st = "HEALTH_CHECK" /\ row[proc[p].dep].green = New(p)
  BY <1>1, <1>2 DEF Owned
<1>4. row' = [row EXCEPT ![proc[p].dep].st = "FAILED"] /\ Goto(p, "discard")
  BY <1>3 DEF ChecksFail
<1>5. row \in [Deps \cup {Prev} -> RowState]
  BY TypeParts
<1>6. proc'[p].pc = "discard"
  BY <1>4, GotoMoves DEF PCs, Moves
<1>. QED
  BY <1>1, <1>3, <1>4, <1>5, <1>6 DEF RowState

LEMMA FailRows ==
  ASSUME TypeOK, Shape, Promise, NEW p \in Promoters, Fail(p), ~spoiled', NEW d \in DOMAIN row
  PROVE  \/ row'[d] = row[d]
         \/ /\ d = proc[p].dep /\ row[d].st \notin {"ACTIVE", "HEALTH_CHECK"}
            /\ row'[d].st = "FAILED" /\ row'[d].green = row[d].green /\ row'[d].cid = row[d].cid
<1>1. proc[p].pc = "failed" /\ p \in Working /\ row[proc[p].dep] \in RowState
  BY WorkingParts DEF Fail, At, Over
<1>2. Owned(p)
  BY <1>1 DEF Promise
<1>3. row[proc[p].dep].st # "HEALTH_CHECK"
  BY <1>1, <1>2 DEF Owned
<1>4. row \in [Deps \cup {Prev} -> RowState]
  BY TypeParts
<1>5. CASE UNCHANGED row
  BY <1>5
<1>6. CASE /\ row' = [row EXCEPT ![proc[p].dep].st = "FAILED"]
           /\ spoiled' = (spoiled \/ row[proc[p].dep].st = "ACTIVE")
  BY <1>1, <1>3, <1>4, <1>6 DEF RowState
<1>. QED
  BY <1>5, <1>6 DEF Fail

LEMMA RowWriters ==
  ASSUME NEW p \in Promoters, Moving(p)
  PROVE  UNCHANGED row \/ Record(p) \/ ChecksFail(p) \/ Fail(p) \/ Mark(p)
  BY DEF Moving, Promotion, Check, Get, StopOld, RenameOld, Create, StopHolder, MoveAside, CreateAgain, StartNew,
     Wait, DropGreen, DropOld, Discard, Undo, Restore, Restart, Recreate, Crash, Start, dockerVars

\* A row that any step but Mark writes is the deployment's own, and neither was nor becomes ACTIVE.
LEMMA WritesStep ==
  ASSUME TypeOK, Shape, Promise, NEW p \in Promoters, Moving(p), ~Mark(p), ~spoiled', NEW d \in DOMAIN row
  PROVE  \/ row'[d] = row[d]
         \/ /\ d = proc[p].dep /\ row'[d].cid = row[d].cid /\ row[d].st # "ACTIVE"
            /\ \/ Record(p) /\ row'[d].st = "HEALTH_CHECK" /\ row'[d].green = New(p) /\ row[d].st = "BUILDING"
               \/ ChecksFail(p) /\ row'[d].st = "FAILED" /\ row'[d].green = row[d].green /\ row[d].st = "HEALTH_CHECK"
               \/ /\ Fail(p) /\ row'[d].st = "FAILED" /\ row'[d].green = row[d].green
                  /\ row[d].st \notin {"ACTIVE", "HEALTH_CHECK"}
<1>1. CASE UNCHANGED row
  BY <1>1
<1>2. CASE Record(p)
  BY <1>2, RecordRows
<1>3. CASE ChecksFail(p)
  BY <1>3, ChecksFailRows
<1>4. CASE Fail(p)
  BY <1>4, FailRows
<1>. QED
  BY <1>1, <1>2, <1>3, <1>4, RowWriters

LEMMA RowsQuiet ==
  ASSUME TypeOK, Shape, Promise, NEW p \in Promoters, Moving(p), ~Mark(p), ~spoiled', NEW d \in DOMAIN row'
  PROVE  /\ d \in DOMAIN row /\ row'[d].cid = row[d].cid
         /\ row'[d].st = "ACTIVE" <=> row[d].st = "ACTIVE"
<1>1. d \in DOMAIN row
  BY PromoterEffect, TypeParts DEF Moving, Effect, Records
<1>. QED
  BY <1>1, WritesStep

---------------------------------------------------------------------------
(* Who is under way *)

\* No other promotion is under way while p begins or goes on, until a spoiled event.
LEMMA BegunStep ==
  ASSUME TypeOK, Shape, Promise, NEW p \in Promoters, Moving(p), ~spoiled'
  PROVE  \/ Begun' = Begun /\ (p \in Begun <=> p \in Begun')
         \/ Get(p) /\ Begun = {} /\ Begun' = {p} /\ proc'[p].dep = proc[p].dep
         \/ Begun = {p} /\ Begun' = {} /\ proc'[p].pc \in Over
<1>0. Effect(p) /\ \A q \in Promoters \ {p} : proc'[q] = proc[q]
  BY PromoterEffect DEF Moving, Effect, Moves
<1>1. \A q \in Promoters \ {p} : q \in Begun' <=> q \in Begun
  BY <1>0 DEF Begun
<1>2. proc[p].pc \notin Over /\ JobShape(p) /\ JobShape(p)'
  BY <1>0 DEF Effect, Flow, Shape
<1>3. CASE proc'[p].began = proc[p].began /\ proc'[p].pc \notin Over
  <2>1. p \in Begun' <=> p \in Begun
    BY <1>2, <1>3 DEF Begun, Over
  <2>. QED
    BY <1>1, <2>1 DEF Begun
<1>4. CASE proc'[p].began = proc[p].began /\ proc'[p].pc \in Over
  <2>1. p \notin Begun'
    BY <1>4 DEF Begun, Over
  <2>2. CASE p \in Begun
    BY <1>1, <1>4, <2>1, <2>2 DEF Begun, Promise, OneBegun
  <2>3. CASE p \notin Begun
    BY <1>1, <2>1, <2>3 DEF Begun
  <2>. QED
    BY <2>2, <2>3
<1>5. CASE Get(p) /\ Begun = {} /\ proc'[p].began /\ proc'[p].dep = proc[p].dep
  <2>1. CASE proc'[p].pc \notin Over
    BY <1>1, <1>5, <2>1 DEF Begun, Over
  <2>2. CASE proc'[p].pc \in Over
    BY <1>1, <1>5, <2>2 DEF Begun, Over
  <2>. QED
    BY <2>1, <2>2
<1>6. CASE proc[p].pc = "idle" /\ proc'[p].pc = "check" /\ proc'[p].began = proc[p].began
  BY <1>3, <1>6 DEF Over
<1>. QED
  BY <1>3, <1>4, <1>5, <1>6, BeganStep

\* What is in use was so before, but for the new container of a promotion that creates it.
LEMMA InUseStep ==
  ASSUME TypeOK, Shape, Promise, NEW p \in Promoters, Moving(p), ~spoiled', NEW c \in Ctr, InUse(c)'
  PROVE  InUse(c) \/ (c = New(p) /\ proc[p].pc \in {"create", "again"})
<1>0. Effect(p) /\ JobShape(p) /\ c # None /\ proc[p].pc \notin Over
  BY PromoterEffect, CtrParts DEF Moving, Effect, Flow, Shape
<1>1. proc[p].old = c => InUse(c)
  BY <1>0 DEF JobShape, InUse, Begun, Over
<1>2. CASE ctr'[c].name = "live"
  BY <1>0, <1>1, <1>2 DEF Effect, Names, NamesSame, Takes, Yields, Goes, Touches, InUse
<1>3. ASSUME NEW q \in Begun', proc'[q].old = c PROVE InUse(c)
  <2>1. CASE q = p
    BY <1>0, <1>1, <1>3, <2>1 DEF Effect, Chooses, InUse
  <2>2. CASE q # p
    <3>1. q \in Promoters /\ proc'[q] = proc[q]
      BY <1>0, <2>2 DEF Effect, Moves, Begun
    <3>2. q \in Begun
      BY <3>1 DEF Begun
    <3>. QED
      BY <1>3, <3>1, <3>2 DEF InUse
  <2>. QED
    BY <2>1, <2>2
<1>. QED
  BY <1>2, <1>3 DEF InUse

\* At the last call of a promotion its container is the only one in use that is not to go.
LEMMA MarkFacts ==
  ASSUME TypeOK, Shape, Promise, NEW p \in Promoters, Mark(p), ~spoiled'
  PROVE  /\ p \in Begun /\ Begun' = {} /\ New(p) \in Ctr
         /\ ctr[New(p)].name = "live" /\ ctr[New(p)].up
         /\ \A c \in Ctr : ctr[c].name = "live" => c = New(p)
         /\ UNCHANGED ctr
<1>1. proc[p].pc = "mark" /\ p \in Begun
  BY JobParts DEF Mark, At, JobShape, Begun, Before1, Over
<1>2. Where(p) /\ New(p) \in Ctr
  BY <1>1, CtrParts DEF Promise
<1>3. ctr[New(p)].name = "live" /\ ctr[New(p)].up
  BY <1>1, <1>2 DEF Where, Proven
<1>4. \A c \in Ctr : ctr[c].name = "live" => c = New(p)
  BY <1>2, <1>3 DEF Shape, OneHolder
<1>5. proc'[p].pc = "end"
  BY FinishMoves DEF Mark, PCs, Moves
<1>6. Begun' = {}
  BY <1>1, <1>5, BegunStep DEF Moving, Promotion, Begun, Get, At
<1>. QED
  BY <1>1, <1>2, <1>3, <1>4, <1>6 DEF Mark, dockerVars

LEMMA MarkRows ==
  ASSUME TypeOK, Shape, Promise, NEW p \in Promoters, Mark(p), NEW d \in DOMAIN row
  PROVE  /\ row'[d].green = row[d].green
         /\ d = proc[p].dep => row'[d].st = "ACTIVE" /\ row'[d].cid = New(p)
         /\ d # proc[p].dep => /\ row'[d].st # "ACTIVE" /\ row'[d].cid = row[d].cid
                               /\ row'[d].st \in {row[d].st, "INACTIVE"}
                               /\ row[d].st # "ACTIVE" => row'[d] = row[d]
<1>0. d \in Deps \cup {Prev} /\ row[d] \in RowState /\ p \in Working /\ proc[p].pc = "mark"
  BY TypeParts, WorkingParts DEF Mark, At, Over
<1>1. CASE d = proc[p].dep /\ proc[p].kind = "deploy"
  <2>1. row'[d] = Row("ACTIVE", row[d].green)
    BY <1>0, <1>1 DEF Mark
  <2>2. Owned(p)
    BY <1>0 DEF Promise
  <2>3. row[d].green = New(p)
    BY <1>0, <1>1, <2>2 DEF Owned
  <2>. QED
    BY <1>1, <2>1, <2>3, RowParts
<1>2. CASE d = proc[p].dep /\ proc[p].kind # "deploy"
  <2>1. row'[d] = [row[d] EXCEPT !.st = "ACTIVE", !.cid = New(p)]
    BY <1>0, <1>2 DEF Mark
  <2>. QED
    BY <1>0, <1>2, <2>1 DEF RowState
<1>3. CASE d # proc[p].dep
  <2>1. row'[d] = IF row[d].st = "ACTIVE" THEN [row[d] EXCEPT !.st = "INACTIVE"] ELSE row[d]
    BY <1>0, <1>3 DEF Mark
  <2>. QED
    BY <1>0, <1>3, <2>1 DEF RowState
<1>. QED
  BY <1>1, <1>2, <1>3

\* A deployment that fails after its cut-over leaves nothing under the name.
LEMMA DiscardFacts ==
  ASSUME TypeOK, Shape, Promise, NEW p \in Promoters, Discard(p), ~spoiled'
  PROVE  /\ p \in Begun /\ Begun' = {} /\ New(p) \in Ctr /\ ctr[New(p)].name = "live"
         /\ \A c \in Ctr : ctr'[c].name # "live"
         /\ proc'[p].pc = "end" /\ proc'[p].result = "withdrawn" /\ UNCHANGED row
<1>1. proc[p].pc = "discard" /\ p \in Begun /\ p \in Working
  BY JobParts, WorkingParts DEF Discard, At, JobShape, Begun, Before1, Over
<1>2. Where(p) /\ Owned(p) /\ New(p) \in Ctr
  BY <1>1, CtrParts DEF Promise
<1>3. ctr[New(p)].name = "live" /\ row[proc[p].dep].green = New(p)
  BY <1>1, <1>2 DEF Where, Owned, Proven
<1>4. ctr' = Removed(New(p)) /\ UNCHANGED row
  BY <1>3 DEF Discard
<1>5. \A c \in Ctr : ctr'[c].name # "live"
  BY <1>2, <1>3, <1>4, Removal DEF Touches, Shape, OneHolder
<1>6. proc'[p].pc = "end" /\ proc'[p].result = "withdrawn"
  BY FinishMoves DEF Discard, PCs, Moves
<1>7. Begun' = {}
  BY <1>1, <1>6, BegunStep DEF Moving, Promotion, Begun, Get, At
<1>. QED
  BY <1>1, <1>2, <1>3, <1>4, <1>5, <1>6, <1>7

---------------------------------------------------------------------------
(* The parts of the promise that hold at any call *)

LEMMA UnusedStep ==
  ASSUME TypeOK, Shape, Promise, NEW p \in Promoters, Moving(p), ~spoiled', NEW c \in Ctr,
         ~InUse(c) \/ Doomed(c), proc[p].pc \in {"create", "again"} => c # New(p)
  PROVE  ~InUse(c)' \/ Doomed(c)'
<1>1. CASE ~InUse(c)
  BY <1>1, InUseStep
<1>2. ASSUME NEW q \in Promoters, At(q, "discard"), c = New(q), q # p
      PROVE  Doomed(c)'
  <2>1. proc'[q] = proc[q]
    BY <1>2, PromoterEffect DEF Moving, Effect, Moves
  <2>. QED
    BY <1>2, <2>1 DEF Doomed, At
<1>3. CASE At(p, "discard") /\ c = New(p)
  <2>1. Discard(p)
    BY <1>3 DEF Moving, Promotion, Check, Get, StopOld, RenameOld, Create, StopHolder, MoveAside, CreateAgain,
       StartNew, Wait, DropGreen, DropOld, Record, ChecksFail, Mark, Undo, Restore, Restart, Recreate, Fail, Start,
       Crash, Switching, At
  <2>. QED
    BY <2>1, DiscardFacts DEF InUse
<1>. QED
  BY <1>1, <1>2, <1>3 DEF Doomed

LEMMA RetiredStep ==
  ASSUME TypeOK, Shape, Promise, NEW p \in Promoters, Moving(p), ~spoiled'
  PROVE  RetiredRows'
<1>0. New(p) \in Ctr /\ Birth(p) /\ DOMAIN row' = DOMAIN row
  BY PromoterEffect, TypeParts, CtrParts DEF Moving, Effect, Records, Shape
<1>1. ASSUME NEW d \in DOMAIN row, NEW c \in Ctr, row'[d].st # "ACTIVE", c \in {row'[d].green, row'[d].cid},
             row'[d].st = "HEALTH_CHECK" => c = row'[d].cid
      PROVE  ~InUse(c)' \/ Doomed(c)'
  <2>1. CASE Mark(p)
    <3>1. p \in Working /\ proc[p].pc = "mark"
      BY <2>1, WorkingParts DEF Mark, At, Over
    <3>2. Unnamed(p)
      BY <3>1 DEF Promise
    <3>3. d # proc[p].dep /\ c \in {row[d].green, row[d].cid}
      BY <1>1, <2>1, MarkRows
    <3>4. c # New(p)
      BY <3>2, <3>3 DEF Unnamed
    <3>5. ctr'[c].name # "live"
      BY <2>1, <3>4, MarkFacts
    <3>. QED
      BY <2>1, <3>5, MarkFacts DEF InUse
  <2>2. CASE ChecksFail(p) /\ c = New(p)
    <3>1. proc'[p].pc = "discard"
      BY <2>2, ChecksFailRows
    <3>. QED
      BY <2>2, <3>1 DEF Doomed, At
  <2>3. CASE ~Mark(p) /\ ~(ChecksFail(p) /\ c = New(p))
    <3>1. /\ row[d].st # "ACTIVE" /\ c \in {row[d].green, row[d].cid}
          /\ row[d].st = "HEALTH_CHECK" => c = row[d].cid
      <4>1. CASE row'[d] = row[d]
        BY <1>1, <4>1
      <4>2. CASE ChecksFail(p) /\ d = proc[p].dep
        <5>1. row[d].green = New(p) /\ row'[d].green = row[d].green /\ row'[d].cid = row[d].cid
              /\ row[d].st = "HEALTH_CHECK"
          BY <4>2, ChecksFailRows
        <5>. QED
          BY <1>1, <2>3, <4>2, <5>1
      <4>. QED
        BY <1>1, <2>3, <4>1, <4>2, WritesStep
    <3>2. ~InUse(c) \/ Doomed(c)
      BY <3>1 DEF Promise, RetiredRows
    <3>3. proc[p].pc \in {"create", "again"} => c # New(p)
      BY <1>0, <3>1 DEF Birth, Unborn
    <3>. QED
      BY <3>2, <3>3, UnusedStep
  <2>. QED
    BY <2>1, <2>2, <2>3
<1>. QED
  BY <1>0, <1>1 DEF RetiredRows

\* No row gets the status BUILDING.
LEMMA BuildingStep ==
  ASSUME TypeOK, Shape, Promise, NEW p \in Promoters, Moving(p), ~spoiled', NEW d \in DOMAIN row, row'[d].st = "BUILDING"
  PROVE  row[d].st = "BUILDING"
<1>1. CASE Mark(p)
  BY <1>1, MarkRows
<1>2. CASE ~Mark(p)
  BY <1>2, WritesStep
<1>. QED
  BY <1>1, <1>2

LEMMA RowsStep ==
  ASSUME TypeOK, Shape, Promise, NEW p \in Promoters, Moving(p), ~spoiled'
  PROVE  RetiredRows' /\ ReaperMisses' /\ NoEmergency' /\ OneBegun'
<1>0. /\ Effect(p) /\ beat' = beat /\ beat \in BeatState /\ New(p) \in Ctr /\ Birth(p)
      /\ ReaperMisses /\ NoEmergency
  BY PromoterEffect, TypeParts, CtrParts DEF Moving, Effect, Shape, Promise
<1>1. ASSUME NEW c \in Ctr, c = beat.ctr, beat.pc = "stop" PROVE ~InUse(c)' \/ Doomed(c)'
  <2>1. proc[p].pc \in {"create", "again"} => c # New(p)
    BY <1>0, <1>1 DEF Birth, Unborn
  <2>2. ~InUse(c) \/ Doomed(c)
    BY <1>0, <1>1 DEF ReaperMisses
  <2>. QED
    BY <2>1, <2>2, UnusedStep
<1>2. beat.pc = "cancel" => row'[beat.dep].st # "BUILDING"
  <2>1. beat.pc = "cancel" => beat.dep \in DOMAIN row /\ row[beat.dep].st # "BUILDING"
    BY <1>0, TypeParts DEF ReaperMisses, Shape, Tracing
  <2>. QED
    BY <2>1, BuildingStep
<1>3. ReaperMisses'
  <2>1. beat.ctr \in Ctr
    BY <1>0 DEF BeatState
  <2>. QED
    BY <1>0, <1>1, <1>2, <2>1 DEF ReaperMisses, InUse, Doomed
<1>4. ASSUME NEW q \in Promoters PROVE ~Exists(Emergency(q))'
  <2>1. Emergency(q) \in Ctr /\ Emergency(q) # New(p) /\ ctr[Emergency(q)].name = ""
    BY <1>0, CtrParts DEF NoEmergency, Exists
  <2>2. ctr'[Emergency(q)].name = ""
    BY <1>0, <2>1 DEF Effect, Names, NamesSame, Takes, Yields, Goes, Touches
  <2>. QED
    BY <2>2 DEF Exists
<1>5. OneBegun'
  <2>1. \A q, r \in Begun' : q = r
    BY BegunStep DEF Promise, OneBegun
  <2>. QED
    BY <2>1 DEF OneBegun
<1>. QED
  BY <1>3, <1>4, <1>5, RetiredStep DEF NoEmergency

---------------------------------------------------------------------------
(* Whose row it is *)

\* A job keeps its deployment and its kind from its start to its end.
LEMMA JobKept ==
  ASSUME TypeOK, Shape, NEW p \in Promoters, Moving(p), proc[p].pc # "idle"
  PROVE  /\ proc'[p].dep = proc[p].dep /\ proc'[p].kind = proc[p].kind
         /\ proc[p].pc \notin Over
<1>0. proc[p].pc \notin Over /\ proc[p] \in JobState /\ proc \in [Promoters -> JobState]
  BY PromoterEffect, TypeParts DEF Moving, Effect, Flow
<1>1. ASSUME NEW d \in Deps, NEW k \in {"staged", "deploy"} PROVE ~Start(p, d, k)
  BY DEF Start, At
<1>2. ASSUME NEW pc \in PCs, Goto(p, pc)
      PROVE  proc'[p].dep = proc[p].dep /\ proc'[p].kind = proc[p].kind
  BY <1>2, GotoMoves
<1>3. ASSUME NEW pc \in Over, NEW r \in {"promoted", "failed", "withdrawn", "abandoned"}, Finish(p, pc, r)
      PROVE  proc'[p].dep = proc[p].dep /\ proc'[p].kind = proc[p].kind
  <2>1. pc \in PCs
    BY DEF Over, PCs
  <2>. QED
    BY <1>3, <2>1, FinishMoves
<1>4. CASE Get(p)
  <2>2. ASSUME proc' = [proc EXCEPT ![p].pc = "create", ![p].began = TRUE]
        PROVE  proc'[p].dep = proc[p].dep /\ proc'[p].kind = proc[p].kind
    <3>1. proc'[p] = [proc[p] EXCEPT !.pc = "create", !.began = TRUE]
      BY <1>0, <2>2
    <3>2. proc'[p].dep = proc[p].dep
      BY <1>0, <3>1 DEF JobState
    <3>3. proc'[p].kind = proc[p].kind
      BY <1>0, <3>1 DEF JobState
    <3>. QED
      BY <3>2, <3>3
  <2>3. ASSUME NEW c \in Holders,
               proc' = [proc EXCEPT ![p].pc = "stop", ![p].began = TRUE, ![p].old = c, ![p].wasUp = ctr[c].up]
        PROVE  proc'[p].dep = proc[p].dep /\ proc'[p].kind = proc[p].kind
    <3>1. proc'[p] = [proc[p] EXCEPT !.pc = "stop", !.began = TRUE, !.old = c, !.wasUp = ctr[c].up]
      BY <1>0, <2>3
    <3>2. proc'[p].dep = proc[p].dep
      BY <1>0, <3>1 DEF JobState
    <3>3. proc'[p].kind = proc[p].kind
      BY <1>0, <3>1 DEF JobState
    <3>. QED
      BY <3>2, <3>3
  <2>4. Goto(p, "failed") => proc'[p].dep = proc[p].dep /\ proc'[p].kind = proc[p].kind
    BY <1>2 DEF PCs
  <2>5. \/ proc' = [proc EXCEPT ![p].pc = "create", ![p].began = TRUE]
        \/ \E c \in Holders :
             proc' = [proc EXCEPT ![p].pc = "stop", ![p].began = TRUE, ![p].old = c, ![p].wasUp = ctr[c].up]
        \/ Goto(p, "failed")
    BY <1>4, Zenon DEF Get
  <2>. QED
    BY <1>0, <2>2, <2>3, <2>4, <2>5, Zenon
<1>. QED
  BY <1>0, <1>1, <1>2, <1>3, <1>4, MoveForms

LEMMA StartOwned ==
  ASSUME TypeOK, Shape, Promise, NEW p \in Promoters, NEW d \in Deps, NEW k \in {"staged", "deploy"}, Start(p, d, k)
  PROVE  /\ proc[p].pc = "idle" /\ proc'[p].pc = "check" /\ proc'[p].dep = d /\ proc'[p].kind = k /\ UNCHANGED row
         /\ \A q \in Working : (k = "deploy" \/ proc[q].kind = "deploy") => proc[q].dep # d
<1>1. proc'[p] = [proc[p] EXCEPT !.pc = "check", !.dep = d, !.kind = k] /\ proc[p] \in JobState
  BY TypeParts DEF Start
<1>2. proc[p].pc = "idle" /\ proc'[p].pc = "check" /\ proc'[p].dep = d /\ proc'[p].kind = k /\ UNCHANGED row
  BY <1>1 DEF JobState, Start, At
<1>3. ASSUME NEW q \in Working, k = "deploy" \/ proc[q].kind = "deploy" PROVE proc[q].dep # d
  <2>1. Owned(q) /\ q \in Promoters
    BY DEF Promise, Working
  <2>2. CASE k = "deploy" /\ proc[q].kind # "deploy"
    BY <2>1, <2>2 DEF Start, Owned
  <2>3. CASE k = "deploy" /\ proc[q].kind = "deploy"
    BY <2>1, <2>3 DEF Start
  <2>4. CASE k # "deploy" /\ proc[q].kind = "deploy"
    <3>1. row[d].st = "STAGED"
      BY <2>4 DEF Start
    <3>. QED
      BY <2>1, <2>4, <3>1 DEF Owned
  <2>. QED
    BY <1>3, <2>2, <2>3, <2>4
<1>. QED
  BY <1>2, <1>3

\* The calls that come before a deployment's last ones.
LEMMA LastCalls ==
  ASSUME TypeOK, Shape, Promise, NEW p \in Promoters, Moving(p), proc[p].pc # "idle"
  PROVE  /\ proc'[p].pc = "record" => proc[p].kind = "deploy"
         /\ proc'[p].pc = "mark" => proc[p].kind # "deploy" \/ Record(p)
         /\ proc'[p].pc = "discard" => ChecksFail(p)
         /\ Record(p) => proc'[p].pc = "mark"
         /\ ChecksFail(p) => proc'[p].pc = "discard"
         /\ Mark(p) \/ Fail(p) \/ Discard(p) => proc'[p].pc \in Over
<1>1. CASE Get(p)
  BY <1>1, GetForms, GotoMoves DEF PCs, Moves, Get, Record, ChecksFail, Mark, Fail, Discard, At
<1>2. CASE DropOld(p)
  <2>1. proc'[p].pc = IF proc[p].kind = "deploy" THEN "record" ELSE "mark"
    BY <1>2, GotoMoves DEF DropOld, PCs, Moves
  <2>. QED
    BY <1>2, <2>1 DEF DropOld, Record, ChecksFail, Mark, Fail, Discard, At
<1>3. CASE Record(p)
  BY <1>3, RecordRows DEF Record, ChecksFail, Mark, Fail, Discard, At
<1>4. CASE ChecksFail(p) \/ Mark(p)
  <2>1. Mark(p) => proc'[p].pc = "end"
    BY FinishMoves DEF Mark, PCs, Moves
  <2>. QED
    BY <1>4, <2>1, ChecksFailRows DEF Record, ChecksFail, Mark, Fail, Discard, At, Over
<1>5. CASE Crash(p) \/ Fail(p) \/ Discard(p)
  <2>1. proc'[p].pc \in Over
    BY <1>5, FinishMoves DEF Crash, Fail, Discard, PCs, Moves, Over
  <2>2. ~Record(p) \/ Crash(p)
    BY <1>5 DEF Fail, Discard, Record, At
  <2>. QED
    BY <1>5, <2>1, <1>3, <1>4 DEF Over
<1>6. ASSUME NEW pc \in PCs \ (Over \cup {"record", "mark", "discard"}), Goto(p, pc)
      PROVE  proc'[p].pc \notin Over \cup {"record", "mark", "discard"}
  BY <1>6, GotoMoves DEF Moves
<1>7. ASSUME ~Get(p), ~DropOld(p), ~Record(p), ~ChecksFail(p), ~Mark(p), ~Crash(p), ~Fail(p), ~Discard(p)
      PROVE  \E pc \in PCs \ (Over \cup {"record", "mark", "discard"}) : Goto(p, pc)
  BY <1>7 DEF Moving, Promotion, Check, StopOld, RenameOld, Create, StopHolder, MoveAside, CreateAgain,
     StartNew, Wait, DropGreen, Undo, Restore, Restart, Recreate, Start, At, PCs, Over
<1>. QED
  BY <1>1, <1>2, <1>3, <1>4, <1>5, <1>6, <1>7

LEMMA OwnedStep ==
  ASSUME TypeOK, Shape, Promise, NEW p \in Promoters, Moving(p), ~spoiled', NEW q \in Working', q # p
  PROVE  Owned(q)'
<1>0. /\ q \in Promoters /\ proc'[q] = proc[q] /\ q \in Working
      /\ \A r \in Promoters \ {p} : proc'[r] = proc[r]
  BY PromoterEffect DEF Moving, Effect, Moves, Working
<1>1. Owned(q) /\ proc[q].dep \in DOMAIN row
  BY <1>0, WorkingParts DEF Promise, Working
<1>2. CASE proc[p].pc = "idle"
  <2>1. PICK d \in Deps, k \in {"staged", "deploy"} : Start(p, d, k)
    BY <1>2 DEF Moving, Promotion, Check, Get, StopOld, RenameOld, Create, StopHolder, MoveAside, CreateAgain, StartNew,
       Wait, DropGreen, DropOld, Record, ChecksFail, Discard, Mark, Undo, Restore, Restart, Recreate, Fail, Crash, At
  <2>2. /\ proc'[p].dep = d /\ UNCHANGED row
        /\ proc[q].kind = "deploy" => proc[q].dep # d
    BY <1>0, <2>1, StartOwned
  <2>3. proc[q].kind = "deploy" => \A r \in Working' \ {q} : proc'[r].dep # proc[q].dep
    BY <1>0, <1>1, <2>2 DEF Owned, Working
  <2>. QED
    BY <1>0, <1>1, <2>2, <2>3 DEF Owned
<1>3. CASE proc[p].pc # "idle"
  <2>1. p \in Working /\ Owned(p) /\ proc'[p].dep = proc[p].dep
    BY <1>3, JobKept DEF Working, Promise
  <2>2. proc[q].kind = "deploy" => \A r \in Working' \ {q} : proc'[r].dep # proc[q].dep
    BY <1>0, <1>1, <2>1 DEF Owned, Working
  <2>3. CASE proc[q].dep # proc[p].dep
    <3>1. \/ row'[proc[q].dep] = row[proc[q].dep]
          \/ row[proc[q].dep].st = "ACTIVE" /\ row'[proc[q].dep].st = "INACTIVE"
             /\ row'[proc[q].dep].green = row[proc[q].dep].green
      <4>1. CASE Mark(p)
        BY <1>1, <2>3, <4>1, MarkRows
      <4>2. CASE ~Mark(p)
        BY <1>1, <2>3, <4>2, WritesStep
      <4>. QED
        BY <4>1, <4>2
    <3>. QED
      BY <1>0, <1>1, <2>2, <3>1 DEF Owned
  <2>4. CASE proc[q].dep = proc[p].dep
    <3>1. proc[q].kind # "deploy" /\ proc[p].kind # "deploy"
      BY <1>0, <1>1, <2>1, <2>4 DEF Owned
    <3>2. row'[proc[q].dep] = row[proc[q].dep] \/ row'[proc[q].dep].st \in {"FAILED", "ACTIVE"}
      <4>1. CASE Mark(p)
        BY <1>1, <2>4, <4>1, MarkRows
      <4>2. CASE ~Mark(p)
        BY <1>1, <3>1, <4>2, WritesStep, RecordRows, ChecksFailRows
      <4>. QED
        BY <4>1, <4>2
    <3>. QED
      BY <1>0, <1>1, <3>1, <3>2 DEF Owned
  <2>. QED
    BY <2>3, <2>4
<1>. QED
  BY <1>2, <1>3

LEMMA OwnedGoesOn ==
  ASSUME TypeOK, Shape, Promise, NEW p \in Promoters, Moving(p), ~spoiled', p \in Working'
  PROVE  Owned(p)'
<1>0. \A r \in Promoters \ {p} : proc'[r] = proc[r]
  BY PromoterEffect DEF Moving, Effect, Moves
<1>1. CASE proc[p].pc = "idle"
  <2>1. PICK d \in Deps, k \in {"staged", "deploy"} : Start(p, d, k)
    BY <1>1 DEF Moving, Promotion, Check, Get, StopOld, RenameOld, Create, StopHolder, MoveAside, CreateAgain, StartNew,
       Wait, DropGreen, DropOld, Record, ChecksFail, Discard, Mark, Undo, Restore, Restart, Recreate, Fail, Crash, At
  <2>2. /\ proc'[p].pc = "check" /\ proc'[p].dep = d /\ proc'[p].kind = k /\ UNCHANGED row
        /\ k = "deploy" => \A q \in Working : proc[q].dep # d
    BY <2>1, StartOwned
  <2>3. k = "deploy" => \A r \in Working' \ {p} : proc'[r].dep # d
    BY <1>0, <2>2 DEF Working
  <2>4. row[d].st = IF k = "deploy" THEN "BUILDING" ELSE "STAGED"
    BY <2>1 DEF Start
  <2>. QED
    BY <2>2, <2>3, <2>4 DEF Owned
<1>2. CASE proc[p].pc # "idle"
  <2>1. p \in Working /\ Owned(p) /\ proc'[p].dep = proc[p].dep /\ proc'[p].kind = proc[p].kind
        /\ proc[p].dep \in DOMAIN row /\ proc'[p].pc \notin Over
    BY <1>2, JobKept, WorkingParts DEF Working, Promise
  <2>2. proc[p].kind = "deploy" => \A r \in Working' \ {p} : proc'[r].dep # proc[p].dep
    BY <1>0, <2>1 DEF Owned, Working
  <2>3. CASE Record(p)
    <3>1. /\ proc'[p].pc = "mark" /\ proc[p].kind = "deploy"
          /\ row'[proc[p].dep].st = "HEALTH_CHECK" /\ row'[proc[p].dep].green = New(p)
      BY <2>1, <2>3, RecordRows
    <3>. QED
      BY <2>1, <2>2, <3>1 DEF Owned
  <2>4. CASE ChecksFail(p)
    <3>1. /\ proc'[p].pc = "discard" /\ proc[p].kind = "deploy"
          /\ row'[proc[p].dep].st = "FAILED" /\ row'[proc[p].dep].green = New(p)
      BY <2>1, <2>4, ChecksFailRows
    <3>. QED
      BY <2>1, <2>2, <3>1 DEF Owned
  <2>5. CASE ~Record(p) /\ ~ChecksFail(p)
    <3>1. ~Mark(p) /\ ~Fail(p)
      BY <1>2, <2>1, LastCalls
    <3>2. UNCHANGED row
      BY <2>5, <3>1, RowWriters
    <3>3. /\ proc'[p].pc = "record" => proc[p].kind = "deploy"
          /\ proc'[p].pc = "mark" => proc[p].kind # "deploy"
          /\ proc'[p].pc # "discard"
      BY <1>2, <2>5, LastCalls
    <3>4. proc[p].kind = "deploy" => row[proc[p].dep].st = "BUILDING"
      <4>0. ~Crash(p) /\ ~Discard(p)
        BY <2>1, FinishMoves DEF Crash, Discard, PCs, Over, Moves
      <4>1. proc[p].kind = "deploy" => proc[p].pc \notin {"mark", "discard"}
        BY <2>1, <2>5, <3>1, <4>0 DEF Moving, Promotion, Check, Get, StopOld, RenameOld, Create, StopHolder,
           MoveAside, CreateAgain, StartNew, Wait, DropGreen, DropOld, Undo, Restore, Restart, Recreate, Start,
           At
      <4>. QED
        BY <2>1, <4>1 DEF Owned
    <3>. QED
      BY <2>1, <2>2, <3>2, <3>3, <3>4 DEF Owned
  <2>. QED
    BY <2>3, <2>4, <2>5
<1>. QED
  BY <1>1, <1>2

LEMMA UnnamedStep ==
  ASSUME TypeOK, Shape, Promise, NEW p \in Promoters, Moving(p), ~spoiled', NEW q \in Working'
  PROVE  Unnamed(q)'
<1>0. /\ q \in Promoters /\ DOMAIN row' = DOMAIN row /\ (q # p => proc'[q] = proc[q])
      /\ (New(p) = New(q) => p = q)
  BY PromoterEffect, TypeParts, CtrParts DEF Moving, Effect, Moves, Records, Working
<1>1. /\ \A d \in DOMAIN row : row[d].cid # New(q)
      /\ \A d \in DOMAIN row : row[d].green = New(q) => q \in Working /\ Tracked(q) /\ d = proc[q].dep
  <2>1. CASE q \in Working
    BY <2>1 DEF Promise, Unnamed
  <2>2. CASE q \notin Working
    <3>1. proc[q].pc = "idle"
      BY <1>0, <2>2, JobKept DEF Working
    <3>2. Birth(q)
      BY <1>0 DEF Shape
    <3>. QED
      BY <3>1, <3>2 DEF Birth, Unborn, Before1
  <2>. QED
    BY <2>1, <2>2
<1>2. ASSUME NEW d \in DOMAIN row PROVE row'[d].cid # New(q)
  <2>1. CASE Mark(p)
    <3>1. q # p
      BY <2>1, FinishMoves DEF Mark, Working, PCs, Over, Moves
    <3>. QED
      BY <1>0, <1>1, <2>1, <3>1, MarkRows
  <2>2. CASE ~Mark(p)
    BY <1>1, <2>2, WritesStep
  <2>. QED
    BY <2>1, <2>2
<1>3. ASSUME NEW d \in DOMAIN row, row'[d].green = New(q) PROVE Tracked(q)' /\ d = proc'[q].dep
  <2>1. CASE Record(p) /\ q = p /\ row'[d] # row[d]
    <3>1. d = proc[p].dep /\ proc'[p].pc = "mark" /\ proc[p].kind = "deploy" /\ proc[p].pc # "idle"
      BY <2>1, RecordRows DEF Record, At
    <3>. QED
      BY <2>1, <3>1, JobKept DEF Tracked, At
  <2>2. CASE ~(Record(p) /\ q = p /\ row'[d] # row[d])
    <3>1. row[d].green = New(q)
      <4>1. CASE Mark(p)
        BY <1>3, <4>1, MarkRows
      <4>2. CASE ~Mark(p)
        BY <1>0, <1>3, <2>2, <4>2, WritesStep
      <4>. QED
        BY <4>1, <4>2
    <3>2. q \in Working /\ Tracked(q) /\ d = proc[q].dep
      BY <1>1, <3>1
    <3>3. CASE q # p
      BY <1>0, <3>2, <3>3 DEF Tracked, At
    <3>4. CASE q = p
      <4>1. proc[p].pc \in {"mark", "discard"} /\ proc'[p].pc \notin Over /\ proc[p].pc # "idle"
        BY <3>2, <3>4 DEF Tracked, At, Working
      <4>2. ~Mark(p) /\ ~Discard(p) /\ ~Crash(p)
        BY <4>1, LastCalls, FinishMoves DEF Crash, PCs, Over, Moves
      <4>3. ChecksFail(p)
        BY <4>1, <4>2 DEF Moving, Promotion, Check, Get, StopOld, RenameOld, Create, StopHolder,
           MoveAside, CreateAgain, StartNew, Wait, DropGreen, DropOld, Record, Undo, Restore, Restart, Recreate, Fail, Start, At
      <4>4. proc'[p].pc = "discard" /\ proc'[p].dep = proc[p].dep
        BY <4>1, <4>3, ChecksFailRows, JobKept
      <4>. QED
        BY <3>2, <3>4, <4>4 DEF Tracked, At
    <3>. QED
      BY <3>3, <3>4
  <2>. QED
    BY <2>1, <2>2
<1>. QED
  BY <1>0, <1>2, <1>3 DEF Unnamed

---------------------------------------------------------------------------
(* Between promotions *)

LEMMA DiedStep ==
  ASSUME TypeOK, Shape, NEW p \in Promoters, Moving(p), ~DiedInside'
  PROVE  ~DiedInside
<1>1. proc[p].pc \notin Over /\ \A q \in Promoters \ {p} : proc'[q] = proc[q]
  BY PromoterEffect DEF Moving, Effect, Flow, Moves
<1>. QED
  BY <1>1 DEF DiedInside, At, Over

LEMMA WithdrawnStep ==
  ASSUME TypeOK, Shape, NEW p \in Promoters, Moving(p), Withdrawn
  PROVE  Withdrawn'
<1>1. PICK q \in Promoters : proc[q].result = "withdrawn"
  BY DEF Withdrawn
<1>2. JobShape(q) /\ proc[p].pc \notin Over /\ \A r \in Promoters \ {p} : proc'[r] = proc[r]
  BY PromoterEffect DEF Moving, Effect, Flow, Moves, Shape
<1>3. q # p
  BY <1>1, <1>2 DEF JobShape
<1>. QED
  BY <1>1, <1>2, <1>3 DEF Withdrawn

LEMMA RestStep ==
  ASSUME TypeOK, Shape, Promise, NEW p \in Promoters, Moving(p), ~spoiled'
  PROVE  AtRest'
<1>. SUFFICES ASSUME Begun' = {}
              PROVE  /\ \A c \in Ctr : ctr'[c].name = "live" => ctr'[c].up
                     /\ ~DiedInside' /\ ~Vacated' =>
                          \A d \in DOMAIN row' : row'[d].st = "ACTIVE"
                            => row'[d].cid \in Ctr /\ ctr'[row'[d].cid].name = "live"
  BY DEF AtRest
<1>0. JobShape(p) /\ proc[p] \in JobState
  BY JobParts
<1>1. CASE Begun = {}
  <2>1. ~Mark(p) /\ UNCHANGED ctr
    BY <1>0, <1>1, OutsideStep DEF Begun, JobShape, Before1, Over, Mark, At
  <2>2. AtRest
    BY DEF Promise
  <2>3. Vacated => Vacated'
    BY <2>1, WithdrawnStep DEF Vacated, Withdrawn, Holders
  <2>4. ~DiedInside' => ~DiedInside
    BY DiedStep
  <2>. QED
    BY <1>1, <2>1, <2>2, <2>3, <2>4, RowsQuiet DEF AtRest
<1>2. CASE Begun = {p} /\ proc'[p].pc \in Over
  <2>1. Where(p) /\ Recorded(p)
    BY <1>2 DEF Promise
  <2>2. CASE Mark(p)
    <3>1. \A d \in DOMAIN row' : row'[d].st = "ACTIVE" => row'[d].cid = New(p)
      <4>1. DOMAIN row' = DOMAIN row
        BY PromoterEffect, TypeParts DEF Moving, Effect, Records
      <4>. QED
        BY <2>2, <4>1, MarkRows
    <3>. QED
      BY <2>2, <3>1, MarkFacts
  <2>3. CASE Fail(p)
    <3>1. proc[p].pc = "failed" /\ UNCHANGED ctr /\ (proc[p].old # None => proc[p].old \in Ctr)
      BY <2>3, JobParts DEF Fail, At, dockerVars
    <3>2. \A c \in Ctr : ctr[c].name = "live" => ctr[c].up
      BY <2>1, <3>1 DEF Where, Shape, OneHolder
    <3>3. ASSUME ~DiedInside', ~Vacated', NEW d \in DOMAIN row', row'[d].st = "ACTIVE"
          PROVE  row'[d].cid \in Ctr /\ ctr[row'[d].cid].name = "live"
      <4>1. proc[p].old = None => Holders' = {}
        BY <2>1, <3>1 DEF Where, Holders
      <4>2. Withdrawn => proc[p].old # None
        BY <3>3, <4>1, WithdrawnStep DEF Vacated, Withdrawn
      <4>3. ~Mark(p)
        BY <3>1 DEF Mark, At
      <4>4. d \in DOMAIN row /\ row'[d].cid = row[d].cid /\ row[d].st = "ACTIVE"
        BY <3>3, <4>3, RowsQuiet
      <4>5. ~DiedInside
        BY <3>3, DiedStep
      <4>. QED
        BY <2>1, <3>1, <4>2, <4>4, <4>5 DEF Where, Recorded
    <3>. QED
      BY <3>1, <3>2, <3>3
  <2>4. CASE Crash(p)
    <3>1. proc[p].pc \notin Switching /\ UNCHANGED ctr
      BY <2>4 DEF Crash, dockerVars
    <3>2. proc[p].pc \in (Proven \ {"discard"}) \cup {"stop", "failed"}
      BY <1>0, <1>2, <3>1 DEF Switching, PCs, JobState, Proven, Begun, JobShape, Before1, Over
    <3>3. \A c \in Ctr : ctr[c].name = "live" => ctr[c].up
      BY <2>1, <3>2, JobParts DEF Where, Shape, OneHolder, JobShape
    <3>4. DiedInside'
      <4>1. proc'[p].pc = "dead" /\ proc'[p].began
        BY <1>2, <2>4, FinishMoves DEF Crash, PCs, Moves, Begun
      <4>. QED
        BY <4>1 DEF DiedInside, At
    <3>. QED
      BY <3>1, <3>3, <3>4
  <2>5. CASE Discard(p)
    <3>1. (\A c \in Ctr : ctr'[c].name # "live") /\ proc'[p].result = "withdrawn"
      BY <2>5, DiscardFacts
    <3>2. Vacated'
      BY <3>1 DEF Vacated, Holders
    <3>. QED
      BY <3>1, <3>2
  <2>6. Mark(p) \/ Fail(p) \/ Crash(p) \/ Discard(p)
    <3>1. ASSUME NEW pc \in PCs \ Over, Goto(p, pc) PROVE FALSE
      BY <1>2, <3>1, GotoMoves DEF Moves
    <3>2. ~Get(p) /\ proc[p].pc # "idle"
      BY <1>0, <1>2 DEF Begun, JobShape, Before1, Get, At
    <3>3. ~ChecksFail(p)
      BY <3>1, ChecksFailRows DEF PCs, Over
    <3>. QED
      BY <3>1, <3>2, <3>3 DEF Moving, Promotion, Check, StopOld, RenameOld, Create, StopHolder, MoveAside, CreateAgain,
         StartNew, Wait, DropGreen, DropOld, Record, Undo, Restore, Restart, Recreate, Start, At, PCs, Over
  <2>. QED
    BY <2>2, <2>3, <2>4, <2>5, <2>6
<1>. QED
  BY <1>1, <1>2, BegunStep

---------------------------------------------------------------------------
(* A promotion that is under way *)

\* A step of another promotion leaves it where it is.
LEMMA OthersStep ==
  ASSUME TypeOK, Shape, Promise, NEW p \in Promoters, Moving(p), ~spoiled', NEW q \in Begun', q # p
  PROVE  Where(q)' /\ Recorded(q)'
<1>1. proc'[q] = proc[q] /\ q \in Promoters
  BY PromoterEffect DEF Moving, Effect, Moves, Begun
<1>2. q \in Begun
  BY <1>1 DEF Begun
<1>3. p \notin Begun /\ Where(q) /\ Recorded(q)
  BY <1>2 DEF Promise, OneBegun
<1>4. UNCHANGED ctr /\ ~Mark(p)
  BY <1>3, OutsideStep, JobParts DEF JobShape, Begun, Before1, Over, Mark, At
<1>5. Where(q)'
  BY <1>1, <1>3, <1>4 DEF Where, Exists
<1>6. (DiedInside => DiedInside') /\ (Withdrawn => Withdrawn')
  BY DiedStep, WithdrawnStep
<1>7. Recorded(q)'
  BY <1>1, <1>3, <1>4, <1>6, RowsQuiet DEF Recorded
<1>. QED
  BY <1>5, <1>7

\* It begins with what it finds.
LEMMA BeginStep ==
  ASSUME TypeOK, Shape, Promise, NEW p \in Promoters, Get(p), ~spoiled', p \in Begun'
  PROVE  Where(p)' /\ Recorded(p)'
<1>0. /\ Moving(p) /\ proc[p].pc = "get" /\ JobShape(p) /\ UNCHANGED <<ctr, row>> /\ Birth(p) /\ New(p) \in Ctr
      /\ ~proc[p].began /\ p \notin Begun
  BY JobParts DEF Get, At, Moving, Promotion, dockerVars, JobShape, Before1, Shape, Begun
<1>1. Begun = {} /\ proc'[p].began
  BY <1>0, BegunStep DEF Begun
<1>2. \A c \in Ctr : ctr[c].name = "live" => ctr[c].up
  BY <1>1 DEF Promise, AtRest
<1>3. ~DiedInside /\ ~Vacated =>
        \A d \in DOMAIN row : row[d].st = "ACTIVE" => row[d].cid \in Ctr /\ ctr[row[d].cid].name = "live"
  BY <1>1 DEF Promise, AtRest
<1>4. /\ ctr[New(p)].name = "" /\ None # New(p)
      /\ \A q \in Promoters : ctr[Emergency(q)].name = "" /\ None # Emergency(q)
  BY <1>0, CtrParts DEF Birth, Unborn, Before1, Exists, Promise, NoEmergency
<1>5. CASE Holders = {} /\ proc'[p].pc = "create" /\ proc'[p].old = proc[p].old
  <2>1. proc'[p].old = None /\ \A c \in Ctr : ctr[c].name # "live"
    BY <1>0, <1>5 DEF JobShape, Holders
  <2>2. Where(p)'
    BY <1>0, <1>4, <1>5, <2>1 DEF Where, Proven
  <2>3. (DiedInside => DiedInside') /\ (Vacated => Withdrawn')
    BY <1>0, DiedStep, WithdrawnStep DEF Vacated, Withdrawn
  <2>4. Recorded(p)'
    BY <1>0, <1>3, <2>1, <2>3 DEF Recorded
  <2>. QED
    BY <2>2, <2>4
<1>6. CASE proc'[p].pc = "stop" /\ proc'[p].old \in Ctr /\ ctr[proc'[p].old].name = "live"
  <2>1. proc'[p].old # None
    BY <1>6, CtrParts
  <2>2. Where(p)'
    BY <1>0, <1>2, <1>4, <1>6, <2>1 DEF Where, Proven, Exists
  <2>3. (DiedInside => DiedInside') /\ ~Vacated
    BY <1>0, <1>6, DiedStep DEF Vacated, Holders
  <2>4. OneHolder
    BY DEF Shape
  <2>5. Recorded(p)'
    BY <1>0, <1>3, <1>6, <2>1, <2>3, <2>4 DEF Recorded, OneHolder
  <2>. QED
    BY <2>2, <2>5
<1>7. CASE Goto(p, "failed")
  <2>1. "failed" \in PCs
    BY DEF PCs
  <2>. QED
    BY <1>0, <1>1, <1>7, <2>1, GotoMoves
<1>. QED
  BY <1>5, <1>6, <1>7, GetForms

\* It goes on: where it is then, call by call.
LEMMA WhereStep ==
  ASSUME TypeOK, Shape, Promise, NEW p \in Promoters, Promotion(p), ~spoiled', p \in Begun,
         NEW pc \in PCs \ Over, Goto(p, pc)
  PROVE  Where(p)'
<1>0. /\ Where(p) /\ JobShape(p) /\ Birth(p) /\ New(p) \in Ctr /\ proc[p] \in JobState
      /\ proc[p].pc \notin Before1 /\ proc[p].began
      /\ proc[p].old # None => proc[p].old \in Ctr
      /\ None # New(p)
  BY JobParts, CtrParts DEF Promise, Shape, JobShape, Begun
<1>1. proc'[p].pc = pc /\ proc'[p].old = proc[p].old
  BY GotoMoves DEF Moves
<1>2. OneHolder /\ OneHolder'
  BY PromoterEffect, ApartStep DEF Shape
<1>. DEFINE old == proc[p].old
<1>3. CASE StopOld(p)
  <2>1. proc[p].pc = "stop" /\ pc = "rename" /\ old \in Ctr
    BY <1>0, <1>1, <1>3, GotoMoves DEF StopOld, At, Moves, PCs, JobShape
  <2>2. ctr'[old].name = ctr[old].name
    BY <1>3, <2>1, Stopping DEF StopOld
  <2>. QED
    BY <1>0, <1>1, <2>1, <2>2 DEF Where, Proven
<1>4. CASE RenameOld(p)
  <2>1. proc[p].pc = "rename" /\ pc = "create" /\ old \in Ctr /\ ctr[old].name = "live"
    BY <1>0, <1>1, <1>4, GotoMoves DEF RenameOld, At, Moves, PCs, JobShape, Where
  <2>2. Touches(old) /\ ctr'[old].name = "backup"
    BY <1>4, <2>1, Naming DEF RenameOld, Exists
  <2>3. \A c \in Ctr : ctr'[c].name # "live"
    BY <1>2, <2>1, <2>2 DEF OneHolder, Touches
  <2>. QED
    BY <1>0, <1>1, <2>1, <2>2, <2>3 DEF Where, Proven, Exists
<1>5. CASE Create(p)
  <2>1. proc[p].pc = "create" /\ \A c \in Ctr : ctr[c].name # "live"
    BY <1>0, <1>5 DEF Create, At, Where
  <2>2. Holders = {}
    BY <2>1 DEF Holders
  <2>3. CASE ctr' = Created(New(p)) /\ Goto(p, "start")
    <3>1. pc = "start"
      BY <1>1, <2>3, GotoMoves DEF Moves, PCs
    <3>2. Touches(New(p)) /\ ctr'[New(p)].name = "live"
      BY <1>0, <2>3, Creation
    <3>. QED
      BY <1>0, <1>1, <2>1, <3>1, <3>2 DEF Where, Proven, Exists, Touches
  <2>4. CASE UNCHANGED ctr /\ Goto(p, "undo")
    <3>1. pc = "undo"
      BY <1>1, <2>4, GotoMoves DEF Moves, PCs
    <3>. QED
      BY <1>0, <1>1, <2>1, <2>4, <3>1 DEF Where, Proven, Exists
  <2>. QED
    BY <1>5, <2>2, <2>3, <2>4 DEF Create
<1>6. CASE StopHolder(p) \/ MoveAside(p) \/ CreateAgain(p) \/ Recreate(p)
  BY <1>0, <1>6 DEF StopHolder, MoveAside, CreateAgain, Recreate, At, Where
<1>7. CASE StartNew(p)
  <2>1. proc[p].pc = "start" /\ ctr[New(p)].name = "live"
    BY <1>0, <1>7 DEF StartNew, At, Where
  <2>2. CASE ctr' = Started(New(p)) /\ Goto(p, "wait")
    <3>1. pc = "wait"
      BY <1>1, <2>2, GotoMoves DEF Moves, PCs
    <3>2. Touches(New(p)) /\ ctr'[New(p)].name = "live"
      BY <1>0, <2>1, <2>2, Starting
    <3>. QED
      BY <1>0, <1>1, <2>1, <3>1, <3>2 DEF Where, Proven, Exists, Touches
  <2>3. CASE UNCHANGED ctr /\ Goto(p, "undo")
    <3>1. pc = "undo"
      BY <1>1, <2>3, GotoMoves DEF Moves, PCs
    <3>. QED
      BY <1>0, <1>1, <1>2, <2>1, <2>3, <3>1 DEF Where, Proven, Exists, OneHolder
  <2>. QED
    BY <1>7, <2>2, <2>3 DEF StartNew
<1>8. CASE Wait(p)
  <2>1. proc[p].pc = "wait" /\ ctr[New(p)].name = "live" /\ UNCHANGED ctr
    BY <1>0, <1>8 DEF Wait, At, Where
  <2>2. CASE ctr[New(p)].up /\ Goto(p, "drop_green")
    <3>1. pc = "drop_green"
      BY <1>1, <2>2, GotoMoves DEF Moves, PCs
    <3>. QED
      BY <1>0, <1>1, <2>1, <2>2, <3>1 DEF Where, Proven
  <2>3. CASE Goto(p, "undo")
    <3>1. pc = "undo"
      BY <1>1, <2>3, GotoMoves DEF Moves, PCs
    <3>. QED
      BY <1>0, <1>1, <1>2, <2>1, <3>1 DEF Where, Proven, Exists, OneHolder
  <2>. QED
    BY <1>8, <2>2, <2>3 DEF Wait
<1>9. CASE DropGreen(p) \/ DropOld(p)
  <2>1. proc[p].pc \in {"drop_green", "drop_old"} /\ ctr[New(p)].name = "live" /\ ctr[New(p)].up
    BY <1>0, <1>9 DEF DropGreen, DropOld, At, Where, Proven
  <2>2. pc \in {"drop_old", "record", "mark"}
    BY <1>1, <1>9, GotoMoves DEF DropGreen, DropOld, Moves, PCs
  <2>3. ctr'[New(p)] = ctr[New(p)]
    <3>1. Green(proc[p].dep) \in Ctr /\ Green(proc[p].dep) # New(p) /\ old # New(p)
      BY <1>0, <2>1, CtrParts DEF JobShape, Where
    <3>. QED
      BY <1>0, <1>9, <3>1, Removal DEF DropGreen, DropOld, Touches
  <2>. QED
    BY <1>0, <1>1, <2>1, <2>2, <2>3 DEF Where, Proven
<1>10. CASE Undo(p)
  <2>1. proc[p].pc = "undo" /\ ctr' = Removed(New(p)) /\ pc = IF old = None THEN "failed" ELSE "restore"
    BY <1>1, <1>10, GotoMoves DEF Undo, At, Moves, PCs
  <2>2. Touches(New(p)) /\ ctr'[New(p)].name = ""
    BY <1>0, <2>1, Removal
  <2>3. \A c \in Ctr : ctr'[c].name # "live"
    BY <1>0, <2>1, <2>2 DEF Where, Touches
  <2>. QED
    BY <1>0, <1>1, <2>1, <2>2, <2>3 DEF Where, Proven, Exists, Touches
<1>11. CASE Restore(p)
  <2>1. proc[p].pc = "restore" /\ old # None /\ old \in Ctr /\ Exists(old) /\ \A c \in Ctr : ctr[c].name # "live"
    BY <1>0, <1>11 DEF Restore, At, Where, JobShape
  <2>2. Holders \ {old} = {}
    BY <2>1 DEF Holders
  <2>3. ctr' = Named(old, "live") /\ Goto(p, "restart")
    BY <1>11, <2>1, <2>2 DEF Restore
  <2>4. pc = "restart" /\ ctr'[old].name = "live"
    BY <1>1, <2>1, <2>3, GotoMoves, Naming DEF Moves, PCs
  <2>. QED
    BY <1>0, <1>1, <2>1, <2>4 DEF Where, Proven
<1>12. CASE Restart(p)
  <2>1. proc[p].pc = "restart" /\ old # None /\ old \in Ctr /\ ctr[old].name = "live"
    BY <1>0, <1>12 DEF Restart, At, Where, JobShape
  <2>2. ctr' = Started(old) /\ Goto(p, "failed")
    BY <1>12 DEF Restart
  <2>3. pc = "failed" /\ ctr'[old].name = "live" /\ ctr'[old].up
    BY <1>1, <2>1, <2>2, GotoMoves, Starting DEF Moves, PCs
  <2>. QED
    BY <1>0, <1>1, <2>1, <2>3 DEF Where, Proven
<1>13. ~(Check(p) \/ Get(p))
  BY <1>0 DEF Check, Get, At, Before1
<1>14. ~(Mark(p) \/ Fail(p) \/ Discard(p))
  BY <1>1, FinishMoves DEF Mark, Fail, Discard, Over, PCs, Moves
<1>15. CASE Record(p) \/ ChecksFail(p)
  <2>1. proc[p].pc \in {"record", "mark"} /\ UNCHANGED ctr /\ proc'[p].pc \in {"mark", "discard"}
    BY <1>15, RecordRows, ChecksFailRows DEF Record, ChecksFail, At, dockerVars
  <2>2. ctr[New(p)].name = "live" /\ ctr[New(p)].up
    BY <1>0, <2>1 DEF Where, Proven
  <2>. QED
    BY <1>0, <1>1, <2>1, <2>2 DEF Where, Proven
<1>. QED
  BY <1>15, <1>3, <1>4, <1>5, <1>6, <1>7, <1>8, <1>9, <1>10, <1>11, <1>12, <1>13, <1>14 DEF Promotion

LEMMA UnderwayStep ==
  ASSUME TypeOK, Shape, Promise, NEW p \in Promoters, Moving(p), ~spoiled', NEW q \in Begun'
  PROVE  Where(q)' /\ Recorded(q)'
<1>1. CASE q # p
  BY <1>1, OthersStep
<1>2. CASE q = p /\ Get(p)
  BY <1>2, BeginStep
<1>3. CASE q = p /\ ~Get(p)
  <2>1. p \in Begun /\ proc'[p].pc \notin Over
    BY <1>3, BegunStep DEF Begun, Over
  <2>2. ~Crash(p) /\ proc[p].pc # "idle"
    <3>1. Crash(p) => proc'[p].pc = "dead"
      BY FinishMoves DEF Crash, PCs, Moves
    <3>. QED
      BY <2>1, <3>1, JobParts DEF Begun, JobShape, Before1, Over
  <2>3. Promotion(p)
    BY <2>2 DEF Moving, Start, At
  <2>4. PICK pc \in PCs \ Over : Goto(p, pc)
    <3>1. ~(Mark(p) \/ Fail(p) \/ Discard(p))
      BY <2>1, FinishMoves DEF Mark, Fail, Discard, Over, PCs, Moves
    <3>2. ChecksFail(p) => Goto(p, "discard")
      BY ChecksFailRows
    <3>. QED
      BY <1>3, <2>3, <3>1, <3>2 DEF Promotion, Check, StopOld, RenameOld, Create, StopHolder, MoveAside, CreateAgain,
         StartNew, Wait, DropGreen, DropOld, Record, Undo, Restore, Restart, Recreate, PCs, Over
  <2>5. Where(p)'
    BY <2>1, <2>3, <2>4, WhereStep
  <2>6. Recorded(p)'
    <3>1. Recorded(p) /\ proc'[p].old = proc[p].old
      BY <2>1, <2>4, GotoMoves DEF Promise
    <3>2. ~Mark(p)
      BY <2>1, FinishMoves DEF Mark, Over, PCs, Moves
    <3>3. (DiedInside => DiedInside') /\ (Withdrawn => Withdrawn')
      BY DiedStep, WithdrawnStep
    <3>. QED
      BY <3>1, <3>2, <3>3, RowsQuiet DEF Recorded
  <2>. QED
    BY <1>3, <2>5, <2>6
<1>. QED
  BY <1>1, <1>2, <1>3

---------------------------------------------------------------------------
(* The beat tasks and a green that turns sick *)

\* They leave what has the canonical name, and every container that is not a green.
LEMMA AsideKeeps ==
  ASSUME TypeOK, Shape, Promise, Aside, ~spoiled', NEW c \in Ctr
  PROVE  /\ ctr'[c].name = "live" <=> ctr[c].name = "live"
         /\ ctr[c].name = "live" => ctr'[c].up = ctr[c].up \/ (Doomed(c) /\ ~ctr'[c].up)
         /\ (\A d \in Deps : c # Green(d)) => ctr'[c].name = ctr[c].name
<1>0. beat \in BeatState /\ beat.ctr \in Ctr /\ GreensApart
  BY TypeParts DEF BeatState, Shape
<1>1. ASSUME NEW d \in Deps, Sick(d)
      PROVE  ctr'[c].name = ctr[c].name /\ ctr'[c].up = ctr[c].up
  BY <1>1, TypeParts DEF Sick, Container
<1>2. CASE ReapStop
  <2>1. CASE UNCHANGED ctr
    BY <2>1
  <2>2. CASE ctr' = Stopped(beat.ctr)
    <3>1. beat.pc \in {"stop", "stop_sick"}
      BY <1>2 DEF ReapStop
    <3>2. ctr[beat.ctr].name # "live" \/ Doomed(beat.ctr)
      BY <1>0, <3>1 DEF Promise, ReaperMisses, InUse, GreensApart
    <3>. QED
      BY <1>0, <2>2, <3>2, Stopping DEF Touches
  <2>. QED
    BY <1>2, <2>1, <2>2 DEF ReapStop
<1>3. ASSUME beat.ctr[1] = "green", ctr' = Removed(beat.ctr)
      PROVE  /\ ctr'[c].name = "live" <=> ctr[c].name = "live"
             /\ ctr[c].name = "live" => ctr'[c].up = ctr[c].up
             /\ (\A d \in Deps : c # Green(d)) => ctr'[c].name = ctr[c].name
  <2>1. PICK d \in Deps : beat.ctr = Green(d)
    BY <1>0, <1>3 DEF Ctr, OldCtr, New, Emergency, Green
  <2>2. ctr[beat.ctr].name # "live"
    BY <1>0, <2>1 DEF GreensApart
  <2>. QED
    BY <1>0, <1>3, <2>1, <2>2, Removal DEF Touches
<1>4. CASE SweepRemove \/ RemovePrior
  <2>1. (beat.ctr[1] = "green" /\ ctr' = Removed(beat.ctr)) \/ UNCHANGED ctr
    BY <1>4 DEF SweepRemove, RemovePrior
  <2>. QED
    BY <1>3, <2>1
<1>5. CASE UNCHANGED ctr
  BY <1>5
<1>. QED
  BY <1>1, <1>2, <1>4, <1>5 DEF Aside, ReapLive, ReapRows, SweepRefs, SweepList, Supersede, CancelPrior, dockerVars

\* They write to no row but one that is retired already, or staged.
LEMMA AsideCancels ==
  ASSUME TypeOK, Shape, Promise, Aside, ~spoiled', NEW d \in DOMAIN row
  PROVE  \/ row'[d] = row[d]
         \/ /\ row[d].st \notin {"ACTIVE", "HEALTH_CHECK", "BUILDING"} /\ row'[d].st = "CANCELLED"
            /\ row'[d].green = row[d].green /\ row'[d].cid = row[d].cid
<1>1. CASE UNCHANGED row
  BY <1>1
<1>2. CASE CancelPrior
  <2>1. row \in [Deps \cup {Prev} -> RowState] /\ row' = [row EXCEPT ![beat.dep].st = "CANCELLED"]
    BY <1>2, TypeParts DEF CancelPrior
  <2>2. row[beat.dep].st \notin {"ACTIVE", "HEALTH_CHECK"} /\ row[beat.dep].st # "BUILDING"
    BY <1>2 DEF CancelPrior, Promise, ReaperMisses
  <2>. QED
    BY <2>1, <2>2 DEF RowState
<1>. QED
  BY <1>1, <1>2, AsideSteps DEF AsideEffect

LEMMA BeatPromise ==
  ASSUME TypeOK, Shape, Promise, Aside, ~spoiled'
  PROVE  /\ beat'.pc = "stop" => beat'.ctr \in Ctr /\ (~InUse(beat'.ctr) \/ Doomed(beat'.ctr))
         /\ beat'.pc = "stop_sick" => \E d \in Deps : beat'.ctr = Green(d)
         /\ beat'.pc = "cancel" => beat'.dep \in DOMAIN row /\ row[beat'.dep].st # "BUILDING"
<1>0. beat \in BeatState /\ beat.ctr \in Ctr
  BY TypeParts DEF BeatState
<1>1. CASE ReapRows
  <2>1. CASE beat.ctr \in Ids({"FAILED", "CANCELLED"}) /\ beat' = [beat EXCEPT !.pc = "stop"]
    <3>1. ~InUse(beat.ctr) \/ Doomed(beat.ctr)
      BY <1>0, <2>1 DEF Ids, Promise, RetiredRows
    <3>2. beat'.ctr = beat.ctr /\ beat'.pc = "stop"
      BY <1>0, <2>1 DEF BeatState
    <3>. QED
      BY <1>0, <3>1, <3>2
  <2>2. CASE beat.ctr \in Ids({"STAGED"}) /\ beat' = [beat EXCEPT !.pc = "stop_sick"]
    <3>1. PICK d \in DOMAIN row : row[d].st = "STAGED" /\ beat.ctr \in {row[d].green, row[d].cid}
      BY <2>2 DEF Ids
    <3>2. d \in Deps /\ beat.ctr = Green(d)
      BY <3>1 DEF Shape, Staged
    <3>3. beat'.ctr = beat.ctr /\ beat'.pc = "stop_sick"
      BY <1>0, <2>2 DEF BeatState
    <3>. QED
      BY <3>2, <3>3
  <2>. QED
    BY <1>1, <2>1, <2>2, NoBeatType DEF ReapRows
<1>2. ASSUME NEW c \in Ctr, ReapLive(c) \/ SweepRefs(c) PROVE beat'.pc \notin {"stop", "stop_sick", "cancel"}
  <2>1. PICK pc \in {"rows", "list", "list_referred"} : beat' = [NoBeat EXCEPT !.pc = pc, !.ctr = c]
    BY <1>2 DEF ReapLive, SweepRefs
  <2>2. beat'.pc = pc
    BY <2>1 DEF NoBeat
  <2>. QED
    BY <2>2
<1>3. CASE SweepList
  <2>1. beat' = [beat EXCEPT !.pc = "remove"] \/ beat' = NoBeat
    BY <1>3 DEF SweepList
  <2>2. beat'.pc \in {"remove", "idle"}
    BY <1>0, <2>1, NoBeatType DEF BeatState
  <2>. QED
    BY <2>2
<1>4. CASE ReapStop \/ SweepRemove \/ RemovePrior
  BY <1>4, NoBeatType DEF ReapStop, SweepRemove, RemovePrior
<1>5. ASSUME NEW d \in Deps, Supersede(d) PROVE beat'.pc = "cancel" /\ beat'.dep = d
  <2>1. beat' = [pc |-> "cancel", ctr |-> row[d].green, dep |-> d]
    BY <1>5 DEF Supersede
  <2>. QED
    BY <2>1
<1>6. ASSUME NEW d \in Deps, Supersede(d) PROVE d \in DOMAIN row /\ row[d].st # "BUILDING"
  BY <1>6, TypeParts DEF Supersede
<1>7. CASE CancelPrior
  <2>1. beat'.pc = "remove_prior"
    BY <1>0, <1>7 DEF CancelPrior, BeatState
  <2>. QED
    BY <2>1
<1>8. CASE UNCHANGED beat
  <2>1. beat.pc = "cancel" => beat.dep \in DOMAIN row
    BY TypeParts DEF Shape, Tracing
  <2>. QED
    BY <1>0, <1>8, <2>1 DEF Promise, ReaperMisses
<1>. QED
  BY <1>1, <1>2, <1>3, <1>4, <1>5, <1>6, <1>7, <1>8 DEF Aside, Sick

LEMMA PromiseAside ==
  ASSUME TypeOK, Shape, Promise, Aside, ~spoiled'
  PROVE  Promise'
<1>0. UNCHANGED <<proc, passed>> /\ DOMAIN row' = DOMAIN row
  BY AsideSteps, AsideRows DEF AsideEffect
<1>1. /\ Begun' = Begun /\ (DiedInside' <=> DiedInside) /\ Working' = Working
      /\ (Withdrawn' <=> Withdrawn) /\ \A c : Doomed(c)' <=> Doomed(c)
  BY <1>0 DEF Begun, DiedInside, At, Working, Withdrawn, Doomed
<1>2. ASSUME NEW c \in Ctr PROVE InUse(c)' <=> InUse(c)
  BY <1>0, <1>1, AsideKeeps DEF InUse
<1>3. OneBegun' /\ NoEmergency'
  BY <1>1, CtrParts, AsideKeeps DEF Promise, OneBegun, NoEmergency, Exists
<1>4. RetiredRows'
  <2>1. ASSUME NEW d \in DOMAIN row, NEW c \in Ctr, row'[d].st # "ACTIVE", c \in {row'[d].green, row'[d].cid},
               row'[d].st = "HEALTH_CHECK" => c = row'[d].cid
        PROVE  ~InUse(c)' \/ Doomed(c)'
    <3>1. row[d].st # "ACTIVE" /\ c \in {row[d].green, row[d].cid} /\ (row[d].st = "HEALTH_CHECK" => c = row[d].cid)
      BY <2>1, AsideCancels
    <3>. QED
      BY <1>1, <1>2, <3>1 DEF Promise, RetiredRows
  <2>. QED
    BY <1>0, <2>1 DEF RetiredRows
<1>5. ReaperMisses'
  <2>1. ASSUME NEW c \in Ctr, c = beat'.ctr, beat'.pc = "stop" PROVE ~InUse(c)' \/ Doomed(c)'
    BY <1>1, <1>2, <2>1, BeatPromise
  <2>2. beat'.pc = "cancel" => row'[beat'.dep].st # "BUILDING"
    BY BeatPromise, AsideCancels
  <2>. QED
    BY <2>1, <2>2, BeatPromise DEF ReaperMisses, InUse, Doomed
<1>6. ASSUME NEW p \in Promoters, At(p, "discard") PROVE p \in Begun
  BY <1>6, JobParts DEF At, JobShape, Begun, Before1, Over
<1>7. AtRest'
  <2>1. Begun = {} => \A c \in Ctr : ~Doomed(c)
    BY <1>6 DEF Doomed
  <2>2. Vacated' <=> Vacated
    BY <1>0, AsideKeeps DEF Vacated, Holders
  <2>3. \A d \in DOMAIN row : row'[d].st = "ACTIVE" => row[d].st = "ACTIVE" /\ row'[d].cid = row[d].cid
    BY AsideCancels
  <2>. QED
    BY <1>0, <1>1, <2>1, <2>2, <2>3, AsideKeeps DEF Promise, AtRest
<1>8. ASSUME NEW q \in Working' PROVE Owned(q)' /\ Unnamed(q)'
  <2>1. q \in Promoters /\ Owned(q) /\ Unnamed(q) /\ proc'[q] = proc[q] /\ proc[q].dep \in DOMAIN row
    BY <1>0, <1>1, WorkingParts DEF Promise, Working
  <2>2. Owned(q)'
    BY <1>0, <1>1, <2>1, AsideCancels DEF Owned
  <2>3. Unnamed(q)'
    <3>1. \A d \in DOMAIN row : row'[d].cid = row[d].cid /\ row'[d].green = row[d].green
      BY AsideCancels
    <3>. QED
      BY <1>0, <2>1, <3>1 DEF Unnamed, Tracked, At
  <2>. QED
    BY <2>2, <2>3
<1>9. ASSUME NEW q \in Begun' PROVE Where(q)' /\ Recorded(q)'
  <2>1. q \in Promoters /\ q \in Begun /\ Where(q) /\ Recorded(q) /\ JobShape(q) /\ proc'[q] = proc[q]
    BY <1>0, <1>1 DEF Promise, Begun, Shape
  <2>2. /\ New(q) \in Ctr /\ (proc[q].old # None => proc[q].old \in Ctr)
        /\ \A d \in Deps : proc[q].old # Green(d)
    BY <2>1, JobParts DEF Shape, GreensApart
  <2>3. Recorded(q)'
    BY <1>0, <1>1, <2>1, AsideCancels DEF Recorded
  <2>4. proc[q].pc # "discard" => \A c \in Ctr : ~Doomed(c)
    BY <1>6, <2>1 DEF Doomed, Promise, OneBegun, At
  <2>5. CASE proc[q].pc # "discard"
    <3>1. \A c \in Ctr : ctr[c].name = "live" => ctr'[c].name = "live" /\ ctr'[c].up = ctr[c].up
      BY <2>4, <2>5, AsideKeeps
    <3>2. \A c \in Ctr : ctr[c].name # "live" => ctr'[c].name # "live"
      BY AsideKeeps
    <3>3. proc[q].old # None => ctr'[proc[q].old].name = ctr[proc[q].old].name
      BY <2>2, AsideKeeps
    <3>4. ctr'[New(q)].name = ctr[New(q)].name
      BY <2>1, <2>2, CtrParts, AsideKeeps
    <3>5. proc[q].pc \in {"stop", "rename", "restart"} => proc[q].old # None
      BY <2>1 DEF JobShape
    <3>6. Where(q)'
      BY <2>1, <2>2, <3>1, <3>2, <3>3, <3>4, <3>5 DEF Where, Exists, Proven
    <3>. QED
      BY <2>3, <3>6
  <2>6. CASE proc[q].pc = "discard"
    BY <2>1, <2>2, <2>3, <2>6, AsideKeeps DEF Where, Exists, JobShape, Proven
  <2>. QED
    BY <2>5, <2>6
<1>. QED
  BY <1>3, <1>4, <1>5, <1>7, <1>8, <1>9 DEF Promise

---------------------------------------------------------------------------
(* The theorem *)

LEMMA PromiseStep == TypeOK /\ Shape /\ Promise /\ [Next]_vars /\ ~spoiled' => Promise'
<1>. SUFFICES ASSUME TypeOK, Shape, Promise, [Next]_vars, ~spoiled' PROVE Promise'
  OBVIOUS
<1>1. ASSUME NEW p \in Promoters, Moving(p) PROVE Promise'
  <2>1. RetiredRows' /\ ReaperMisses' /\ NoEmergency' /\ OneBegun' /\ AtRest'
    BY <1>1, RowsStep, RestStep
  <2>2. \A q \in Working' : Owned(q)' /\ Unnamed(q)'
    BY <1>1, OwnedStep, OwnedGoesOn, UnnamedStep DEF Working
  <2>3. \A q \in Begun' : Where(q)' /\ Recorded(q)'
    BY <1>1, UnderwayStep
  <2>. QED
    BY <2>1, <2>2, <2>3 DEF Promise
<1>2. CASE UNCHANGED vars
  <2>1. UNCHANGED <<ctr, row, proc, beat>>
    BY <1>2 DEF vars
  <2>2. /\ Begun' = Begun /\ (DiedInside' <=> DiedInside) /\ (Vacated' <=> Vacated) /\ Working' = Working
        /\ (Withdrawn' <=> Withdrawn) /\ \A c : (InUse(c)' <=> InUse(c)) /\ (Doomed(c)' <=> Doomed(c))
    BY <2>1 DEF Begun, DiedInside, Vacated, Holders, Working, Withdrawn, Doomed, InUse, At
  <2>3. OneBegun' /\ NoEmergency' /\ RetiredRows' /\ AtRest'
    BY <2>1, <2>2 DEF Promise, OneBegun, NoEmergency, RetiredRows, AtRest, Exists
  <2>4. ReaperMisses'
    BY <2>1, <2>2 DEF Promise, ReaperMisses, InUse, Doomed, At
  <2>5. \A p \in Begun' : Where(p)' /\ Recorded(p)'
    BY <2>1, <2>2 DEF Promise, Where, Recorded, Exists
  <2>6. \A p \in Working' : Owned(p)' /\ Unnamed(p)'
    BY <2>1, <2>2 DEF Promise, Owned, Unnamed, Tracked, At
  <2>. QED
    BY <2>3, <2>4, <2>5, <2>6 DEF Promise
<1>. QED
  BY <1>1, <1>2, NextParts, PromiseAside DEF Moving

LEMMA PromiseInit == Init => Promise
<1>. SUFFICES ASSUME Init PROVE Promise
  OBVIOUS
<1>1. Begun = {} /\ Working = {} /\ ~DiedInside
  BY InitJobs DEF Begun, Working, DiedInside, At
<1>2. \A c \in Ctr : InUse(c) => c = OldCtr /\ ctr[c].name = "live"
  BY <1>1, InitContainers DEF InUse
<1>3. \A d \in DOMAIN row :
        \/ d \in Deps /\ row[d].green \in {Green(d), None} /\ row[d].cid \in {Green(d), None} /\ row[d].st # "ACTIVE"
        \/ row[d].st = "INACTIVE" /\ row[d].green = None /\ row[d].cid = None
        \/ row[d].cid = OldCtr /\ ctr[OldCtr].name = "live" /\ row[d].st = "ACTIVE"
  <2>1. DOMAIN row = Deps \cup {Prev}
    BY InitContainers
  <2>2. \A d \in Deps : row[d] = Row("STAGED", Green(d)) \/ row[d] = Row("BUILDING", None)
    BY InitContainers
  <2>3. row[Prev] = Row("INACTIVE", None) \/ (row[Prev] = Row("ACTIVE", OldCtr) /\ ctr[OldCtr].name = "live")
    BY InitContainers
  <2>. QED
    BY <2>1, <2>2, <2>3, RowParts
<1>4. RetiredRows
  BY <1>2, <1>3, CtrParts DEF RetiredRows
<1>5. AtRest
  BY <1>3, InitContainers, CtrParts DEF AtRest
<1>6. ReaperMisses /\ OneBegun /\ NoEmergency
  BY <1>1, InitContainers, NoBeatType DEF Init, ReaperMisses, OneBegun, NoEmergency, Exists
<1>. QED
  BY <1>1, <1>4, <1>5, <1>6 DEF Promise

Known == Kept /\ (~spoiled => Promise)

LEMMA KnownAlways == Spec => []Known
<1>1. Init => Known
  BY TypeInit, ShapeInit, ChainInit, PromiseInit DEF Known, Kept
<1>2. Known /\ [Next]_vars => Known'
  BY TypeStep, ShapeStep, ChainStep, PromiseStep, SpoiledStays DEF Known, Kept
<1>. QED
  BY <1>1, <1>2, PTL DEF Spec

\* Whenever no promotion is under way and none died inside, the container_id of the ACTIVE
\* row is the container that has the canonical name and runs: the reaper, which goes by that
\* id, never stopped it, and Mark wrote it only with the new container in place.  Only after
\* a deployment has failed behind its cut-over may the row name a container that is gone;
\* then, until a promotion succeeds, no container has the name.
THEOREM RecordedServes == Spec => []ServedAsRecorded
<1>1. Known => ServedAsRecorded
  BY DEF Known, Promise, AtRest, ServedAsRecorded, Holders
<1>. QED
  BY <1>1, KnownAlways, PTL

---------------------------------------------------------------------------
(* What the name serves *)

LEMMA ServingNow ==
  ASSUME OneHolder, NEW c \in Ctr, ctr[c].name = "live"
  PROVE  Serving = IF ctr[c].up THEN Revision(c) ELSE None
<1>1. Holders = {c}
  BY DEF Holders, OneHolder
<1>2. CASE ctr[c].up
  <2>1. (CHOOSE d \in Holders : ctr[d].up) \in Holders
    BY <1>1, <1>2
  <2>2. (CHOOSE d \in Holders : ctr[d].up) = c
    BY <1>1, <2>1
  <2>. QED
    BY <1>1, <1>2, <2>2 DEF Serving
<1>3. CASE ~ctr[c].up
  BY <1>1, <1>3 DEF Serving
<1>. QED
  BY <1>2, <1>3

LEMMA ServingThen ==
  ASSUME OneHolder', NEW c \in Ctr, ctr'[c].name = "live"
  PROVE  Serving' = IF ctr'[c].up THEN Revision(c)' ELSE None
<1>1. Holders' = {c}
  BY DEF Holders, OneHolder
<1>2. CASE ctr'[c].up
  <2>1. (CHOOSE d \in Holders' : ctr'[d].up) \in Holders'
    BY <1>1, <1>2
  <2>2. (CHOOSE d \in Holders' : ctr'[d].up) = c
    BY <1>1, <2>1
  <2>. QED
    BY <1>1, <1>2, <2>2 DEF Serving, Revision
<1>3. CASE ~ctr'[c].up
  BY <1>1, <1>3 DEF Serving
<1>. QED
  BY <1>2, <1>3

LEMMA ServingNobody ==
  /\ (\A c \in Ctr : ctr[c].name # "live") => Serving = None
  /\ (\A c \in Ctr : ctr'[c].name # "live") => Serving' = None
  BY DEF Serving, Holders

LEMMA BusyIs ==
  /\ Begun = {} => Busy = None /\ Before = None
  /\ Begun' = {} => Busy' = None /\ Before' = None
  /\ \A p \in Promoters : /\ p # None
                          /\ Begun = {p} => Busy = p /\ Before = IF proc[p].old = None THEN None ELSE Revision(proc[p].old)
                          /\ Begun' = {p} => Busy' = p /\ Before' = IF proc'[p].old = None THEN None ELSE Revision(proc[p].old)'
<1>1. Begun = {} => Busy = None
  BY DEF Busy
<1>2. Begun' = {} => Busy' = None
  BY DEF Busy
<1>3. ASSUME NEW p \in Promoters
      PROVE  /\ p # None
             /\ Begun = {p} => Busy = p
             /\ Begun' = {p} => Busy' = p
  BY IdsAssumption DEF Busy
<1>. QED
  BY <1>1, <1>2, <1>3 DEF Before, Revision

LEMMA RevisionOf ==
  /\ Revision(OldCtr) = Prev /\ Revision(OldCtr)' = Prev
  /\ \A d \in Deps : Revision(Green(d)) = d /\ Revision(Green(d))' = d
  /\ \A p \in Promoters : Revision(New(p)) = proc[p].dep /\ Revision(New(p))' = proc'[p].dep
  BY DEF Revision, OldCtr, New, Green

\* A container that exists, or is to be given its name back, is of the same revision afterwards.
LEMMA RevisionStays ==
  ASSUME TypeOK, Shape, Promise, NEW p \in Promoters, Moving(p), ~spoiled', NEW c \in Ctr,
         ctr[c].name # "" \/ \E q \in Begun : proc[q].old = c
  PROVE  Revision(c)' = Revision(c)
<1>1. ASSUME NEW q \in Promoters, proc[q].pc # "idle" PROVE proc'[q].dep = proc[q].dep
  <2>1. q # p => proc'[q] = proc[q]
    BY PromoterEffect DEF Moving, Effect, Moves
  <2>. QED
    BY <1>1, <2>1, BeganStep
<1>2. ASSUME NEW q \in Promoters, c = New(q) PROVE Revision(c)' = Revision(c)
  <2>1. proc[q].pc # "idle"
    BY <1>2 DEF Shape, Birth, Exists, Unborn, Before1, Begun
  <2>. QED
    BY <1>1, <1>2, <2>1, RevisionOf
<1>3. ASSUME NEW q \in Promoters PROVE c # Emergency(q)
  BY DEF Promise, NoEmergency, Exists, Where
<1>4. CASE c = OldCtr \/ \E d \in Deps : c = Green(d)
  BY <1>4, RevisionOf
<1>. QED
  BY <1>2, <1>3, <1>4 DEF Ctr

Targets  == [p \in Promoters |-> IF proc[p].began THEN proc[p].dep ELSE None]
Outcomes == [p \in Promoters |-> proc[p].result]

LEMMA AbstractStep ==
  ASSUME NEW p \in Promoters, \A q \in Promoters \ {p} : proc'[q] = proc[q]
  PROVE  /\ Targets' = [Targets EXCEPT ![p] = IF proc'[p].began THEN proc'[p].dep ELSE None]
         /\ Outcomes' = [Outcomes EXCEPT ![p] = proc'[p].result]
         /\ Targets[p] = IF proc[p].began THEN proc[p].dep ELSE None
         /\ Outcomes[p] = proc[p].result
         /\ proc'[p].began = proc[p].began /\ (proc[p].began => proc'[p].dep = proc[p].dep) => UNCHANGED Targets
         /\ proc'[p].result = proc[p].result => UNCHANGED Outcomes
<1>1. Targets' = [Targets EXCEPT ![p] = IF proc'[p].began THEN proc'[p].dep ELSE None]
  <2>. DEFINE old(q) == IF proc[q].began THEN proc[q].dep ELSE None
              new(q) == IF proc'[q].began THEN proc'[q].dep ELSE None
  <2>1. Targets = [q \in Promoters |-> old(q)] /\ Targets' = [q \in Promoters |-> new(q)]
    BY DEF Targets
  <2>2. \A q \in Promoters \ {p} : new(q) = old(q)
    OBVIOUS
  <2>. HIDE DEF old, new
  <2>3. Targets' = [Targets EXCEPT ![p] = new(p)]
    BY <2>1, <2>2
  <2>. QED
    BY <2>3 DEF new
<1>2. Outcomes' = [Outcomes EXCEPT ![p] = proc'[p].result]
  BY DEF Outcomes
<1>3. proc'[p].began = proc[p].began /\ (proc[p].began => proc'[p].dep = proc[p].dep) => UNCHANGED Targets
  BY DEF Targets
<1>4. proc'[p].result = proc[p].result => UNCHANGED Outcomes
  BY DEF Outcomes
<1>. QED
  BY <1>1, <1>2, <1>3, <1>4 DEF Targets, Outcomes

LEMMA FinishForms ==
  ASSUME TypeOK, Shape, Promise, NEW p \in Promoters, Moving(p), ~spoiled', proc'[p].pc \in Over
  PROVE  \/ Mark(p) /\ proc'[p].result = "promoted"
         \/ Fail(p) /\ proc'[p].result = "failed"
         \/ Discard(p)
         \/ Crash(p) /\ proc'[p].result = "abandoned"
<1>1. ASSUME NEW pc \in PCs \ Over, Goto(p, pc) PROVE FALSE
  BY <1>1, GotoMoves DEF Moves
<1>2. ~Get(p) /\ ~ChecksFail(p)
  BY <1>1, GetForms, ChecksFailRows DEF Over, PCs
<1>3. \A d \in Deps, k \in {"staged", "deploy"} : ~Start(p, d, k)
  BY StartMoves DEF Over
<1>4. Mark(p) \/ Fail(p) \/ Discard(p) \/ Crash(p)
  BY <1>1, <1>2, <1>3 DEF Moving, Promotion, Check, StopOld, RenameOld, Create, StopHolder, MoveAside, CreateAgain,
     StartNew, Wait, DropGreen, DropOld, Record, Undo, Restore, Restart, Recreate, PCs, Over
<1>. QED
  BY <1>4, FinishMoves DEF Mark, Fail, Crash, PCs

\* A promotion that has not begun changes nothing of what NameSwitch sees, or is refused or abandoned.
LEMMA OutsideSwitch ==
  ASSUME TypeOK, Shape, Promise, NEW p \in Promoters, Moving(p), ~spoiled', p \notin Begun, Begun' = Begun, Shape'
  PROVE  [Switch!Next]_(Switch!vars)
<1>0. /\ UNCHANGED ctr /\ JobShape(p) /\ JobShape(p)' /\ proc[p].pc \notin Over
      /\ \A q \in Promoters \ {p} : proc'[q] = proc[q]
      /\ proc[p] \in JobState /\ proc'[p] \in JobState /\ spoiled = FALSE /\ spoiled' = FALSE
  BY OutsideStep, PromoterEffect, JobParts, SpoiledStays, NextParts DEF Moving, Effect, Flow, Moves, Shape, TypeOK, Next, Promotion
<1>1. ~proc[p].began /\ proc[p].result = "pending"
  BY <1>0 DEF Begun, JobShape, Over
<1>2. ~proc'[p].began
  <2>1. CASE proc'[p].began = proc[p].began
    BY <1>1, <2>1
  <2>2. CASE Get(p)
    <3>1. proc'[p].pc \notin Over
      BY <2>2, GetForms, FinishForms, GotoMoves DEF Over, PCs, Moves
    <3>. QED
      BY <3>1 DEF Begun, Over
  <2>. QED
    BY <2>1, <2>2, BeganStep
<1>3. Serving' = Serving
  <2>1. CASE \A c \in Ctr : ctr[c].name # "live"
    BY <1>0, <2>1, ServingNobody
  <2>2. ASSUME NEW c \in Ctr, ctr[c].name = "live" PROVE Serving' = Serving
    <3>1. Revision(c)' = Revision(c)
      BY <2>2, RevisionStays
    <3>. QED
      BY <1>0, <2>2, <3>1, ServingNow, ServingThen DEF Shape
  <2>. QED
    BY <2>1, <2>2
<1>4. Busy' = Busy /\ Before' = Before /\ Busy # p
  <2>1. CASE Begun = {}
    BY <2>1, BusyIs
  <2>2. ASSUME NEW q \in Begun PROVE Busy' = Busy /\ Before' = Before /\ Busy # p
    <3>1. q \in Promoters /\ q # p /\ Begun = {q} /\ proc'[q] = proc[q]
      BY <1>0, <2>2 DEF Begun, Promise, OneBegun
    <3>2. proc[q].old # None => Revision(proc[q].old)' = Revision(proc[q].old)
      <4>1. ASSUME NEW c \in Ctr, c = proc[q].old PROVE Revision(c)' = Revision(c)
        BY <3>1, <4>1, RevisionStays
      <4>2. proc[q].old # None => proc[q].old \in Ctr
        BY <3>1, JobParts
      <4>. QED
        BY <3>1, <4>1, <4>2 DEF Revision
    <3>. QED
      BY <3>1, <3>2, BusyIs
  <2>. QED
    BY <2>1, <2>2
<1>5. Targets' = Targets
  <2>1. proc'[p].began = proc[p].began
    BY <1>0, <1>1, <1>2 DEF JobState
  <2>. QED
    BY <1>0, <1>1, <2>1, AbstractStep
<1>6. CASE proc'[p].pc \notin Over
  <2>1. Outcomes' = Outcomes
    BY <1>0, <1>1, <1>6, AbstractStep DEF JobShape
  <2>. QED
    BY <1>0, <1>3, <1>4, <1>5, <2>1 DEF Targets, Outcomes, Switch!vars
<1>7. CASE proc'[p].pc \in Over
  <2>1. ~Mark(p) /\ ~Discard(p)
    BY <1>0, <1>1 DEF Mark, Discard, At, JobShape, Before1, Over
  <2>2. Outcomes[p] = "pending" /\ Outcomes' = [Outcomes EXCEPT ![p] = proc'[p].result]
    BY <1>0, <1>1, AbstractStep
  <2>3. CASE proc'[p].result = "failed"
    <3>1. Switch!Refuse(p)
      BY <1>0, <1>3, <1>4, <1>5, <2>2, <2>3 DEF Targets, Outcomes, Switch!Refuse
    <3>. QED
      BY <3>1 DEF Switch!Next
  <2>4. CASE proc'[p].result = "abandoned"
    <3>1. Switch!Abandon(p)
      BY <1>0, <1>3, <1>4, <1>5, <2>2, <2>4 DEF Targets, Outcomes, Switch!Abandon
    <3>. QED
      BY <3>1 DEF Switch!Next
  <2>. QED
    BY <1>7, <2>1, <2>3, <2>4, FinishForms
<1>. QED
  BY <1>6, <1>7

\* A promotion that begins: what the name serves is what it is to restore.
LEMMA BeginSwitch ==
  ASSUME TypeOK, Shape, Promise, NEW p \in Promoters, Get(p), ~spoiled', Begun = {}, Begun' = {p}
  PROVE  [Switch!Next]_(Switch!vars)
<1>0. /\ Moving(p) /\ proc[p].pc = "get" /\ JobShape(p) /\ UNCHANGED ctr /\ proc[p] \in JobState
      /\ ~proc[p].began /\ proc[p].old = None /\ proc[p].result = "pending" /\ proc[p].dep \in Deps
      /\ \A q \in Promoters \ {p} : proc'[q] = proc[q]
  BY JobParts, PromoterEffect DEF Get, At, Moving, Promotion, dockerVars, JobShape, Before1, Over, Effect, Moves
<1>1. proc'[p].began
  BY DEF Begun
<1>2. /\ proc'[p].dep = proc[p].dep /\ proc'[p].result = proc[p].result
      /\ \/ Holders = {} /\ proc'[p].old = None
         \/ proc'[p].old \in Ctr /\ ctr[proc'[p].old].name = "live"
  <2>1. "failed" \in PCs
    BY DEF PCs
  <2>. QED
    BY <1>0, <1>1, <2>1, GetForms, GotoMoves
<1>3. Busy = None /\ Busy' = p /\ Before' = Serving /\ Serving' = Serving
  <2>1. CASE Holders = {} /\ proc'[p].old = None
    <3>1. \A c \in Ctr : ctr[c].name # "live"
      BY <2>1 DEF Holders
    <3>. QED
      BY <1>0, <2>1, <3>1, BusyIs, ServingNobody
  <2>2. ASSUME NEW c \in Ctr, c = proc'[p].old, ctr[c].name = "live"
        PROVE  Busy = None /\ Busy' = p /\ Before' = Serving /\ Serving' = Serving
    <3>1. Revision(c)' = Revision(c) /\ c # None
      BY <1>0, <2>2, RevisionStays, CtrParts
    <3>2. ctr[c].up
      BY <2>2 DEF Promise, AtRest
    <3>3. OneHolder /\ OneHolder'
      BY <1>0, PromoterEffect, ApartStep DEF Shape, Moving
    <3>4. Serving = Revision(c) /\ Serving' = Revision(c)
      BY <1>0, <2>2, <3>1, <3>2, <3>3, ServingNow, ServingThen
    <3>5. Before' = Revision(c)'
      BY <2>2, <3>1, BusyIs DEF Revision
    <3>. QED
      BY <3>1, <3>4, <3>5, BusyIs
  <2>. QED
    BY <1>2, <2>1, <2>2
<1>4. Targets' = [Targets EXCEPT ![p] = proc[p].dep] /\ Outcomes' = Outcomes /\ Outcomes[p] = "pending"
  BY <1>0, <1>1, <1>2, AbstractStep
<1>5. UNCHANGED spoiled
  <2>1. ~spoiled
    BY SpoiledStays DEF Next, Promotion
  <2>2. spoiled' = (spoiled \/ Begun # {}) \/ UNCHANGED spoiled
    BY DEF Get
  <2>. QED
    BY <2>1, <2>2 DEF TypeOK
<1>6. Switch!Begin(p, proc[p].dep)
  BY <1>3, <1>4, <1>5 DEF Targets, Outcomes, Switch!Begin
<1>. QED
  BY <1>0, <1>6 DEF Switch!Next, Switch!Begin

\* The name is with the container to be restored or with the new one, or free.
LEMMA LiveThen ==
  ASSUME NEW p \in Promoters, Where(p)', OneHolder', New(p) \in Ctr, proc'[p].old \in Ctr \cup {None},
         proc'[p].pc \in PCs \ (Before1 \cup Over), NEW c \in Ctr, ctr'[c].name = "live",
         proc'[p].pc \in {"stop", "rename", "restart"} => proc'[p].old # None
  PROVE  c = New(p) \/ (c = proc'[p].old /\ proc'[p].old # None)
  BY DEF Where, OneHolder, PCs, Before1, Over, Proven

\* A call of the promotion under way changes what is served within what NameSwitch allows.
LEMMA InsideSwitch ==
  ASSUME TypeOK, Shape, Promise, NEW p \in Promoters, Moving(p), ~spoiled', Begun = {p}, Begun' = {p}, Shape', Promise'
  PROVE  [Switch!Next]_(Switch!vars)
<1>0. /\ JobShape(p) /\ JobShape(p)' /\ proc[p].began /\ proc[p].pc # "idle" /\ proc'[p].pc \notin Over
      /\ \A q \in Promoters \ {p} : proc'[q] = proc[q]
      /\ proc[p] \in JobState /\ proc'[p] \in JobState /\ spoiled = FALSE /\ spoiled' = FALSE
      /\ New(p) \in Ctr /\ proc'[p].began
  <2>1. JobShape(p) /\ JobShape(p)' /\ (\A q \in Promoters \ {p} : proc'[q] = proc[q]) /\ proc[p] \in JobState
        /\ proc'[p] \in JobState /\ New(p) \in Ctr
    BY PromoterEffect, JobParts DEF Moving, Effect, Moves
  <2>2. proc[p].began /\ proc'[p].began /\ proc'[p].pc \notin Over
    BY DEF Begun, Over
  <2>3. proc[p].pc # "idle"
    BY <2>1, <2>2 DEF JobShape, Before1
  <2>4. spoiled = FALSE /\ spoiled' = FALSE
    <3>1. [Next]_vars /\ spoiled \in BOOLEAN /\ spoiled' \in BOOLEAN
      BY PromoterEffect DEF Moving, Next, TypeOK, Effect
    <3>. QED
      BY <3>1, SpoiledStays
  <2>. QED
    BY <2>1, <2>2, <2>3, <2>4
<1>1. proc'[p].dep = proc[p].dep /\ proc'[p].result = proc[p].result
  <2>1. proc'[p].dep = proc[p].dep
    BY <1>0, BeganStep
  <2>2. proc[p].pc \notin Over
    BY DEF Begun, Over
  <2>. QED
    BY <1>0, <2>1, <2>2 DEF JobShape
<1>2. proc'[p].old = proc[p].old
  <2>1. PICK pc \in PCs : Goto(p, pc)
    BY <1>0, MoveForms, FinishMoves DEF Get, At, JobShape, Before1, Start, Over, PCs, Moves
  <2>. QED
    BY <2>1, GotoMoves
<1>3. Busy = p /\ Busy' = p /\ p # None /\ Before' = Before
  <2>1. ASSUME NEW c \in Ctr, c = proc[p].old PROVE Revision(c)' = Revision(c)
    BY <2>1, RevisionStays
  <2>2. proc[p].old # None => proc[p].old \in Ctr /\ Revision(proc[p].old)' = Revision(proc[p].old)
    BY <1>2, <2>1, JobParts DEF Revision
  <2>. QED
    BY <1>2, <2>2, BusyIs
<1>4. UNCHANGED <<Targets, Outcomes>> /\ Targets[p] = proc[p].dep
  BY <1>0, <1>1, AbstractStep DEF JobState
<1>5. Serving' \in {None, Targets[p], Before}
  <2>1. CASE \A c \in Ctr : ctr'[c].name # "live"
    BY <2>1, ServingNobody
  <2>2. ASSUME NEW c \in Ctr, ctr'[c].name = "live" PROVE Serving' \in {None, Targets[p], Before}
    <3>1. Serving' = IF ctr'[c].up THEN Revision(c)' ELSE None
      BY <2>2, ServingThen DEF Shape
    <3>2. proc'[p].old \in Ctr \cup {None} /\ proc'[p].pc \in PCs /\ Where(p)' /\ OneHolder' /\ proc'[p].pc \notin Before1
      BY <1>0 DEF JobState, Promise, Shape, JobShape
    <3>3. c = New(p) \/ (c = proc'[p].old /\ proc'[p].old # None)
      BY <1>0, <2>2, <3>2, LiveThen DEF JobShape
    <3>4. c = New(p) => Revision(c)' = Targets[p]
      BY <1>1, <1>4, RevisionOf
    <3>5. c = proc'[p].old /\ proc'[p].old # None => Revision(c)' = Before'
      BY BusyIs DEF Revision
    <3>. QED
      BY <1>3, <3>1, <3>3, <3>4, <3>5
  <2>. QED
    BY <2>1, <2>2
<1>6. Switch!Change
  BY <1>0, <1>3, <1>4, <1>5 DEF Targets, Outcomes, Switch!Change
<1>. QED
  BY <1>6 DEF Switch!Next

\* What a promotion reports when it ends is what the name serves then.
LEMMA EndSwitch ==
  ASSUME TypeOK, Shape, Promise, NEW p \in Promoters, Moving(p), ~spoiled', Begun = {p}, Begun' = {},
         proc'[p].pc \in Over
  PROVE  [Switch!Next]_(Switch!vars)
<1>0. /\ JobShape(p) /\ proc[p].began /\ \A q \in Promoters \ {p} : proc'[q] = proc[q]
      /\ proc[p] \in JobState /\ Where(p) /\ New(p) \in Ctr
      /\ proc[p].old # None => proc[p].old \in Ctr
  BY PromoterEffect, JobParts DEF Moving, Effect, Moves, Begun, Promise
<1>1. spoiled = FALSE /\ spoiled' = FALSE
  <2>1. [Next]_vars /\ spoiled \in BOOLEAN /\ spoiled' \in BOOLEAN
    BY PromoterEffect DEF Moving, Next, TypeOK, Effect
  <2>. QED
    BY <2>1, SpoiledStays
<1>2. proc[p].result = "pending" /\ proc[p].pc \notin Over
  BY <1>0 DEF Begun, JobShape, Over
<1>3. Mark(p) \/ Fail(p) \/ Discard(p) \/ Crash(p)
  BY FinishForms
<1>4. /\ proc'[p].dep = proc[p].dep /\ proc'[p].began = proc[p].began
      /\ Mark(p) \/ Fail(p) \/ Crash(p) => UNCHANGED ctr
  BY <1>3, FinishMoves DEF Mark, Fail, Discard, Crash, dockerVars, PCs
<1>5. Targets' = Targets /\ Targets[p] = proc[p].dep /\ Outcomes[p] = "pending"
      /\ Outcomes' = [Outcomes EXCEPT ![p] = proc'[p].result]
  BY <1>0, <1>2, <1>4, AbstractStep
<1>6. Busy = p /\ Busy' = None /\ Before' = None
  BY BusyIs
<1>7. UNCHANGED ctr => Serving' = Serving
  <2>1. CASE \A c \in Ctr : ctr[c].name # "live"
    BY <2>1, ServingNobody
  <2>2. ASSUME UNCHANGED ctr, NEW c \in Ctr, ctr[c].name = "live" PROVE Serving' = Serving
    <3>1. Revision(c)' = Revision(c)
      BY <2>2, RevisionStays
    <3>2. OneHolder /\ OneHolder'
      BY PromoterEffect, ApartStep DEF Shape, Moving
    <3>. QED
      BY <2>2, <3>1, <3>2, ServingNow, ServingThen
  <2>. QED
    BY <2>1, <2>2
<1>8. proc[p].pc \in Proven \ {"discard"} => Serving = Targets[p]
  <2>1. proc[p].pc \in Proven \ {"discard"} => ctr[New(p)].name = "live" /\ ctr[New(p)].up
    BY <1>0 DEF Where
  <2>. QED
    BY <1>0, <1>5, <2>1, ServingNow, RevisionOf DEF Shape
<1>9. proc[p].pc \in {"stop", "failed"} => Serving = Before
  <2>1. CASE proc[p].pc = "failed" /\ proc[p].old = None
    BY <1>0, <2>1, ServingNobody, BusyIs DEF Where
  <2>2. CASE proc[p].pc \in {"stop", "failed"} /\ proc[p].old # None
    <3>1. ctr[proc[p].old].name = "live" /\ ctr[proc[p].old].up
      BY <1>0, <2>2 DEF Where
    <3>2. Serving = Revision(proc[p].old)
      BY <1>0, <2>2, <3>1, ServingNow DEF Shape
    <3>. QED
      BY <2>2, <3>2, BusyIs
  <2>. QED
    BY <1>0, <2>1, <2>2 DEF JobShape
<1>10. CASE Mark(p) /\ proc'[p].result = "promoted"
  <2>1. Serving = Targets[p]
    BY <1>8, <1>10 DEF Mark, At, Proven
  <2>2. Switch!End(p, "promoted")
    BY <1>1, <1>4, <1>5, <1>6, <1>7, <1>10, <2>1 DEF Targets, Outcomes, Switch!End
  <2>. QED
    BY <2>2 DEF Switch!Next
<1>11. CASE Fail(p) /\ proc'[p].result = "failed"
  <2>1. Serving = Before
    BY <1>9, <1>11 DEF Fail, At
  <2>2. Switch!End(p, "failed")
    BY <1>1, <1>4, <1>5, <1>6, <1>7, <1>11, <2>1 DEF Targets, Outcomes, Switch!End
  <2>. QED
    BY <2>2 DEF Switch!Next
<1>12. CASE Crash(p) /\ proc'[p].result = "abandoned"
  <2>1. proc[p].pc \in (Proven \ {"discard"}) \cup {"stop", "failed"}
    BY <1>0, <1>1, <1>12 DEF Crash, Switching, PCs, JobState, Proven, JobShape, Before1
  <2>2. Serving \in {Before, Targets[p]}
    BY <1>8, <1>9, <2>1
  <2>3. Switch!Abandon(p)
    BY <1>1, <1>4, <1>5, <1>6, <1>7, <1>12, <2>2 DEF Targets, Outcomes, Switch!Abandon
  <2>. QED
    BY <2>3 DEF Switch!Next
<1>13. CASE Discard(p)
  <2>1. ctr[New(p)].name = "live" /\ (\A c \in Ctr : ctr'[c].name # "live") /\ proc'[p].result = "withdrawn"
    BY <1>13, DiscardFacts
  <2>2. Serving \in {Targets[p], None}
    BY <1>0, <1>5, <2>1, ServingNow, RevisionOf DEF Shape
  <2>3. Serving' = None
    BY <2>1, ServingNobody
  <2>4. Switch!Withdraw(p)
    BY <1>1, <1>5, <1>6, <2>1, <2>2, <2>3 DEF Targets, Outcomes, Switch!Withdraw
  <2>. QED
    BY <2>4 DEF Switch!Next
<1>. QED
  BY <1>10, <1>11, <1>12, <1>13, FinishForms

\* The beat tasks, a sick green and a superseding deployment change nothing of what NameSwitch
\* sees, but that the reaper may stop a container its deployment is about to remove.
LEMMA AsideSwitch ==
  ASSUME TypeOK, Shape, Promise, Aside, ~spoiled'
  PROVE  [Switch!Next]_(Switch!vars)
<1>0. proc' = proc /\ spoiled = FALSE /\ spoiled' = FALSE
  <2>1. [Next]_vars /\ spoiled \in BOOLEAN /\ spoiled' \in BOOLEAN
    BY AsideSteps DEF Aside, Next, TypeOK, AsideEffect
  <2>. QED
    BY <2>1, AsideSteps, SpoiledStays DEF AsideEffect
<1>1. OneHolder /\ OneHolder'
  BY AsideSteps, ShapeAside DEF Shape
<1>2. Busy' = Busy /\ Before' = Before /\ Targets' = Targets /\ Outcomes' = Outcomes
  BY <1>0 DEF Busy, Before, Begun, Revision, Targets, Outcomes
<1>3. CASE Serving' = Serving
  BY <1>0, <1>2, <1>3 DEF Targets, Outcomes, Switch!vars
<1>4. ASSUME NEW p \in Promoters, At(p, "discard"), ctr[New(p)].name = "live", ~ctr'[New(p)].up
      PROVE  [Switch!Next]_(Switch!vars)
  <2>1. p \in Begun /\ New(p) \in Ctr
    BY <1>4, JobParts DEF At, JobShape, Begun, Before1, Over
  <2>2. Begun = {p}
    BY <2>1 DEF Promise, OneBegun
  <2>3. Busy = p /\ p # None
    BY <2>2, BusyIs
  <2>4. Serving' = None
    BY <1>1, <1>4, <2>1, AsideKeeps, ServingThen
  <2>5. Switch!Change
    BY <1>0, <1>2, <2>3, <2>4 DEF Targets, Outcomes, Switch!Change
  <2>. QED
    BY <2>5 DEF Switch!Next
<1>5. CASE \A c \in Ctr : ctr[c].name # "live"
  BY <1>3, <1>5, AsideKeeps, ServingNobody
<1>6. ASSUME NEW c \in Ctr, ctr[c].name = "live" PROVE [Switch!Next]_(Switch!vars)
  <2>1. ctr'[c].name = "live" /\ (ctr'[c].up = ctr[c].up \/ (Doomed(c) /\ ~ctr'[c].up))
    BY <1>6, AsideKeeps
  <2>2. Revision(c)' = Revision(c)
    BY <1>0 DEF Revision
  <2>3. CASE ctr'[c].up = ctr[c].up
    BY <1>1, <1>3, <1>6, <2>1, <2>2, <2>3, ServingNow, ServingThen
  <2>4. CASE Doomed(c) /\ ~ctr'[c].up
    BY <1>4, <1>6, <2>4 DEF Doomed
  <2>. QED
    BY <2>1, <2>3, <2>4
<1>. QED
  BY <1>5, <1>6

LEMMA SwitchStep ==
  ASSUME TypeOK, Shape, ~spoiled => Promise, [Next]_vars, TypeOK', Shape', ~spoiled' => Promise'
  PROVE  [Switch!Next]_(Switch!vars)
<1>1. CASE spoiled'
  <2>1. spoiled' = TRUE
    BY <1>1 DEF TypeOK
  <2>. QED
    BY <2>1 DEF Switch!Next, Switch!Spoil
<1>2. CASE ~spoiled'
  <2>1. Promise
    BY <1>2, SpoiledStays
  <2>2. ASSUME NEW p \in Promoters, Moving(p) PROVE [Switch!Next]_(Switch!vars)
    <3>1. CASE Begun' = Begun /\ p \notin Begun
      BY <1>2, <2>1, <2>2, <3>1, OutsideSwitch
    <3>2. CASE Begun' = Begun /\ p \in Begun
      <4>1. Begun = {p}
        BY <2>1, <3>2 DEF Promise, OneBegun
      <4>. QED
        BY <1>2, <2>1, <2>2, <3>2, <4>1, InsideSwitch
    <3>3. CASE Get(p) /\ Begun = {} /\ Begun' = {p}
      BY <1>2, <2>1, <3>3, BeginSwitch
    <3>4. CASE Begun = {p} /\ Begun' = {} /\ proc'[p].pc \in Over
      BY <1>2, <2>1, <2>2, <3>4, EndSwitch
    <3>. QED
      BY <1>2, <2>1, <2>2, <3>1, <3>2, <3>3, <3>4, BegunStep
  <2>3. CASE Aside
    BY <1>2, <2>1, <2>3, AsideSwitch
  <2>4. CASE UNCHANGED vars
    BY <2>4 DEF vars, Switch!vars, Serving, Holders, Busy, Before, Begun, Revision
  <2>. QED
    BY <2>2, <2>3, <2>4, NextParts DEF Moving
<1>. QED
  BY <1>1, <1>2

LEMMA SwitchInit == Init => Switch!Init
<1>. SUFFICES ASSUME Init PROVE Switch!Init
  OBVIOUS
<1>1. Begun = {}
  BY InitJobs DEF Begun
<1>2. Serving \in Deps \cup {Prev} \cup {None}
  <2>1. CASE \A c \in Ctr : ctr[c].name # "live"
    BY <2>1, ServingNobody
  <2>2. ASSUME NEW c \in Ctr, ctr[c].name = "live" PROVE Serving = Prev
    <3>1. c = OldCtr /\ ctr[c].up
      BY <2>2, InitContainers
    <3>. QED
      BY <2>2, <3>1, ShapeInit, ServingNow, RevisionOf DEF Shape
  <2>. QED
    BY <2>1, <2>2
<1>3. Targets = [p \in Promoters |-> None] /\ Outcomes = [p \in Promoters |-> "pending"] /\ spoiled = FALSE
  BY InitJobs DEF Targets, Outcomes, Init
<1>. QED
  BY <1>1, <1>2, <1>3, BusyIs DEF Targets, Outcomes, Switch!Init

\* promote_container() and its callers implement NameSwitch, call by call, for any number of
\* promotions and mishaps: while one is under way the name is free or with the old or the new
\* container, and when it ends the name serves what it reports, which is nothing for a
\* deployment that fails behind its cut-over.
THEOREM PromiseIsKept == Spec => KeepsPromise
<1>1. Init => Switch!Init
  BY SwitchInit
<1>2. Known /\ [Next]_vars /\ Known' => [Switch!Next]_(Switch!vars)
  BY SwitchStep DEF Known, Kept
<1>. QED
  BY <1>1, <1>2, KnownAlways, PTL DEF Spec, KeepsPromise, Switch!Spec

=============================================================================
