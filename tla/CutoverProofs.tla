--------------------------- MODULE CutoverProofs ---------------------------
(***************************************************************************)
(* For any number of promotions, deployments and mishaps:                  *)
(* promote_container() never removes the last container known to be good.  *)
(***************************************************************************)
EXTENDS Cutover, TLAPS

Container == [name : {"", "live", "green", "backup", "aside"}, up : BOOLEAN, sick : BOOLEAN]
JobState  == [pc : PCs, dep : Deps \cup {None}, kind : {"staged", "deploy", None}, began : BOOLEAN,
              old : Ctr \cup {None}, wasUp : BOOLEAN,
              result : {"pending", "promoted", "failed", "withdrawn", "abandoned"}]
BeatState == [pc : {"idle", "rows", "stop", "stop_sick", "list", "list_referred", "remove", "cancel",
                    "remove_prior"}, ctr : Ctr, dep : Deps \cup {None}]
RowState  == [st : Status, green : Ctr \cup {None}, cid : Ctr \cup {None}]

---------------------------------------------------------------------------
(* The inductive invariant *)

\* Before promote_container() does anything to the old container.
Before1 == {"idle", "check", "get"}
\* The new container has not been created.
Unborn == Before1 \cup {"stop", "rename", "create", "conflict", "aside", "again"}
\* The new container has passed its health check.
Proven == {"drop_green", "drop_old", "record", "mark", "discard"}
Over   == {"end", "dead"}

JobShape(p) ==
  LET j == proc[p] IN
  /\ j.pc # "idle" => j.dep \in Deps
  /\ j.began => j.pc \notin Before1
  /\ ~j.began => j.pc \in Before1 \cup {"failed"} \cup Over /\ j.old = None
  /\ j.pc \in Over => j.old = None
  /\ j.pc \in {"stop", "rename", "restore", "restart", "emergency"} => j.old # None
  /\ j.result = "pending" <=> j.pc \notin Over

\* No container is there before it is created, and nothing refers to it.
Birth(p) ==
  LET j == proc[p] IN
  /\ j.pc \in Unborn => /\ ~Exists(New(p)) /\ beat.ctr # New(p)
                        /\ \A q \in Promoters : proc[q].old # New(p)
                        /\ \A d \in DOMAIN row : row[d].green # New(p) /\ row[d].cid # New(p)
  /\ j.pc \in Proven => New(p) \in passed
  /\ j.pc \notin Proven \cup Over => New(p) \notin passed

\* Nobody gives a green container another name.
GreensApart ==
  \A d \in Deps : /\ ctr[Green(d)].name \in {"", "green"} /\ Green(d) \notin passed
                  /\ \A p \in Promoters : proc[p].old # Green(d)

OneHolder == \A c, d \in Ctr : ctr[c].name = "live" /\ ctr[d].name = "live" => c = d

Staged == \A d \in DOMAIN row : row[d].st = "STAGED" => d \in Deps /\ row[d].green = Green(d) /\ row[d].cid = Green(d)

\* The row of a deployment that has recorded its container names one.
Tracked(p) == At(p, "discard") \/ (At(p, "mark") /\ proc[p].kind = "deploy")
Tracing ==
  /\ \A d \in DOMAIN row : row[d].st = "HEALTH_CHECK" => row[d].green \in Ctr
  /\ \A p \in Promoters : Tracked(p) => row[proc[p].dep].green \in Ctr
  /\ beat.pc = "cancel" => beat.dep \in Deps

\* t orders the containers: a promotion's is later than the one it replaces, and one
\* at least as late as any that passed is there.
Chain(t) ==
  /\ \A p \in Promoters : proc[p].old # None => t[proc[p].old] < t[New(p)]
  /\ ~discarded => \A c \in passed : \E d \in passed : Exists(d) /\ t[c] <= t[d]

Shape ==
  /\ \A p \in Promoters : JobShape(p) /\ Birth(p)
  /\ GreensApart /\ OneHolder /\ Staged /\ Tracing

---------------------------------------------------------------------------
(* Types, and what the operators of the model do *)

LEMMA TypeParts == TypeOK => /\ ctr \in [Ctr -> Container] /\ row \in [Deps \cup {Prev} -> RowState]
                             /\ proc \in [Promoters -> JobState] /\ beat \in BeatState
                             /\ passed \subseteq Ctr
  BY DEF TypeOK, Container, RowState, JobState, BeatState

LEMMA CtrParts ==
  /\ OldCtr \in Ctr
  /\ \A d \in Deps : Green(d) \in Ctr /\ Green(d) # OldCtr
  /\ \A p \in Promoters : /\ New(p) \in Ctr /\ Emergency(p) \in Ctr
                          /\ New(p) # OldCtr /\ Emergency(p) # OldCtr
  /\ \A p, q \in Promoters : /\ New(p) = New(q) => p = q
                             /\ Emergency(p) = Emergency(q) => p = q
                             /\ New(p) # Emergency(q)
  /\ \A p \in Promoters, d \in Deps : New(p) # Green(d) /\ Emergency(p) # Green(d)
  /\ \A c \in Ctr : c # None
  BY NoneAssumption DEF Ctr, OldCtr, Green, New, Emergency

LEMMA NoCtrType == NoCtr \in Container /\ NoCtr.name = "" /\ NoCtr.up = FALSE
  BY DEF NoCtr, Container

\* Only the job of p changes, and its next call is pc.
Moves(p, pc) ==
  /\ proc' \in [Promoters -> JobState] /\ proc'[p].pc = pc
  /\ \A q \in Promoters \ {p} : proc'[q] = proc[q]

LEMMA GotoMoves ==
  ASSUME TypeOK, NEW p \in Promoters, NEW pc \in PCs, Goto(p, pc)
  PROVE  /\ Moves(p, pc)
         /\ proc'[p].dep = proc[p].dep /\ proc'[p].kind = proc[p].kind /\ proc'[p].began = proc[p].began
         /\ proc'[p].old = proc[p].old /\ proc'[p].wasUp = proc[p].wasUp /\ proc'[p].result = proc[p].result
  BY TypeParts DEF Goto, Moves, JobState

LEMMA FinishMoves ==
  ASSUME TypeOK, NEW p \in Promoters, NEW pc \in PCs, NEW r \in {"promoted", "failed", "withdrawn", "abandoned"}, Finish(p, pc, r)
  PROVE  /\ Moves(p, pc)
         /\ proc'[p].dep = proc[p].dep /\ proc'[p].kind = proc[p].kind /\ proc'[p].began = proc[p].began
         /\ proc'[p].old = None /\ proc'[p].result = r
  BY TypeParts DEF Finish, Moves, JobState

\* Container c changes, and no other one.
Touches(c) == /\ ctr' \in [Ctr -> Container]
              /\ \A d \in Ctr \ {c} : ctr'[d] = ctr[d]

LEMMA Removal ==
  ASSUME TypeOK, NEW c \in Ctr, ctr' = Removed(c)
  PROVE  Touches(c) /\ ctr'[c].name = "" /\ ctr'[c].up = FALSE
  BY TypeParts, NoCtrType DEF Removed, Touches

LEMMA Naming ==
  ASSUME TypeOK, NEW c \in Ctr, NEW n \in {"", "live", "green", "backup", "aside"}, ctr' = Named(c, n)
  PROVE  Touches(c) /\ ctr'[c].name = n /\ ctr'[c].up = ctr[c].up
  BY TypeParts DEF Named, Touches, Container

LEMMA Stopping ==
  ASSUME TypeOK, NEW c \in Ctr, ctr' = Stopped(c)
  PROVE  Touches(c) /\ ctr'[c].name = ctr[c].name /\ ctr'[c].up = FALSE
  BY TypeParts DEF Stopped, Touches, Container

LEMMA Starting ==
  ASSUME TypeOK, NEW c \in Ctr, ctr' = Started(c)
  PROVE  Touches(c) /\ ctr'[c].name = ctr[c].name /\ ctr'[c].up = TRUE
  BY TypeParts DEF Started, Touches, Container

LEMMA Creation ==
  ASSUME TypeOK, NEW c \in Ctr, ctr' = Created(c)
  PROVE  Touches(c) /\ ctr'[c].name = "live"
<1>1. [NoCtr EXCEPT !.name = "live"] \in Container /\ [NoCtr EXCEPT !.name = "live"].name = "live"
  BY DEF NoCtr, Container
<1>. QED
  BY <1>1, TypeParts DEF Created, Touches

LEMMA EmergencyCreation ==
  ASSUME TypeOK, NEW c \in Ctr, ctr' = [Created(c) EXCEPT ![c].up = TRUE]
  PROVE  Touches(c) /\ ctr'[c].name = "live"
<1>. DEFINE k == [NoCtr EXCEPT !.name = "live"]
<1>1. k \in Container /\ k.name = "live"
  BY DEF NoCtr, Container
<1>. HIDE DEF k
<1>2. [k EXCEPT !.up = TRUE] \in Container /\ [k EXCEPT !.up = TRUE].name = "live"
  BY <1>1 DEF Container
<1>3. Created(c) = [ctr EXCEPT ![c] = k]
  BY DEF Created, k
<1>4. ctr' = [ctr EXCEPT ![c] = [k EXCEPT !.up = TRUE]]
  BY <1>1, <1>3, TypeParts
<1>. QED
  BY <1>2, <1>4, TypeParts DEF Touches

---------------------------------------------------------------------------
(* What one step of a promotion does *)

NamesSame == ctr' \in [Ctr -> Container] /\ \A c \in Ctr : ctr'[c].name = ctr[c].name
\* c gets the canonical name, which is free or its own.
Takes(p, c) ==
  /\ Touches(c) /\ ctr'[c].name = "live" /\ \A d \in Ctr \ {c} : ctr[d].name # "live"
  /\ \/ c = New(p) /\ proc[p].pc \in {"create", "again"} /\ proc'[p].pc = "start"
     \/ c = proc[p].old /\ ctr[c].name # ""
     \/ c = Emergency(p) /\ spoiled'
\* c is renamed.
Yields(p, c) ==
  /\ Touches(c) /\ ctr[c].name # "" /\ ctr'[c].name \in {"backup", "aside"}
  /\ c = proc[p].old \/ ctr[c].name = "live"
\* c is removed.
Goes(p, c) ==
  /\ Touches(c) /\ ctr'[c].name = ""
  /\ \/ c = Green(proc[p].dep) /\ proc[p].pc = "drop_green"
     \/ c = New(p) /\ proc[p].pc = "undo"
     \/ c = proc[p].old /\ proc[p].pc = "drop_old"
     \/ proc[p].pc = "discard" /\ (discarded' \/ c \notin passed)
Names(p) == NamesSame \/ \E c \in Ctr : Takes(p, c) \/ Yields(p, c) \/ Goes(p, c)

\* The calls p may go on with.
Flow(p) ==
  /\ proc'[p].pc \in Unborn => proc[p].pc \in Unborn
  /\ proc'[p].pc \in Proven => proc[p].pc \in Proven \/ proc[p].pc = "wait"
  /\ proc'[p].pc = "end" => proc[p].pc \in {"mark", "discard", "failed"}
  /\ proc[p].pc \in Proven => proc'[p].pc \in Proven \cup Over
  /\ proc[p].pc \notin Over

\* The container p is to replace is chosen once, among those that have the name.
Chooses(p) ==
  \/ proc'[p].old \in {None, proc[p].old}
  \/ /\ proc[p].pc = "get" /\ proc'[p].old \in Ctr /\ ctr[proc'[p].old].name = "live"
     /\ UNCHANGED ctr
Proves(p) ==
  \/ UNCHANGED passed /\ (proc'[p].pc \in Proven => proc[p].pc \in Proven)
  \/ /\ proc[p].pc = "wait" /\ proc'[p].pc = "drop_green" /\ Exists(New(p))
     /\ passed' = passed \cup {New(p)} /\ UNCHANGED ctr
Records(p) ==
  /\ row' \in [Deps \cup {Prev} -> RowState]
  /\ \A d \in DOMAIN row :
       /\ row'[d].st = "STAGED" => row'[d] = row[d]
       /\ \/ row'[d].green = row[d].green
          \/ /\ proc[p].pc = "record" /\ row'[d].green \in Ctr
             /\ row'[d].green = New(p) \/ Exists(row'[d].green)
       /\ \/ row'[d].cid = row[d].cid
          \/ proc[p].pc = "mark" /\ proc'[p].pc = "end" /\ row'[d].cid \in {New(p), row[d].green}
       /\ row'[d].st = "HEALTH_CHECK" => row[d].st = "HEALTH_CHECK" \/ row'[d].green \in Ctr
Tracks(p) ==
  Tracked(p)' => \/ Tracked(p) /\ proc'[p].dep = proc[p].dep
                 \/ row'[proc'[p].dep].green \in Ctr

Effect(p) ==
  /\ Moves(p, proc'[p].pc) /\ JobShape(p)' /\ Flow(p) /\ Names(p) /\ Chooses(p) /\ Proves(p)
  /\ Records(p) /\ Tracks(p)
  /\ UNCHANGED beat /\ discarded' \in BOOLEAN /\ (~discarded' => ~discarded)
  /\ spoiled' \in BOOLEAN /\ mishaps' \in 0..MaxMishaps

LEMMA MishapType ==
  ASSUME TypeOK, NEW kind, Mishap(kind)
  PROVE  mishaps' \in 0..MaxMishaps
<1>1. mishaps \in 0..MaxMishaps
  BY DEF TypeOK
<1>. QED
  BY <1>1, IdsAssumption DEF Mishap

LEMMA NamesKept == TypeOK /\ UNCHANGED ctr => NamesSame
  BY TypeParts DEF NamesSame

LEMMA RowsKept == \A p : TypeOK /\ UNCHANGED row => Records(p)
  BY TypeParts DEF Records

\* A step that only goes on with another call.
LEMMA GoOn ==
  ASSUME TypeOK, Shape, NEW p \in Promoters, NEW pc \in PCs \ Over, Goto(p, pc),
         proc[p].began => pc \notin Before1, proc[p].began \/ pc \in Before1 \cup {"failed"},
         pc \in {"stop", "rename", "restore", "restart", "emergency"} => proc[p].old # None,
         proc[p].pc \notin {"idle"} \cup Over
  PROVE  Moves(p, proc'[p].pc) /\ JobShape(p)' /\ Chooses(p)
<1>1. Moves(p, pc) /\ proc'[p].pc = pc
  BY GotoMoves DEF Moves
<1>2. /\ proc'[p].dep = proc[p].dep /\ proc'[p].began = proc[p].began
      /\ proc'[p].old = proc[p].old /\ proc'[p].result = proc[p].result
  BY GotoMoves
<1>3. JobShape(p) /\ proc[p].began \in BOOLEAN
  BY TypeParts DEF Shape, JobState
<1>. QED
  BY <1>1, <1>2, <1>3 DEF JobShape, Chooses

LEMMA Counted ==
  ASSUME TypeOK, Fine \/ Trouble
  PROVE  mishaps' \in 0..MaxMishaps
<1>1. mishaps \in 0..MaxMishaps
  BY DEF TypeOK
<1>. QED
  BY <1>1, MishapType DEF Fine, Trouble

LEMMA JobParts ==
  ASSUME TypeOK, Shape, NEW p \in Promoters
  PROVE  /\ proc[p] \in JobState /\ JobShape(p)
         /\ proc[p].pc # "idle" => Green(proc[p].dep) \in Ctr
         /\ proc[p].old # None => proc[p].old \in Ctr
         /\ New(p) \in Ctr /\ Emergency(p) \in Ctr
         /\ spoiled \in BOOLEAN /\ discarded \in BOOLEAN
  BY TypeParts, CtrParts DEF Shape, JobShape, JobState, TypeOK

\* A step to a call other than the last ones records nothing.
LEMMA Untracked ==
  ASSUME NEW p, proc'[p].pc \notin {"discard", "mark"}
  PROVE  Tracks(p)
  BY DEF Tracks, Tracked, At

LEMMA StartEffect ==
  ASSUME TypeOK, Shape, NEW p \in Promoters, NEW d \in Deps, NEW k \in {"staged", "deploy"}, Start(p, d, k)
  PROVE  Effect(p)
<1>1. /\ Moves(p, "check") /\ proc'[p].pc = "check" /\ proc'[p].dep = d /\ proc'[p].began = proc[p].began
      /\ proc'[p].old = proc[p].old /\ proc'[p].result = proc[p].result
  <2>. DEFINE j == [proc[p] EXCEPT !.pc = "check", !.dep = d, !.kind = k]
  <2>1. /\ j \in JobState /\ j.pc = "check" /\ j.dep = d /\ j.began = proc[p].began
        /\ j.old = proc[p].old /\ j.result = proc[p].result
    BY JobParts DEF JobState, PCs
  <2>2. proc' = [proc EXCEPT ![p] = j]
    BY TypeParts DEF Start
  <2>. HIDE DEF j
  <2>. QED
    BY <2>1, <2>2, TypeParts DEF Moves
<1>2. JobShape(p) /\ At(p, "idle") /\ proc[p] \in JobState
  BY JobParts DEF Start
<1>3. JobShape(p)'
  BY <1>1, <1>2 DEF JobShape, At, JobState, Before1, Over
<1>4. Names(p) /\ Records(p)
  BY NamesKept, RowsKept DEF Start, Names, dockerVars
<1>5. Flow(p) /\ Proves(p) /\ Chooses(p)
  BY <1>1, <1>2 DEF Flow, Proves, Chooses, Start, At, dockerVars, Unborn, Before1, Proven, Over
<1>6. Tracks(p)
  BY <1>1, Untracked
<1>. QED
  BY <1>1, <1>3, <1>4, <1>5, <1>6, Counted, JobParts DEF Effect, Start, dockerVars

LEMMA CheckEffect ==
  ASSUME TypeOK, Shape, NEW p \in Promoters, Check(p)
  PROVE  Effect(p)
<1>1. PICK pc \in {"get", "failed"} : Goto(p, pc)
  BY DEF Check
<1>2. JobShape(p) /\ At(p, "check") /\ proc[p] \in JobState
  BY JobParts DEF Check
<1>3. Moves(p, proc'[p].pc) /\ JobShape(p)' /\ Chooses(p)
  BY <1>1, <1>2, GoOn DEF At, PCs, Over, Before1, JobShape, JobState
<1>4. Names(p) /\ Records(p)
  BY NamesKept, RowsKept DEF Check, Names, dockerVars
<1>5. proc'[p].pc \in {"get", "failed"}
  BY <1>1, GotoMoves DEF PCs, Moves
<1>6. Flow(p) /\ Proves(p)
  BY <1>2, <1>5 DEF Flow, Proves, Check, At, dockerVars, Unborn, Before1, Proven, Over
<1>7. Tracks(p)
  BY <1>5, Untracked
<1>. QED
  BY <1>3, <1>4, <1>6, <1>7, Counted, JobParts DEF Effect, Check, dockerVars

LEMMA GetEffect ==
  ASSUME TypeOK, Shape, NEW p \in Promoters, Get(p)
  PROVE  Effect(p)
<1>1. JobShape(p) /\ At(p, "get") /\ proc[p] \in JobState
  BY JobParts DEF Get
<1>2. Names(p) /\ Records(p)
  BY NamesKept, RowsKept DEF Get, Names, dockerVars
<1>3. CASE Holders = {} /\ proc' = [proc EXCEPT ![p].pc = "create", ![p].began = TRUE]
  <2>. DEFINE j == [proc[p] EXCEPT !.pc = "create", !.began = TRUE]
  <2>1. /\ j \in JobState /\ j.pc = "create" /\ j.dep = proc[p].dep /\ j.began = TRUE
        /\ j.old = proc[p].old /\ j.result = proc[p].result
    BY <1>1 DEF JobState, PCs
  <2>2. proc' = [proc EXCEPT ![p] = j]
    BY <1>3, TypeParts
  <2>. HIDE DEF j
  <2>3. /\ Moves(p, "create") /\ proc'[p].pc = "create" /\ proc'[p].dep = proc[p].dep /\ proc'[p].began = TRUE
        /\ proc'[p].old = proc[p].old /\ proc'[p].result = proc[p].result
    BY <2>1, <2>2, TypeParts DEF Moves
  <2>4. JobShape(p)'
    BY <1>1, <2>3 DEF JobShape, At, Before1, Over
  <2>5. Flow(p) /\ Proves(p) /\ Chooses(p)
    BY <1>1, <2>3 DEF Flow, Proves, Chooses, Get, At, dockerVars, Unborn, Before1, Proven, Over
  <2>6. Tracks(p)
    BY <2>3, Untracked
  <2>. QED
    BY <1>2, <2>3, <2>4, <2>5, <2>6, Counted, JobParts DEF Effect, Get, dockerVars
<1>4. ASSUME NEW c \in Holders,
             proc' = [proc EXCEPT ![p].pc = "stop", ![p].began = TRUE, ![p].old = c, ![p].wasUp = ctr[c].up]
      PROVE  Effect(p)
  <2>. DEFINE j == [proc[p] EXCEPT !.pc = "stop", !.began = TRUE, !.old = c, !.wasUp = ctr[c].up]
  <2>0. c \in Ctr /\ ctr[c].name = "live" /\ ctr[c].up \in BOOLEAN /\ c # None
    BY TypeParts, CtrParts DEF Holders, Container
  <2>1. /\ j \in JobState /\ j.pc = "stop" /\ j.dep = proc[p].dep /\ j.began = TRUE
        /\ j.old = c /\ j.result = proc[p].result
    BY <1>1, <2>0 DEF JobState, PCs
  <2>2. proc' = [proc EXCEPT ![p] = j]
    BY <1>4, TypeParts
  <2>. HIDE DEF j
  <2>3. /\ Moves(p, "stop") /\ proc'[p].pc = "stop" /\ proc'[p].dep = proc[p].dep /\ proc'[p].began = TRUE
        /\ proc'[p].old = c /\ proc'[p].result = proc[p].result
    BY <2>1, <2>2, TypeParts DEF Moves
  <2>4. JobShape(p)'
    BY <1>1, <2>0, <2>3 DEF JobShape, At, Before1, Over
  <2>5. Flow(p) /\ Proves(p) /\ Chooses(p)
    BY <1>1, <2>0, <2>3 DEF Flow, Proves, Chooses, Get, At, dockerVars, Unborn, Before1, Proven, Over
  <2>6. Tracks(p)
    BY <2>3, Untracked
  <2>. QED
    BY <1>2, <2>3, <2>4, <2>5, <2>6, Counted, JobParts DEF Effect, Get, dockerVars
<1>5. CASE Goto(p, "failed") /\ Trouble /\ UNCHANGED spoiled
  <2>1. Moves(p, proc'[p].pc) /\ JobShape(p)' /\ Chooses(p)
    BY <1>1, <1>5, GoOn DEF At, PCs, Over, Before1, JobShape, JobState
  <2>2. proc'[p].pc = "failed"
    BY <1>5, GotoMoves DEF PCs, Moves
  <2>3. Flow(p) /\ Proves(p)
    BY <1>1, <2>2 DEF Flow, Proves, Get, At, dockerVars, Unborn, Before1, Proven, Over
  <2>4. Tracks(p)
    BY <2>2, Untracked
  <2>. QED
    BY <1>2, <1>5, <2>1, <2>3, <2>4, Counted, JobParts DEF Effect, Get, dockerVars
<1>. QED
  BY <1>3, <1>4, <1>5 DEF Get

\* A call that leaves the names and goes on.
LEMMA Passing ==
  ASSUME TypeOK, Shape, NEW p \in Promoters, NEW pc \in PCs \ Over, Goto(p, pc), Names(p) \/ UNCHANGED ctr,
         UNCHANGED <<passed, discarded, row, beat>>, Fine \/ Trouble, spoiled' \in BOOLEAN,
         proc[p].began, proc[p].pc \notin Over \cup Proven, pc \notin Before1 \cup Proven,
         pc \in {"stop", "rename", "restore", "restart", "emergency"} => proc[p].old # None,
         pc \in Unborn => proc[p].pc \in Unborn
  PROVE  Effect(p)
<1>1. JobShape(p) /\ proc[p].pc # "idle"
  BY JobParts DEF JobShape, Before1
<1>2. Moves(p, proc'[p].pc) /\ JobShape(p)' /\ Chooses(p)
  BY <1>1, GoOn
<1>3. Names(p) /\ Records(p)
  BY NamesKept, RowsKept DEF Names
<1>4. proc'[p].pc = pc
  BY GotoMoves DEF Moves
<1>5. Flow(p) /\ Proves(p)
  BY <1>4 DEF Flow, Proves, Over
<1>6. Tracks(p)
  BY <1>4, Untracked DEF Proven
<1>. QED
  BY <1>2, <1>3, <1>5, <1>6, Counted, JobParts DEF Effect

LEMMA StopOldEffect ==
  ASSUME TypeOK, Shape, NEW p \in Promoters, StopOld(p)
  PROVE  Effect(p)
<1>1. JobShape(p) /\ At(p, "stop") /\ proc[p].old \in Ctr /\ proc[p].began /\ proc[p].old # None
  BY JobParts DEF StopOld, JobShape, At, Before1, Over, JobState
<1>2. Names(p) \/ UNCHANGED ctr
  BY <1>1, Stopping DEF StopOld, Names, NamesSame, Touches
<1>. QED
  BY <1>1, <1>2, Passing, JobParts DEF StopOld, At, PCs, Over, Proven, Before1, Unborn

LEMMA RenameOldEffect ==
  ASSUME TypeOK, Shape, NEW p \in Promoters, RenameOld(p)
  PROVE  Effect(p)
<1>1. JobShape(p) /\ At(p, "rename") /\ proc[p].old \in Ctr /\ proc[p].began /\ proc[p].old # None
  BY JobParts DEF RenameOld, JobShape, At, Before1, Over, JobState
<1>2. Names(p) \/ UNCHANGED ctr
  BY <1>1, Naming DEF RenameOld, Names, Yields, Exists
<1>. QED
  BY <1>1, <1>2, Passing, JobParts DEF RenameOld, At, PCs, Over, Proven, Before1, Unborn

LEMMA CreateEffect ==
  ASSUME TypeOK, Shape, NEW p \in Promoters, Create(p) \/ CreateAgain(p)
  PROVE  Effect(p)
<1>1. /\ JobShape(p) /\ proc[p].pc \in {"create", "again"} /\ proc[p].began
      /\ proc[p].began \in BOOLEAN /\ New(p) \in Ctr
  BY JobParts DEF Create, CreateAgain, JobShape, At, Before1, Over, JobState
<1>2. PICK pc \in {"start", "conflict", "undo"} : Goto(p, pc) /\ (pc = "start" \/ UNCHANGED ctr)
  BY DEF Create, CreateAgain
<1>3. proc'[p].pc = pc
  BY <1>2, GotoMoves DEF PCs, Moves
<1>4. (Holders = {} /\ ctr' = Created(New(p))) \/ UNCHANGED ctr
  BY DEF Create, CreateAgain
<1>5. CASE UNCHANGED ctr
  <2>1. pc \in Unborn => proc[p].pc \in Unborn
    BY <1>1 DEF Unborn
  <2>. QED
    BY <1>1, <1>2, <1>5, <2>1, Passing, JobParts DEF Create, CreateAgain, PCs, Over, Proven, Before1
<1>6. CASE Holders = {} /\ ctr' = Created(New(p)) /\ pc = "start"
  <2>1. Names(p)
    BY <1>1, <1>3, <1>6, Creation DEF Names, Takes, Holders
  <2>. QED
    BY <1>1, <1>2, <1>6, <2>1, Passing, JobParts DEF Create, CreateAgain, PCs, Over, Proven, Before1, Unborn
<1>. QED
  BY <1>2, <1>4, <1>5, <1>6

LEMMA StopHolderEffect ==
  ASSUME TypeOK, Shape, NEW p \in Promoters, StopHolder(p)
  PROVE  Effect(p)
<1>1. JobShape(p) /\ At(p, "conflict") /\ proc[p].began
  BY JobParts DEF StopHolder, JobShape, At, Before1, Over, JobState
<1>2. Names(p) \/ UNCHANGED ctr
  <2>1. CASE UNCHANGED ctr
    BY <2>1
  <2>2. ASSUME NEW c \in Holders, ctr' = Stopped(c) PROVE Names(p)
    BY <2>2, Stopping DEF Names, NamesSame, Touches, Holders
  <2>. QED
    BY <2>1, <2>2 DEF StopHolder
<1>. QED
  BY <1>1, <1>2, Passing, JobParts DEF StopHolder, At, PCs, Over, Proven, Before1, Unborn

LEMMA MoveAsideEffect ==
  ASSUME TypeOK, Shape, NEW p \in Promoters, MoveAside(p)
  PROVE  Effect(p)
<1>1. JobShape(p) /\ At(p, "aside") /\ proc[p].began
  BY JobParts DEF MoveAside, JobShape, At, Before1, Over, JobState
<1>2. Names(p) \/ UNCHANGED ctr
  <2>1. CASE UNCHANGED ctr
    BY <2>1
  <2>2. ASSUME NEW c \in Holders, ctr' = Named(c, "aside") PROVE Names(p)
    <3>1. c \in Ctr /\ ctr[c].name = "live"
      BY DEF Holders
    <3>2. Yields(p, c)
      BY <2>2, <3>1, Naming DEF Yields
    <3>. QED
      BY <3>1, <3>2 DEF Names
  <2>. QED
    BY <2>1, <2>2 DEF MoveAside
<1>3. PICK pc \in {"again", "undo"} : Goto(p, pc)
  BY DEF MoveAside
<1>4. (Fine \/ Trouble) /\ UNCHANGED <<passed, discarded, row, beat, spoiled>>
  BY DEF MoveAside
<1>. QED
  BY <1>1, <1>2, <1>3, <1>4, Passing, JobParts DEF At, PCs, Over, Proven, Before1, Unborn

LEMMA StartNewEffect ==
  ASSUME TypeOK, Shape, NEW p \in Promoters, StartNew(p)
  PROVE  Effect(p)
<1>1. JobShape(p) /\ At(p, "start") /\ proc[p].began /\ New(p) \in Ctr
  BY JobParts DEF StartNew, JobShape, At, Before1, Over, JobState
<1>2. Names(p) \/ UNCHANGED ctr
  BY <1>1, Starting DEF StartNew, Names, NamesSame, Touches
<1>3. PICK pc \in {"wait", "undo"} : Goto(p, pc)
  BY DEF StartNew
<1>4. (Fine \/ Trouble) /\ UNCHANGED <<passed, discarded, row, beat, spoiled>>
  BY DEF StartNew
<1>. QED
  BY <1>1, <1>2, <1>3, <1>4, Passing, JobParts DEF At, PCs, Over, Proven, Before1, Unborn

LEMMA UndoEffect ==
  ASSUME TypeOK, Shape, NEW p \in Promoters, Undo(p)
  PROVE  Effect(p)
<1>1. JobShape(p) /\ At(p, "undo") /\ proc[p].began /\ New(p) \in Ctr
  BY JobParts DEF Undo, JobShape, At, Before1, Over, JobState
<1>2. Names(p) \/ UNCHANGED ctr
  BY <1>1, Removal DEF Undo, Names, Goes, At
<1>3. PICK pc \in {"failed", "restore"} : Goto(p, pc) /\ (pc = "restore" => proc[p].old # None)
  BY DEF Undo
<1>4. (Fine \/ Trouble) /\ UNCHANGED <<passed, discarded, row, beat>> /\ spoiled' \in BOOLEAN
  BY JobParts DEF Undo
<1>. QED
  BY <1>1, <1>2, <1>3, <1>4, Passing DEF At, PCs, Over, Proven, Before1, Unborn

LEMMA RestoreEffect ==
  ASSUME TypeOK, Shape, NEW p \in Promoters, Restore(p)
  PROVE  Effect(p)
<1>1. JobShape(p) /\ At(p, "restore") /\ proc[p].began /\ proc[p].old \in Ctr /\ proc[p].old # None
  BY JobParts DEF Restore, JobShape, At, Before1, Over, JobState
<1>2. Names(p) \/ UNCHANGED ctr
  <2>1. CASE Exists(proc[p].old) /\ Holders \subseteq {proc[p].old} /\ ctr' = Named(proc[p].old, "live")
    <3>1. \A d \in Ctr \ {proc[p].old} : ctr[d].name # "live"
      BY <2>1 DEF Holders
    <3>2. Takes(p, proc[p].old)
      BY <1>1, <2>1, <3>1, Naming DEF Takes, Exists
    <3>. QED
      BY <1>1, <3>2 DEF Names
  <2>. QED
    BY <2>1 DEF Restore
<1>3. PICK pc \in {"emergency", "restart", "failed"} : Goto(p, pc)
  BY DEF Restore
<1>4. (Fine \/ Trouble) /\ UNCHANGED <<passed, discarded, row, beat>> /\ spoiled' \in BOOLEAN
  BY JobParts DEF Restore
<1>. QED
  BY <1>1, <1>2, <1>3, <1>4, Passing DEF At, PCs, Over, Proven, Before1, Unborn

LEMMA RestartEffect ==
  ASSUME TypeOK, Shape, NEW p \in Promoters, Restart(p)
  PROVE  Effect(p)
<1>1. JobShape(p) /\ At(p, "restart") /\ proc[p].began /\ proc[p].old \in Ctr /\ proc[p].old # None
  BY JobParts DEF Restart, JobShape, At, Before1, Over, JobState
<1>2. Names(p) \/ UNCHANGED ctr
  BY <1>1, Starting DEF Restart, Names, NamesSame, Touches
<1>3. (Fine \/ Trouble) /\ UNCHANGED <<passed, discarded, row, beat>> /\ spoiled' \in BOOLEAN
  BY JobParts DEF Restart
<1>. QED
  BY <1>1, <1>2, <1>3, Passing DEF Restart, At, PCs, Over, Proven, Before1, Unborn

LEMMA RecreateEffect ==
  ASSUME TypeOK, Shape, NEW p \in Promoters, Recreate(p)
  PROVE  Effect(p)
<1>1. JobShape(p) /\ At(p, "emergency") /\ proc[p].began /\ Emergency(p) \in Ctr
  BY JobParts DEF Recreate, JobShape, At, Before1, Over, JobState
<1>2. Names(p) \/ UNCHANGED ctr
  <2>1. CASE Holders = {} /\ ctr' = [Created(Emergency(p)) EXCEPT ![Emergency(p)].up = TRUE] /\ spoiled'
    <3>1. Takes(p, Emergency(p))
      BY <1>1, <2>1, EmergencyCreation DEF Takes, Holders
    <3>. QED
      BY <1>1, <3>1 DEF Names
  <2>. QED
    BY <2>1 DEF Recreate
<1>3. (Fine \/ Trouble) /\ UNCHANGED <<passed, discarded, row, beat>> /\ spoiled' \in BOOLEAN
  BY JobParts DEF Recreate
<1>. QED
  BY <1>1, <1>2, <1>3, Passing DEF Recreate, At, PCs, Over, Proven, Before1, Unborn

\* A call of a promotion whose container has passed, or has just done so.
LEMMA PassingProven ==
  ASSUME TypeOK, Shape, NEW p \in Promoters, NEW pc \in {"drop_green", "drop_old", "record", "mark"}, Goto(p, pc),
         pc = "mark" => proc[p].kind # "deploy",
         Names(p) \/ UNCHANGED ctr, Fine \/ Trouble, UNCHANGED <<discarded, row, beat, spoiled>>,
         proc[p].pc \in {"wait", "drop_green", "drop_old"},
         \/ UNCHANGED passed /\ proc[p].pc # "wait"
         \/ /\ proc[p].pc = "wait" /\ pc = "drop_green" /\ Exists(New(p))
            /\ passed' = passed \cup {New(p)} /\ UNCHANGED ctr
  PROVE  Effect(p)
<1>1. JobShape(p) /\ proc[p].began /\ spoiled \in BOOLEAN
  BY JobParts DEF JobShape, Before1, Over, JobState
<1>2. Moves(p, proc'[p].pc) /\ JobShape(p)' /\ Chooses(p)
  BY <1>1, GoOn DEF PCs, Over, Before1
<1>3. Names(p) /\ Records(p)
  BY NamesKept, RowsKept DEF Names
<1>4. proc'[p].pc = pc
  BY GotoMoves DEF Moves, PCs
<1>5. Flow(p) /\ Proves(p)
  BY <1>4 DEF Flow, Proves, Over, Proven, Unborn, Before1
<1>6. Tracks(p)
  BY <1>4, GotoMoves DEF Tracks, Tracked, At, PCs
<1>. QED
  BY <1>1, <1>2, <1>3, <1>5, <1>6, Counted, JobParts DEF Effect

LEMMA WaitEffect ==
  ASSUME TypeOK, Shape, NEW p \in Promoters, Wait(p)
  PROVE  Effect(p)
<1>1. JobShape(p) /\ At(p, "wait") /\ proc[p].began /\ spoiled \in BOOLEAN
  BY JobParts DEF Wait, JobShape, At, Before1, Over, JobState
<1>2. CASE Exists(New(p)) /\ passed' = passed \cup {New(p)} /\ Goto(p, "drop_green")
  BY <1>1, <1>2, PassingProven DEF Wait, At
<1>3. CASE Goto(p, "undo") /\ UNCHANGED passed
  BY <1>1, <1>3, Passing DEF Wait, At, PCs, Over, Proven, Before1, Unborn
<1>. QED
  BY <1>2, <1>3 DEF Wait

LEMMA DropGreenEffect ==
  ASSUME TypeOK, Shape, NEW p \in Promoters, DropGreen(p)
  PROVE  Effect(p)
<1>1. At(p, "drop_green") /\ Green(proc[p].dep) \in Ctr
  BY JobParts DEF DropGreen, At
<1>2. Names(p) \/ UNCHANGED ctr
  BY <1>1, Removal DEF DropGreen, Names, Goes, At
<1>. QED
  BY <1>1, <1>2, PassingProven DEF DropGreen, At

LEMMA DropOldEffect ==
  ASSUME TypeOK, Shape, NEW p \in Promoters, DropOld(p)
  PROVE  Effect(p)
<1>1. At(p, "drop_old") /\ (proc[p].old # None => proc[p].old \in Ctr)
  BY JobParts DEF DropOld, At
<1>2. Names(p) \/ UNCHANGED ctr
  BY <1>1, Removal DEF DropOld, Names, Goes, At
<1>3. PICK pc \in {"record", "mark"} : Goto(p, pc) /\ (pc = "mark" => proc[p].kind # "deploy")
  BY DEF DropOld
<1>4. (Fine \/ Trouble) /\ UNCHANGED <<passed, discarded, row, beat, spoiled>>
  BY DEF DropOld
<1>. QED
  BY <1>1, <1>2, <1>3, <1>4, PassingProven DEF At

\* A promotion that is over.
LEMMA Finishing ==
  ASSUME TypeOK, Shape, NEW p \in Promoters, NEW pc \in Over, NEW r \in {"promoted", "failed", "withdrawn", "abandoned"},
         Finish(p, pc, r), UNCHANGED dockerVars, UNCHANGED beat, Records(p), spoiled' \in BOOLEAN,
         mishaps' \in 0..MaxMishaps, proc[p].pc \notin {"idle"} \cup Over,
         pc = "end" => proc[p].pc \in {"mark", "discard", "failed"}
  PROVE  Effect(p)
<1>1. JobShape(p) /\ proc[p] \in JobState
  BY JobParts
<1>2. /\ Moves(p, pc) /\ proc'[p].pc = pc /\ proc'[p].dep = proc[p].dep /\ proc'[p].began = proc[p].began
      /\ proc'[p].old = None /\ proc'[p].result = r
  BY FinishMoves DEF Over, PCs, Moves
<1>3. JobShape(p)'
  BY <1>1, <1>2 DEF JobShape, Over, Before1
<1>4. Names(p)
  BY NamesKept DEF Names, dockerVars
<1>5. Flow(p) /\ Proves(p) /\ Chooses(p)
  BY <1>1, <1>2 DEF Flow, Proves, Chooses, Over, Unborn, Before1, Proven, dockerVars
<1>6. Tracks(p)
  BY <1>2, Untracked DEF Over
<1>. QED
  BY <1>2, <1>3, <1>4, <1>5, <1>6, JobParts DEF Effect, dockerVars

LEMMA RecordEffect ==
  ASSUME TypeOK, Shape, NEW p \in Promoters, Record(p)
  PROVE  Effect(p)
<1>. DEFINE d == proc[p].dep
<1>1. /\ JobShape(p) /\ At(p, "record") /\ proc[p] \in JobState /\ proc[p].began /\ spoiled \in BOOLEAN
      /\ New(p) \in Ctr /\ d \in Deps
  BY JobParts DEF Record, JobShape, At, Before1, Over, JobState
<1>2. PICK live \in {New(p)} \cup (IF Exists(New(p)) THEN {} ELSE Holders) :
        row' = [row EXCEPT ![d].st = "HEALTH_CHECK", ![d].green = live]
  BY DEF Record
<1>3. live \in Ctr /\ (live = New(p) \/ Exists(live))
  BY <1>1, <1>2 DEF Holders, Exists
<1>. DEFINE r == [row[d] EXCEPT !.st = "HEALTH_CHECK", !.green = live]
<1>4. row \in [Deps \cup {Prev} -> RowState] /\ row[d] \in RowState
  BY <1>1, TypeParts
<1>5. r \in RowState /\ r.st = "HEALTH_CHECK" /\ r.green = live /\ r.cid = row[d].cid
  BY <1>3, <1>4 DEF RowState, Status
<1>6. row' = [row EXCEPT ![d] = r]
  BY <1>2, <1>4
<1>. HIDE DEF r
<1>7. /\ row' \in [Deps \cup {Prev} -> RowState] /\ row'[d] = r
      /\ \A e \in (Deps \cup {Prev}) \ {d} : row'[e] = row[e]
  BY <1>1, <1>4, <1>5, <1>6
<1>8. Records(p)
  <2>1. ASSUME NEW e \in DOMAIN row
        PROVE  /\ row'[e].st = "STAGED" => row'[e] = row[e]
               /\ \/ row'[e].green = row[e].green
                  \/ /\ proc[p].pc = "record" /\ row'[e].green \in Ctr
                     /\ row'[e].green = New(p) \/ Exists(row'[e].green)
               /\ row'[e].cid = row[e].cid
               /\ row'[e].st = "HEALTH_CHECK" => row[e].st = "HEALTH_CHECK" \/ row'[e].green \in Ctr
    <3>1. e \in Deps \cup {Prev}
      BY <1>4
    <3>2. CASE e = d
      BY <1>1, <1>3, <1>5, <1>7, <3>2 DEF At
    <3>3. CASE e # d
      BY <1>7, <3>1, <3>3
    <3>. QED
      BY <3>2, <3>3
  <2>. QED
    BY <1>7, <2>1 DEF Records
<1>9. Moves(p, proc'[p].pc) /\ JobShape(p)' /\ Chooses(p)
  BY <1>1, GoOn DEF Record, PCs, Over, Before1, At
<1>10. proc'[p].pc = "mark" /\ proc'[p].dep = d
  BY GotoMoves DEF Record, Moves, PCs
<1>11. Flow(p) /\ Proves(p)
  BY <1>1, <1>10 DEF Flow, Proves, Over, Proven, Unborn, Before1, Record, At, dockerVars
<1>12. Tracks(p)
  BY <1>3, <1>5, <1>7, <1>10 DEF Tracks
<1>13. Names(p)
  BY NamesKept DEF Names, Record, dockerVars
<1>. QED
  BY <1>1, <1>8, <1>9, <1>11, <1>12, <1>13, Counted, JobParts DEF Effect, Record, dockerVars

\* The status of one row is written.
LEMMA StatusWritten ==
  ASSUME TypeOK, NEW d, NEW st \in Status \ {"STAGED", "HEALTH_CHECK"}, row' = [row EXCEPT ![d].st = st]
  PROVE  /\ row' \in [Deps \cup {Prev} -> RowState] /\ DOMAIN row' = DOMAIN row
         /\ \A e \in DOMAIN row : /\ row'[e].green = row[e].green /\ row'[e].cid = row[e].cid
                                  /\ row'[e].st \in {row[e].st, st}
                                  /\ row'[e].st \in {"STAGED", "HEALTH_CHECK"} => row'[e] = row[e]
<1>1. row \in [Deps \cup {Prev} -> RowState]
  BY TypeParts
<1>2. row' \in [Deps \cup {Prev} -> RowState]
  BY <1>1 DEF RowState
<1>3. ASSUME NEW e \in DOMAIN row
      PROVE  /\ row'[e].green = row[e].green /\ row'[e].cid = row[e].cid
             /\ row'[e].st \in {row[e].st, st}
             /\ row'[e].st \in {"STAGED", "HEALTH_CHECK"} => row'[e] = row[e]
  BY <1>1 DEF RowState
<1>. QED
  BY <1>1, <1>2, <1>3

LEMMA RecordsStatus ==
  ASSUME TypeOK, NEW p, NEW d, NEW st \in Status \ {"STAGED", "HEALTH_CHECK"}, row' = [row EXCEPT ![d].st = st]
  PROVE  Records(p)
  BY StatusWritten DEF Records

LEMMA ChecksFailEffect ==
  ASSUME TypeOK, Shape, NEW p \in Promoters, ChecksFail(p)
  PROVE  Effect(p)
<1>1. JobShape(p) /\ At(p, "mark") /\ proc[p] \in JobState /\ proc[p].began /\ spoiled \in BOOLEAN
  BY JobParts DEF ChecksFail, JobShape, At, Before1, Over, JobState
<1>2. CASE row' = [row EXCEPT ![proc[p].dep].st = "FAILED"] /\ Goto(p, "discard")
  <2>1. Records(p)
    BY <1>2, RecordsStatus DEF Status
  <2>2. Moves(p, proc'[p].pc) /\ JobShape(p)' /\ Chooses(p)
    BY <1>1, <1>2, GoOn DEF PCs, Over, Before1, At
  <2>3. proc'[p].pc = "discard" /\ proc'[p].dep = proc[p].dep
    BY <1>2, GotoMoves DEF Moves, PCs
  <2>4. Flow(p) /\ Proves(p)
    BY <1>1, <2>3 DEF Flow, Proves, Over, Proven, Unborn, Before1, ChecksFail, At, dockerVars
  <2>5. Tracks(p)
    BY <1>1, <2>3 DEF Tracks, Tracked, ChecksFail
  <2>6. Names(p)
    BY NamesKept DEF Names, ChecksFail, dockerVars
  <2>. QED
    BY <1>1, <2>1, <2>2, <2>4, <2>5, <2>6, Counted, JobParts DEF Effect, ChecksFail, dockerVars
<1>3. CASE Finish(p, "end", "failed") /\ UNCHANGED row
  BY <1>1, <1>3, RowsKept, Finishing, Counted DEF ChecksFail, At, Over
<1>. QED
  BY <1>2, <1>3 DEF ChecksFail

LEMMA DiscardEffect ==
  ASSUME TypeOK, Shape, NEW p \in Promoters, Discard(p)
  PROVE  Effect(p)
<1>. DEFINE live == row[proc[p].dep].green
<1>1. /\ JobShape(p) /\ At(p, "discard") /\ proc[p] \in JobState /\ live \in Ctr
      /\ spoiled \in BOOLEAN /\ discarded \in BOOLEAN
  BY JobParts DEF Discard, Shape, Tracing, Tracked
<1>2. /\ Moves(p, "end") /\ proc'[p].pc = "end" /\ proc'[p].dep = proc[p].dep /\ proc'[p].began = proc[p].began
      /\ proc'[p].old = None /\ proc'[p].result = "withdrawn"
  BY FinishMoves DEF Discard, PCs, Moves
<1>. HIDE DEF live
<1>3. JobShape(p)'
  BY <1>1, <1>2 DEF JobShape, Over, Before1, At
<1>4. /\ \/ ctr' = Removed(live) /\ discarded' = (discarded \/ live \in passed)
         \/ UNCHANGED <<ctr, discarded>>
      /\ spoiled' \in BOOLEAN /\ (Fine \/ Trouble) /\ UNCHANGED <<passed, row, beat>>
  BY <1>1 DEF Discard, live
<1>5. Names(p)
  <2>1. CASE ctr' = Removed(live) /\ discarded' = (discarded \/ live \in passed)
    <3>1. Goes(p, live)
      BY <1>1, <2>1, Removal DEF Goes, At
    <3>. QED
      BY <1>1, <3>1 DEF Names
  <2>2. CASE UNCHANGED ctr
    BY <2>2, NamesKept DEF Names
  <2>. QED
    BY <1>4, <2>1, <2>2
<1>6. Flow(p) /\ Proves(p) /\ Chooses(p)
  BY <1>1, <1>2, <1>4 DEF Flow, Proves, Chooses, Over, Unborn, Before1, Proven, At
<1>7. Tracks(p) /\ Records(p)
  BY <1>2, <1>4, Untracked, RowsKept
<1>8. (~discarded' => ~discarded) /\ discarded' \in BOOLEAN
  <2>1. (discarded \/ live \in passed) \in BOOLEAN
    BY Zenon
  <2>2. CASE discarded' = (discarded \/ live \in passed)
    BY <2>1, <2>2, Zenon
  <2>3. CASE UNCHANGED discarded
    BY <1>1, <2>3
  <2>. QED
    BY <1>4, <2>2, <2>3
<1>. QED
  BY <1>1, <1>2, <1>3, <1>4, <1>5, <1>6, <1>7, <1>8, Counted DEF Effect

LEMMA MarkEffect ==
  ASSUME TypeOK, Shape, NEW p \in Promoters, Mark(p)
  PROVE  Effect(p)
<1>1. At(p, "mark") /\ proc[p] \in JobState /\ spoiled \in BOOLEAN /\ proc'[p].pc = "end" /\ New(p) \in Ctr
  BY JobParts, FinishMoves DEF Mark, PCs, Moves
<1>2. row \in [Deps \cup {Prev} -> RowState]
  BY TypeParts
<1>3. ASSUME NEW d \in Deps \cup {Prev}
      PROVE  /\ row'[d] \in RowState
             /\ row'[d].st = "STAGED" => row'[d] = row[d]
             /\ row'[d].green = row[d].green /\ row'[d].cid \in {row[d].cid, New(p), row[d].green}
             /\ row'[d].st = "HEALTH_CHECK" => row[d].st = "HEALTH_CHECK"
  <2>1. CASE d = proc[p].dep /\ proc[p].kind = "deploy"
    <3>. DEFINE live == row[d].green
    <3>1. row'[d] = Row("ACTIVE", live)
      BY <1>2, <2>1 DEF Mark
    <3>2. live \in Ctr \cup {None}
      BY <1>2 DEF RowState
    <3>. HIDE DEF live
    <3>3. /\ Row("ACTIVE", live) \in RowState /\ Row("ACTIVE", live).st = "ACTIVE"
          /\ Row("ACTIVE", live).green = live /\ Row("ACTIVE", live).cid = live
      BY <3>2 DEF Row, RowState, Status
    <3>. QED
      BY <3>1, <3>3 DEF live
  <2>2. CASE d = proc[p].dep /\ proc[p].kind # "deploy"
    BY <1>1, <1>2, <2>2 DEF Mark, RowState, Status
  <2>3. CASE d # proc[p].dep
    BY <1>1, <1>2, <2>3 DEF Mark, RowState, Status
  <2>. QED
    BY <2>1, <2>2, <2>3
<1>4. Records(p)
  <2>1. row' \in [Deps \cup {Prev} -> RowState]
    <3>1. DOMAIN row = Deps \cup {Prev}
      BY <1>2
    <3>. DEFINE f(d) == row'[d]
    <3>2. row' = [d \in Deps \cup {Prev} |-> f(d)]
      BY <3>1 DEF Mark
    <3>3. \A d \in Deps \cup {Prev} : f(d) \in RowState
      BY <1>3
    <3>. HIDE DEF f
    <3>. QED
      BY <3>2, <3>3
  <2>. QED
    BY <1>1, <1>2, <1>3, <2>1 DEF Records, At
<1>. QED
  BY <1>1, <1>4, Finishing, Counted DEF Mark, At, Over

LEMMA FailEffect ==
  ASSUME TypeOK, Shape, NEW p \in Promoters, Fail(p)
  PROVE  Effect(p)
<1>1. At(p, "failed") /\ proc[p] \in JobState /\ spoiled \in BOOLEAN
  BY JobParts DEF Fail
<1>3. CASE row' = [row EXCEPT ![proc[p].dep].st = "FAILED"]
  <2>1. Records(p)
    BY <1>3, RecordsStatus DEF Status
  <2>. QED
    BY <1>1, <2>1, Finishing, Counted DEF Fail, At, Over
<1>4. CASE UNCHANGED row
  BY <1>1, <1>4, RowsKept, Finishing, Counted DEF Fail, At, Over
<1>. QED
  BY <1>3, <1>4 DEF Fail

LEMMA CrashEffect ==
  ASSUME TypeOK, Shape, NEW p \in Promoters, Crash(p)
  PROVE  Effect(p)
<1>1. spoiled \in BOOLEAN
  BY JobParts
<1>. QED
  BY <1>1, RowsKept, Finishing, MishapType DEF Crash, Over

LEMMA PromoterEffect ==
  ASSUME TypeOK, Shape, NEW p \in Promoters,
         Promotion(p) \/ Crash(p) \/ \E d \in Deps, k \in {"staged", "deploy"} : Start(p, d, k)
  PROVE  Effect(p)
  BY StartEffect, CheckEffect, GetEffect, StopOldEffect, RenameOldEffect, CreateEffect, StopHolderEffect,
     MoveAsideEffect, StartNewEffect, WaitEffect, DropGreenEffect, DropOldEffect, RecordEffect, ChecksFailEffect,
     DiscardEffect, MarkEffect, UndoEffect,
     RestoreEffect, RestartEffect, RecreateEffect, FailEffect, CrashEffect
  DEF Promotion

---------------------------------------------------------------------------
(* What a step of somebody else does *)

Vanishes(c) ==
  /\ Touches(c) /\ ctr'[c].name = "" /\ beat.ctr = c
  /\ discarded' = (discarded \/ c \in passed) /\ (spoiled' \/ c[1] = "green")

AsideEffect ==
  /\ UNCHANGED <<proc, passed>>
  /\ UNCHANGED row \/ CancelPrior
  /\ \/ NamesSame /\ UNCHANGED discarded
     \/ \E c \in Ctr : Vanishes(c)
  /\ beat' \in BeatState /\ (beat'.pc = "cancel" => beat'.dep \in Deps)
  /\ \/ beat'.ctr \in {beat.ctr, OldCtr} \/ Exists(beat'.ctr)
     \/ \E d \in DOMAIN row : beat'.ctr = row[d].green
  /\ spoiled' \in BOOLEAN /\ mishaps' \in 0..MaxMishaps

Aside ==
  \/ \E d \in Deps : Sick(d) \/ Supersede(d)
  \/ \E c \in Ctr : ReapLive(c) \/ SweepRefs(c)
  \/ ReapRows \/ ReapStop \/ SweepList \/ SweepRemove \/ CancelPrior \/ RemovePrior

LEMMA NoBeatType == NoBeat \in BeatState /\ NoBeat.ctr = OldCtr /\ NoBeat.pc = "idle"
  BY CtrParts DEF NoBeat, BeatState

LEMMA AsideSteps == TypeOK /\ Shape /\ Aside => AsideEffect
<1>. SUFFICES ASSUME TypeOK, Shape, Aside PROVE AsideEffect
  OBVIOUS
<1>0. beat \in BeatState /\ beat.ctr \in Ctr /\ spoiled \in BOOLEAN /\ discarded \in BOOLEAN
      /\ (beat.pc = "cancel" => beat.dep \in Deps)
  BY TypeParts DEF BeatState, TypeOK, Shape, Tracing
<1>1. ASSUME NEW d \in Deps, Sick(d) PROVE AsideEffect
  <2>1. NamesSame
    BY <1>1, TypeParts DEF Sick, NamesSame, Container
  <2>. QED
    BY <1>0, <1>1, <2>1, MishapType DEF Sick, AsideEffect
<1>2. ASSUME NEW c \in Ctr, NEW pc \in {"rows", "list", "list_referred"}, beat' = [NoBeat EXCEPT !.pc = pc, !.ctr = c]
      PROVE  beat' \in BeatState /\ beat'.ctr = c /\ beat'.pc = pc
  BY <1>2 DEF BeatState, NoBeat
<1>3. ASSUME NEW c \in Ctr, ReapLive(c) \/ SweepRefs(c) PROVE AsideEffect
  <2>1. PICK pc \in {"rows", "list", "list_referred"} : beat' = [NoBeat EXCEPT !.pc = pc, !.ctr = c]
    BY <1>3 DEF ReapLive, SweepRefs
  <2>2. beat' \in BeatState /\ beat'.ctr = c /\ beat'.pc = pc
    BY <1>2, <2>1
  <2>3. NamesSame
    BY <1>3, NamesKept DEF ReapLive, SweepRefs, dockerVars
  <2>. QED
    BY <1>0, <1>3, <2>2, <2>3, MishapType DEF ReapLive, SweepRefs, AsideEffect, dockerVars
<1>4. CASE ReapRows \/ SweepList
  <2>1. beat' \in BeatState /\ beat'.ctr \in {beat.ctr, OldCtr} /\ beat'.pc # "cancel"
    <3>1. beat' = NoBeat \/ \E pc \in {"stop", "stop_sick", "remove"} : beat' = [beat EXCEPT !.pc = pc]
      BY <1>4 DEF ReapRows, SweepList
    <3>. QED
      BY <1>0, <3>1, NoBeatType DEF BeatState
  <2>2. NamesSame
    BY <1>4, NamesKept DEF ReapRows, SweepList, dockerVars
  <2>. QED
    BY <1>0, <1>4, <2>1, <2>2, Counted DEF ReapRows, SweepList, AsideEffect, dockerVars
<1>5. CASE ReapStop
  <2>1. ctr' = Stopped(beat.ctr) \/ UNCHANGED ctr
    BY <1>5 DEF ReapStop
  <2>2. NamesSame
    BY <1>0, <2>1, NamesKept, Stopping DEF NamesSame, Touches
  <2>. QED
    BY <1>0, <1>5, <2>2, NoBeatType, Counted DEF ReapStop, AsideEffect
<1>6. CASE SweepRemove
  <2>1. Vanishes(beat.ctr)
    BY <1>0, <1>6, Removal DEF SweepRemove, Vanishes
  <2>. QED
    BY <1>0, <1>6, <2>1, NoBeatType, Counted DEF SweepRemove, AsideEffect
<1>7. ASSUME NEW d \in Deps, Supersede(d) PROVE AsideEffect
  <2>1. d \in DOMAIN row /\ row[d].green \in Ctr /\ Green(d) \in Ctr
    BY <1>7, TypeParts, CtrParts DEF Supersede, Shape, Staged, Tracing
  <2>. DEFINE g == row[d].green
              b == [pc |-> "cancel", ctr |-> g, dep |-> d]
  <2>2. beat' = b
    BY <1>7 DEF Supersede
  <2>. HIDE DEF g
  <2>3. b \in BeatState /\ b.ctr = g /\ b.dep = d
    BY <2>1 DEF BeatState, g
  <2>. HIDE DEF b
  <2>4. beat'.ctr = row[d].green
    BY <2>2, <2>3 DEF g
  <2>5. NamesSame
    BY <1>7, NamesKept DEF Supersede, dockerVars
  <2>. QED
    BY <1>0, <1>7, <2>1, <2>2, <2>3, <2>4, <2>5, MishapType DEF Supersede, AsideEffect, dockerVars
<1>8. CASE CancelPrior
  <2>1. beat' \in BeatState /\ beat'.ctr = beat.ctr /\ beat'.pc = "remove_prior"
    BY <1>0, <1>8 DEF CancelPrior, BeatState
  <2>2. NamesSame
    BY <1>8, NamesKept DEF CancelPrior, dockerVars
  <2>3. UNCHANGED <<proc, passed, discarded>> /\ spoiled' \in BOOLEAN /\ mishaps' \in 0..MaxMishaps
    BY <1>0, <1>8, Counted DEF CancelPrior, dockerVars
  <2>. QED
    BY <1>8, <2>1, <2>2, <2>3 DEF AsideEffect
<1>9. CASE RemovePrior
  <2>1. CASE /\ ctr' = Removed(beat.ctr) /\ Fine /\ discarded' = (discarded \/ beat.ctr \in passed)
             /\ spoiled' = (spoiled \/ beat.ctr[1] # "green")
    <3>1. Vanishes(beat.ctr)
      BY <1>0, <2>1, Removal DEF Vanishes
    <3>. QED
      BY <1>0, <1>9, <2>1, <3>1, NoBeatType, Counted DEF RemovePrior, AsideEffect
  <2>2. CASE Trouble /\ UNCHANGED <<ctr, discarded, spoiled>>
    BY <1>0, <1>9, <2>2, NamesKept, NoBeatType, Counted DEF RemovePrior, AsideEffect
  <2>. QED
    BY <1>9, <2>1, <2>2 DEF RemovePrior
<1>. QED
  BY <1>1, <1>3, <1>4, <1>5, <1>6, <1>7, <1>8, <1>9 DEF Aside

\* Rows change in nothing but the status of one, which is cancelled.
LEMMA AsideRows ==
  ASSUME TypeOK, AsideEffect
  PROVE  /\ row' \in [Deps \cup {Prev} -> RowState] /\ DOMAIN row' = DOMAIN row
         /\ \A d \in DOMAIN row : /\ row'[d].green = row[d].green /\ row'[d].cid = row[d].cid
                                  /\ row'[d].st \in {row[d].st, "CANCELLED"}
                                  /\ row'[d].st \in {"STAGED", "HEALTH_CHECK"} => row'[d] = row[d]
<1>1. CASE UNCHANGED row
  BY <1>1, TypeParts
<1>2. CASE CancelPrior
  BY <1>2, StatusWritten DEF CancelPrior, Status
<1>. QED
  BY <1>1, <1>2 DEF AsideEffect

LEMMA NextParts ==
  [Next]_vars =>
    \/ \E p \in Promoters : Promotion(p) \/ Crash(p) \/ \E d \in Deps, k \in {"staged", "deploy"} : Start(p, d, k)
    \/ Aside
    \/ UNCHANGED vars
  BY DEF Next, Aside

LEMMA TypeStep == TypeOK /\ Shape /\ [Next]_vars => TypeOK'
<1>. SUFFICES ASSUME TypeOK, Shape, [Next]_vars PROVE TypeOK'
  OBVIOUS
<1>0. discarded \in BOOLEAN
  BY DEF TypeOK
<1>1. ASSUME NEW p \in Promoters, Effect(p) PROVE TypeOK'
  <2>1. ctr' \in [Ctr -> Container]
    BY <1>1 DEF Effect, Names, NamesSame, Takes, Yields, Goes, Touches
  <2>2. proc' \in [Promoters -> JobState] /\ row' \in [Deps \cup {Prev} -> RowState] /\ passed' \subseteq Ctr
    BY <1>1, TypeParts, CtrParts DEF Effect, Moves, Records, Proves
  <2>. QED
    BY <1>0, <1>1, <2>1, <2>2, TypeParts DEF TypeOK, Effect, Container, JobState, RowState, BeatState
<1>2. CASE AsideEffect
  <2>1. ctr' \in [Ctr -> Container] /\ discarded' \in BOOLEAN
    BY <1>0, <1>2 DEF AsideEffect, NamesSame, Vanishes, Touches
  <2>2. row' \in [Deps \cup {Prev} -> RowState] /\ UNCHANGED <<proc, passed>>
    BY <1>2, AsideRows DEF AsideEffect
  <2>. QED
    BY <1>2, <2>1, <2>2, TypeParts DEF TypeOK, AsideEffect, Container, JobState, RowState, BeatState
<1>3. CASE UNCHANGED vars
  BY <1>3 DEF TypeOK, vars
<1>. QED
  BY <1>1, <1>2, <1>3, NextParts, PromoterEffect, AsideSteps

---------------------------------------------------------------------------
(* The shape is kept *)

\* A container that appears is the new one of a promotion that creates it, or an emergency one.
LEMMA Appears ==
  ASSUME TypeOK, NEW p \in Promoters, Names(p), NEW c \in Ctr, ctr'[c].name # ""
  PROVE  \/ ctr[c].name # ""
         \/ c = New(p) /\ proc[p].pc \in {"create", "again"} /\ proc'[p].pc = "start"
         \/ c = Emergency(p)
  BY DEF Names, NamesSame, Takes, Yields, Goes, Touches

LEMMA BirthStep ==
  ASSUME TypeOK, Shape, NEW p \in Promoters, Effect(p), NEW q \in Promoters
  PROVE  Birth(q)'
<1>0. /\ Birth(q) /\ proc'[p] \in JobState /\ (q # p => proc'[q] = proc[q]) /\ New(q) \in Ctr
      /\ DOMAIN row = Deps \cup {Prev} /\ DOMAIN row' = Deps \cup {Prev} /\ beat' = beat
  BY TypeParts, CtrParts DEF Shape, Effect, Moves, Records
<1>1. proc'[q].pc \in Unborn => proc[q].pc \in Unborn
  BY <1>0 DEF Effect, Flow
<1>2. ASSUME proc'[q].pc \in Unborn
      PROVE  /\ ~Exists(New(q))' /\ beat'.ctr # New(q)
             /\ \A r \in Promoters : proc'[r].old # New(q)
             /\ \A d \in DOMAIN row' : row'[d].green # New(q) /\ row'[d].cid # New(q)
  <2>0. \A d \in DOMAIN row : row[d].green # New(q) /\ row[d].cid # New(q)
    BY <1>0, <1>1, <1>2 DEF Birth
  <2>1. ~Exists(New(q)) /\ beat.ctr # New(q) /\ \A r \in Promoters : proc[r].old # New(q)
    BY <1>0, <1>1, <1>2 DEF Birth
  <2>2. ctr'[New(q)].name = ""
    <3>1. New(q) = New(p) => q = p
      BY CtrParts
    <3>2. "start" \notin Unborn
      BY DEF Unborn, Before1
    <3>. QED
      BY <1>0, <1>2, <2>1, <3>1, <3>2, Appears, CtrParts DEF Effect, Exists
  <2>3. ASSUME NEW r \in Promoters PROVE proc'[r].old # New(q)
    BY <1>0, <2>1, CtrParts DEF Effect, Moves, Chooses, Exists
  <2>4. ASSUME NEW d \in DOMAIN row' PROVE row'[d].green # New(q) /\ row'[d].cid # New(q)
    <3>1. d \in DOMAIN row /\ row[d].green # New(q) /\ row[d].cid # New(q)
      BY <1>0, <2>0
    <3>2. proc[p].pc \in {"record", "mark"} => New(p) # New(q)
      <4>1. New(q) = New(p) => q = p
        BY CtrParts
      <4>. QED
        BY <1>1, <1>2, <4>1 DEF Unborn, Before1
    <3>. QED
      BY <2>1, <3>1, <3>2 DEF Effect, Records
  <2>. QED
    BY <1>0, <2>1, <2>2, <2>3, <2>4 DEF Exists
<1>3. proc'[q].pc \in Proven => New(q) \in passed'
  <2>1. CASE q = p
    BY <1>0, <2>1 DEF Effect, Proves, Birth
  <2>2. CASE q # p
    BY <1>0, <2>2 DEF Effect, Proves, Birth
  <2>. QED
    BY <2>1, <2>2
<1>4. proc'[q].pc \notin Proven \cup Over => New(q) \notin passed'
  <2>1. CASE q = p
    <3>1. proc'[p].pc \notin Proven \cup Over => proc[p].pc \notin Proven \cup Over
      BY DEF Effect, Flow
    <3>. QED
      BY <1>0, <2>1, <3>1 DEF Effect, Proves, Birth, Proven
  <2>2. CASE q # p
    BY <1>0, <2>2, CtrParts DEF Effect, Proves, Birth
  <2>. QED
    BY <2>1, <2>2
<1>. QED
  BY <1>2, <1>3, <1>4 DEF Birth

LEMMA TracingStep ==
  ASSUME TypeOK, Shape, NEW p \in Promoters, Effect(p)
  PROVE  Tracing'
<1>0. /\ Tracing /\ DOMAIN row' = DOMAIN row /\ DOMAIN row = Deps \cup {Prev} /\ beat' = beat
      /\ \A q \in Promoters \ {p} : proc'[q] = proc[q]
  BY TypeParts DEF Shape, Effect, Moves, Records
<1>1. ASSUME NEW d \in DOMAIN row, row[d].green \in Ctr PROVE row'[d].green \in Ctr
  BY <1>1 DEF Effect, Records
<1>2. ASSUME NEW d \in DOMAIN row', row'[d].st = "HEALTH_CHECK" PROVE row'[d].green \in Ctr
  <2>1. row[d].st = "HEALTH_CHECK" \/ row'[d].green \in Ctr
    BY <1>0, <1>2 DEF Effect, Records
  <2>. QED
    BY <1>0, <1>1, <2>1 DEF Tracing
<1>3. ASSUME NEW q \in Promoters, Tracked(q) PROVE proc[q].dep \in DOMAIN row
  BY <1>0, <1>3 DEF Shape, JobShape, Tracked, At
<1>4. ASSUME NEW q \in Promoters, Tracked(q)' PROVE row'[proc'[q].dep].green \in Ctr
  <2>1. CASE q = p
    BY <1>0, <1>1, <1>3, <1>4, <2>1 DEF Effect, Tracks, Tracing
  <2>2. CASE q # p
    <3>1. proc'[q] = proc[q] /\ Tracked(q)
      BY <1>0, <1>4, <2>2 DEF Tracked, At
    <3>. QED
      BY <1>0, <1>1, <1>3, <3>1 DEF Tracing
  <2>. QED
    BY <2>1, <2>2
<1>. QED
  BY <1>0, <1>2, <1>4 DEF Tracing

LEMMA ApartStep ==
  ASSUME TypeOK, Shape, NEW p \in Promoters, Effect(p)
  PROVE  GreensApart' /\ OneHolder' /\ Staged'
<1>0. GreensApart /\ OneHolder /\ Staged /\ Names(p) /\ JobShape(p)
  BY DEF Shape, Effect
<1>1. ASSUME NEW d \in Deps
      PROVE  /\ ctr'[Green(d)].name \in {"", "green"} /\ Green(d) \notin passed'
             /\ \A q \in Promoters : proc'[q].old # Green(d)
  <2>0. Green(d) \in Ctr /\ Green(d) # New(p) /\ Green(d) # Emergency(p)
    BY CtrParts
  <2>1. ctr[Green(d)].name \in {"", "green"} /\ Green(d) \notin passed /\ \A q \in Promoters : proc[q].old # Green(d)
    BY <1>0 DEF GreensApart
  <2>2. ctr'[Green(d)].name \in {"", "green"}
    BY <1>0, <2>0, <2>1 DEF Names, NamesSame, Takes, Yields, Goes, Touches
  <2>3. Green(d) \notin passed'
    BY <2>0, <2>1 DEF Effect, Proves
  <2>4. ASSUME NEW q \in Promoters PROVE proc'[q].old # Green(d)
    <3>1. Green(d) # None
      BY <2>0, CtrParts
    <3>. QED
      BY <2>1, <3>1 DEF Effect, Moves, Chooses
  <2>. QED
    BY <2>2, <2>3, <2>4
<1>2. OneHolder'
  BY <1>0 DEF OneHolder, Names, NamesSame, Takes, Yields, Goes, Touches
<1>3. Staged'
  BY <1>0, TypeParts DEF Staged, Effect, Records
<1>. QED
  BY <1>1, <1>2, <1>3 DEF GreensApart

LEMMA ShapeAside ==
  ASSUME TypeOK, Shape, AsideEffect
  PROVE  Shape'
<1>1. /\ \A c \in Ctr : ctr'[c].name \in {ctr[c].name, ""}
      /\ \A c \in Ctr : ctr'[c].name # "" => ctr[c].name # ""
      /\ UNCHANGED <<proc, passed>>
  BY DEF AsideEffect, NamesSame, Vanishes, Touches
<1>2. ASSUME NEW q \in Promoters PROVE Birth(q)'
  <2>1. Birth(q) /\ New(q) \in Ctr /\ New(q) # OldCtr
    BY CtrParts DEF Shape
  <2>2. proc[q].pc \in Unborn => beat'.ctr # New(q)
    BY <2>1 DEF AsideEffect, Birth, Exists
  <2>3. proc[q].pc \in Unborn => \A d \in DOMAIN row' : row'[d].green # New(q) /\ row'[d].cid # New(q)
    BY <2>1, AsideRows DEF Birth
  <2>. QED
    BY <1>1, <2>1, <2>2, <2>3 DEF Birth, Exists
<1>3. \A q \in Promoters : JobShape(q)'
  BY <1>1 DEF Shape, JobShape
<1>4. GreensApart' /\ OneHolder'
  BY <1>1, CtrParts DEF Shape, GreensApart, OneHolder
<1>5. Staged'
  BY AsideRows DEF Shape, Staged
<1>6. Tracing'
  <2>1. \A d \in DOMAIN row' : row'[d].st = "HEALTH_CHECK" => row'[d].green \in Ctr
    BY AsideRows DEF Shape, Tracing
  <2>2. ASSUME NEW q \in Promoters, Tracked(q)' PROVE row'[proc'[q].dep].green \in Ctr
    <3>1. Tracked(q) /\ proc[q].dep \in DOMAIN row
      BY <1>1, <2>2, TypeParts DEF Tracked, At, Shape, JobShape
    <3>. QED
      BY <1>1, <3>1, AsideRows DEF Shape, Tracing
  <2>. QED
    BY <2>1, <2>2 DEF Tracing, AsideEffect
<1>. QED
  BY <1>2, <1>3, <1>4, <1>5, <1>6 DEF Shape

LEMMA ShapeStep == TypeOK /\ Shape /\ [Next]_vars => Shape'
<1>. SUFFICES ASSUME TypeOK, Shape, [Next]_vars PROVE Shape'
  OBVIOUS
<1>1. ASSUME NEW p \in Promoters, Effect(p) PROVE Shape'
  <2>1. \A q \in Promoters : JobShape(q)'
    BY <1>1 DEF Effect, Moves, Shape, JobShape
  <2>. QED
    BY <1>1, <2>1, BirthStep, ApartStep, TracingStep DEF Shape
<1>2. CASE UNCHANGED vars
  <2>1. GreensApart' /\ OneHolder' /\ Staged'
    BY <1>2 DEF vars, Shape, GreensApart, OneHolder, Staged
  <2>2. Tracing'
    BY <1>2 DEF vars, Shape, Tracing, Tracked, At
  <2>3. \A q \in Promoters : JobShape(q)' /\ Birth(q)'
    BY <1>2 DEF vars, Shape, JobShape, Birth, Exists
  <2>. QED
    BY <2>1, <2>2, <2>3 DEF Shape
<1>. QED
  BY <1>1, <1>2, NextParts, PromoterEffect, AsideSteps, ShapeAside

---------------------------------------------------------------------------
(* The chain of containers that passed is kept *)

\* Choosing the container it is to replace, p puts its own, which is not there yet, after it.
LEMMA ChainChoice ==
  ASSUME TypeOK, Shape, NEW p \in Promoters, Effect(p), NEW t \in [Ctr -> Nat], Chain(t),
         proc[p].pc = "get", proc'[p].old \in Ctr, ctr[proc'[p].old].name = "live", UNCHANGED <<ctr, passed>>
  PROVE  \E u \in [Ctr -> Nat] : Chain(u)'
<1>. DEFINE c == proc'[p].old
            u == [t EXCEPT ![New(p)] = t[c] + 1]
<1>0. /\ New(p) \in Ctr /\ ~Exists(New(p)) /\ New(p) \notin passed /\ \A q \in Promoters : proc[q].old # New(p)
      /\ passed \subseteq Ctr /\ \A q \in Promoters \ {p} : proc'[q] = proc[q] /\ New(q) # New(p) /\ New(q) \in Ctr
      /\ \A q \in Promoters : proc[q].old # None => proc[q].old \in Ctr
  BY TypeParts, CtrParts, JobParts DEF Shape, Birth, Unborn, Before1, Proven, Over, Effect, Moves
<1>1. c \in Ctr /\ c # New(p) /\ c # None
  BY <1>0, CtrParts DEF Exists
<1>2. u \in [Ctr -> Nat] /\ u[New(p)] = t[c] + 1 /\ \A d \in Ctr \ {New(p)} : u[d] = t[d]
  BY <1>0, <1>1
<1>. HIDE DEF u
<1>3. ASSUME NEW q \in Promoters, proc'[q].old # None PROVE u[proc'[q].old] < u[New(q)]
  <2>1. CASE q = p
    BY <1>0, <1>1, <1>2, <2>1
  <2>2. CASE q # p
    BY <1>0, <1>2, <1>3, <2>2 DEF Chain
  <2>. QED
    BY <2>1, <2>2
<1>. HIDE DEF c
<1>4. ASSUME ~discarded', NEW d \in passed' PROVE \E e \in passed' : Exists(e)' /\ u[d] <= u[e]
  <2>1. PICK e \in passed : Exists(e) /\ t[d] <= t[e]
    BY <1>4 DEF Chain, Effect
  <2>. QED
    BY <1>0, <1>2, <1>4, <2>1 DEF Exists
<1>. QED
  BY <1>2, <1>3, <1>4 DEF Chain

\* A container that passed goes only after a later one passed.
LEMMA ChainKept ==
  ASSUME TypeOK, Shape, NEW p \in Promoters, Effect(p), NEW t \in [Ctr -> Nat], Chain(t),
         proc'[p].old \in {None, proc[p].old}
  PROVE  Chain(t)'
<1>0. /\ passed \subseteq Ctr /\ New(p) \in Ctr /\ Birth(p) /\ (~discarded' => ~discarded)
      /\ \A d \in Deps : Green(d) \notin passed
      /\ JobShape(p)
  BY TypeParts, CtrParts DEF Shape, GreensApart, Effect
<1>1. \A q \in Promoters : proc'[q].old # None => t[proc'[q].old] < t[New(q)]
  BY DEF Chain, Effect, Moves
<1>2. ASSUME ~discarded', NEW c \in passed' PROVE \E d \in passed' : Exists(d)' /\ t[c] <= t[d]
  <2>1. CASE Exists(New(p)) /\ passed' = passed \cup {New(p)} /\ UNCHANGED ctr
    <3>1. CASE c = New(p)
      <4>1. c \in passed' /\ Exists(c)'
        BY <1>2, <2>1, <3>1 DEF Exists
      <4>2. t[c] <= t[c]
        BY <1>0, <3>1
      <4>. QED
        BY <4>1, <4>2
    <3>2. CASE c \in passed
      BY <1>0, <1>2, <2>1, <3>2 DEF Chain, Exists
    <3>. QED
      BY <2>1, <3>1, <3>2, <1>2
  <2>2. CASE UNCHANGED passed
    <3>1. PICK d \in passed : Exists(d) /\ t[c] <= t[d]
      BY <1>0, <1>2, <2>2 DEF Chain
    <3>2. CASE ctr'[d].name # ""
      BY <2>2, <3>1, <3>2 DEF Exists
    <3>3. CASE ctr'[d].name = ""
      <4>1. PICK g \in Ctr : Goes(p, g) /\ g = d
        BY <1>0, <3>1, <3>3 DEF Exists, Effect, Names, NamesSame, Takes, Yields, Goes, Touches
      <4>2. proc[p].pc # "idle" => proc[p].dep \in Deps
        BY <1>0 DEF JobShape
      <4>3. d = proc[p].old /\ proc[p].pc = "drop_old" /\ d # None
        <5>1. proc[p].pc = "undo" => New(p) \notin passed
          BY <1>0 DEF Birth, Proven, Over
        <5>2. d \in Ctr /\ d # None
          BY <1>0, <3>1, CtrParts
        <5>3. ~(proc[p].pc = "discard" /\ (discarded' \/ d \notin passed))
          BY <1>2, <3>1
        <5>. QED
          BY <1>0, <3>1, <4>1, <4>2, <5>1, <5>2, <5>3 DEF Goes
      <4>4. New(p) \in passed /\ t[d] < t[New(p)]
        BY <1>0, <4>3 DEF Birth, Proven, Chain
      <4>5. PICK e \in passed : Exists(e) /\ t[New(p)] <= t[e]
        BY <1>0, <1>2, <4>4 DEF Chain
      <4>6. e # d /\ t[c] <= t[e]
        BY <1>0, <1>2, <2>2, <3>1, <4>4, <4>5
      <4>7. ctr'[e].name # ""
        BY <1>0, <4>1, <4>5, <4>6 DEF Goes, Touches, Exists
      <4>. QED
        BY <2>2, <4>6, <4>7 DEF Exists
    <3>. QED
      BY <3>2, <3>3
  <2>. QED
    BY <2>1, <2>2 DEF Effect, Proves
<1>. QED
  BY <1>1, <1>2 DEF Chain

LEMMA ChainAside ==
  ASSUME TypeOK, AsideEffect \/ UNCHANGED vars, NEW t \in [Ctr -> Nat], Chain(t)
  PROVE  Chain(t)'
<1>1. UNCHANGED <<proc, passed>> /\ passed \subseteq Ctr
  BY TypeParts DEF AsideEffect, vars
<1>2. ~discarded' => ~discarded /\ \A c \in passed : ctr[c].name # "" => ctr'[c].name # ""
  BY <1>1 DEF AsideEffect, NamesSame, Vanishes, Touches, vars
<1>3. ~discarded' => \A c \in passed' : \E d \in passed' : Exists(d)' /\ t[c] <= t[d]
  BY <1>1, <1>2 DEF Chain, Exists
<1>. QED
  BY <1>1, <1>3 DEF Chain

LEMMA ChainStep ==
  ASSUME TypeOK, Shape, [Next]_vars, NEW t \in [Ctr -> Nat], Chain(t)
  PROVE  \E u \in [Ctr -> Nat] : Chain(u)'
<1>1. ASSUME NEW p \in Promoters, Effect(p) PROVE \E u \in [Ctr -> Nat] : Chain(u)'
  <2>1. CASE proc'[p].old \in {None, proc[p].old}
    BY <1>1, <2>1, ChainKept
  <2>2. CASE /\ proc[p].pc = "get" /\ proc'[p].old \in Ctr /\ ctr[proc'[p].old].name = "live"
             /\ UNCHANGED ctr
    <3>1. UNCHANGED passed
      BY <1>1, <2>2 DEF Effect, Proves
    <3>. QED
      BY <1>1, <2>2, <3>1, ChainChoice
  <2>. QED
    BY <1>1, <2>1, <2>2 DEF Effect, Chooses
<1>. QED
  BY <1>1, NextParts, PromoterEffect, AsideSteps, ChainAside

---------------------------------------------------------------------------
(* At the beginning *)

LEMMA InitContainers ==
  ASSUME Init
  PROVE  /\ ctr \in [Ctr -> Container]
         /\ \A c \in Ctr : /\ ctr[c].name = "live" => c = OldCtr /\ ctr[c].up = TRUE
                           /\ ctr[c].name = "green" => c[1] = "green"
                           /\ c[1] = "green" => ctr[c].name = "green"
         /\ \A p \in Promoters : ctr[New(p)].name = "" /\ ctr[Emergency(p)].name = ""
         /\ \/ passed = {} /\ row[Prev] = Row("INACTIVE", None)
            \/ passed = {OldCtr} /\ ctr[OldCtr].name = "live" /\ row[Prev] = Row("ACTIVE", OldCtr)
         /\ row \in [Deps \cup {Prev} -> RowState]
         /\ \A d \in Deps : row[d] \in {Row("STAGED", Green(d)), Row("BUILDING", None)}
<1>1. PICK first \in BOOLEAN :
        /\ ctr = [c \in Ctr |-> CASE c[1] = "green" -> [NoCtr EXCEPT !.name = "green", !.up = TRUE]
                                  [] c = OldCtr /\ ~first -> [NoCtr EXCEPT !.name = "live", !.up = TRUE]
                                  [] OTHER -> NoCtr]
        /\ passed = IF first THEN {} ELSE {OldCtr}
        /\ \E staged \in SUBSET Deps :
             row = [d \in Deps \cup {Prev} |->
                      IF d = Prev
                        THEN IF first THEN Row("INACTIVE", None) ELSE Row("ACTIVE", OldCtr)
                        ELSE IF d \in staged THEN Row("STAGED", Green(d)) ELSE Row("BUILDING", None)]
  BY DEF Init
<1>. DEFINE g == [NoCtr EXCEPT !.name = "green", !.up = TRUE]
            l == [NoCtr EXCEPT !.name = "live", !.up = TRUE]
<1>2. g \in Container /\ g.name = "green" /\ l \in Container /\ l.name = "live" /\ l.up = TRUE
  BY DEF NoCtr, Container
<1>3. \A c \in Ctr : \/ c[1] = "green" /\ ctr[c] = g
                     \/ c[1] # "green" /\ c = OldCtr /\ ~first /\ ctr[c] = l
                     \/ c[1] # "green" /\ (c = OldCtr => first) /\ ctr[c] = NoCtr
  <2>. SUFFICES ASSUME NEW c \in Ctr
                PROVE  \/ c[1] = "green" /\ ctr[c] = g
                       \/ c[1] # "green" /\ c = OldCtr /\ ~first /\ ctr[c] = l
                       \/ c[1] # "green" /\ (c = OldCtr => first) /\ ctr[c] = NoCtr
    OBVIOUS
  <2>1. ctr[c] = CASE c[1] = "green" -> g [] c = OldCtr /\ ~first -> l [] OTHER -> NoCtr
    BY <1>1
  <2>2. c = OldCtr => c[1] # "green"
    BY DEF OldCtr
  <2>. HIDE DEF g, l
  <2>3. CASE c[1] = "green"
    BY <2>1, <2>2, <2>3
  <2>4. CASE c[1] # "green" /\ c = OldCtr /\ ~first
    BY <2>1, <2>4
  <2>5. CASE c[1] # "green" /\ (c = OldCtr => first)
    BY <2>1, <2>5
  <2>. QED
    BY <2>3, <2>4, <2>5
<1>4. PICK staged \in SUBSET Deps :
        row = [d \in Deps \cup {Prev} |->
                 IF d = Prev
                   THEN IF first THEN Row("INACTIVE", None) ELSE Row("ACTIVE", OldCtr)
                   ELSE IF d \in staged THEN Row("STAGED", Green(d)) ELSE Row("BUILDING", None)]
  BY <1>1
<1>. HIDE DEF g, l
<1>5. ctr \in [Ctr -> Container]
  <2>1. ctr = [c \in Ctr |-> ctr[c]]
    BY <1>1
  <2>2. \A c \in Ctr : ctr[c] \in Container
    BY <1>2, <1>3, NoCtrType
  <2>. QED
    BY <2>1, <2>2
<1>6. /\ OldCtr[1] = "old" /\ OldCtr \in Ctr
      /\ \A p \in Promoters : New(p)[1] = "new" /\ New(p) \in Ctr /\ Emergency(p)[1] = "emergency" /\ Emergency(p) \in Ctr
  BY DEF OldCtr, New, Emergency, Ctr
<1>7. /\ \A c \in Ctr : /\ ctr[c].name = "live" => c = OldCtr /\ ctr[c].up = TRUE
                        /\ ctr[c].name = "green" => c[1] = "green"
                        /\ c[1] = "green" => ctr[c].name = "green"
  BY <1>2, <1>3, NoCtrType
<1>8. \A p \in Promoters : ctr[New(p)].name = "" /\ ctr[Emergency(p)].name = ""
  BY <1>2, <1>3, <1>6, NoCtrType, CtrParts
<1>9. ~first => ctr[OldCtr].name = "live"
  BY <1>2, <1>3, <1>6
<1>10. /\ Row("INACTIVE", None) \in RowState /\ Row("ACTIVE", OldCtr) \in RowState /\ Row("BUILDING", None) \in RowState
       /\ \A d \in Deps : Row("STAGED", Green(d)) \in RowState
  BY CtrParts DEF Row, RowState, Status
<1>11. row \in [Deps \cup {Prev} -> RowState]
  BY <1>4, <1>10
<1>12. row[Prev] = IF first THEN Row("INACTIVE", None) ELSE Row("ACTIVE", OldCtr)
  BY <1>4
<1>13. \A d \in Deps : row[d] \in {Row("STAGED", Green(d)), Row("BUILDING", None)}
  BY <1>4, IdsAssumption
<1>. QED
  BY <1>1, <1>5, <1>7, <1>8, <1>9, <1>11, <1>12, <1>13

LEMMA RowParts ==
  ASSUME NEW st, NEW c
  PROVE  Row(st, c).st = st /\ Row(st, c).green = c /\ Row(st, c).cid = c
  BY DEF Row

LEMMA InitJobs ==
  ASSUME Init
  PROVE  /\ proc \in [Promoters -> JobState]
         /\ \A p \in Promoters : /\ proc[p].pc = "idle" /\ ~proc[p].began /\ proc[p].old = None
                                 /\ proc[p].result = "pending" /\ proc[p].dep = None
<1>1. /\ NoJob \in JobState /\ NoJob.pc = "idle" /\ ~NoJob.began /\ NoJob.old = None
      /\ NoJob.result = "pending" /\ NoJob.dep = None
  BY DEF NoJob, JobState, PCs
<1>. QED
  BY <1>1 DEF Init

LEMMA TypeInit == Init => TypeOK
<1>. SUFFICES ASSUME Init PROVE TypeOK
  OBVIOUS
<1>1. ctr \in [Ctr -> Container] /\ row \in [Deps \cup {Prev} -> RowState] /\ passed \subseteq Ctr
  BY InitContainers, CtrParts
<1>2. beat = NoBeat /\ mishaps = 0 /\ discarded = FALSE /\ spoiled = FALSE
  BY DEF Init
<1>3. 0 \in 0..MaxMishaps
  BY IdsAssumption
<1>. QED
  BY <1>1, <1>2, <1>3, NoBeatType, InitJobs DEF TypeOK, Container, JobState, BeatState, RowState

LEMMA ShapeInit == Init => Shape
<1>. SUFFICES ASSUME Init PROVE Shape
  OBVIOUS
<1>1. ASSUME NEW p \in Promoters PROVE JobShape(p)
  BY InitJobs DEF JobShape, Before1, Over
<1>2. ASSUME NEW d \in DOMAIN row
      PROVE  /\ row[d].green \in {None, OldCtr} \/ (d \in Deps /\ row[d].green = Green(d))
             /\ row[d].cid = row[d].green
             /\ row[d].st = "STAGED" => d \in Deps /\ row[d].green = Green(d) /\ row[d].cid = Green(d)
  <2>1. d \in Deps \cup {Prev}
    BY InitContainers
  <2>2. \/ d \in Deps /\ row[d] = Row("STAGED", Green(d))
        \/ row[d] = Row("BUILDING", None) \/ row[d] = Row("INACTIVE", None) \/ row[d] = Row("ACTIVE", OldCtr)
    BY <2>1, InitContainers
  <2>. QED
    BY <2>2, RowParts
<1>3. ASSUME NEW p \in Promoters PROVE Birth(p)
  <2>1. New(p) # None /\ New(p) # OldCtr /\ New(p) \notin passed /\ beat.ctr = OldCtr /\ ~Exists(New(p))
    BY InitContainers, CtrParts, NoBeatType DEF Init, Exists
  <2>2. \A d \in DOMAIN row : row[d].green # New(p) /\ row[d].cid # New(p)
    BY <1>2, <2>1, CtrParts
  <2>. QED
    BY <2>1, <2>2, InitJobs DEF Birth, Unborn, Before1, Proven, Over
<1>4. GreensApart
  <2>1. \A d \in Deps : Green(d)[1] = "green"
    BY DEF Green
  <2>. QED
    BY <2>1, InitContainers, InitJobs, CtrParts DEF GreensApart
<1>5. OneHolder /\ Staged
  BY <1>2, InitContainers DEF OneHolder, Staged
<1>6. Tracing
  <2>1. ASSUME NEW d \in DOMAIN row PROVE row[d].st # "HEALTH_CHECK"
    <3>1. d \in Deps \cup {Prev}
      BY InitContainers
    <3>2. \/ d \in Deps /\ row[d] = Row("STAGED", Green(d))
          \/ row[d] = Row("BUILDING", None) \/ row[d] = Row("INACTIVE", None) \/ row[d] = Row("ACTIVE", OldCtr)
      BY <3>1, InitContainers
    <3>. QED
      BY <3>2, RowParts
  <2>2. beat.pc = "idle"
    BY NoBeatType DEF Init
  <2>. QED
    BY <2>1, <2>2, InitJobs DEF Tracing, Tracked, At
<1>. QED
  BY <1>1, <1>3, <1>4, <1>5, <1>6 DEF Shape

LEMMA ChainInit == Init => \E t \in [Ctr -> Nat] : Chain(t)
<1>. SUFFICES ASSUME Init PROVE \E t \in [Ctr -> Nat] : Chain(t)
  OBVIOUS
<1>. DEFINE t == [c \in Ctr |-> 0]
<1>1. t \in [Ctr -> Nat] /\ \A c \in Ctr : t[c] <= t[c]
  OBVIOUS
<1>. HIDE DEF t
<1>2. \A c \in passed : c \in Ctr /\ Exists(c)
  BY InitContainers, CtrParts DEF Exists
<1>3. Chain(t)
  BY <1>1, <1>2, InitJobs DEF Chain
<1>. QED
  BY <1>1, <1>3

Kept == TypeOK /\ Shape /\ \E t \in [Ctr -> Nat] : Chain(t)

LEMMA KeptAlways == Spec => []Kept
<1>1. Init => Kept
  BY TypeInit, ShapeInit, ChainInit DEF Kept
<1>2. Kept /\ [Next]_vars => Kept'
  BY TypeStep, ShapeStep, ChainStep DEF Kept
<1>. QED
  BY <1>1, <1>2, PTL DEF Spec

\* Every variable keeps its type, for any number of promotions, deployments and mishaps.
THEOREM TypeCorrect == Spec => []TypeOK
  BY KeptAlways, PTL DEF Kept

\* promote_container() removes the old container only after the new one has passed its health
\* check, and so, however many promotions overlap or die, and whichever calls fail, one
\* container that served or passed is left, unless one was removed by the orphan sweep, by a
\* deployment that failed after its cut-over or by one that superseded it.
THEOREM NothingIsLost == Spec => []NothingLost
<1>1. Kept => NothingLost
  BY DEF Kept, NothingLost, Chain
<1>. QED
  BY <1>1, KeptAlways, PTL

=============================================================================
