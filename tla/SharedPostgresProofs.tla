------------------------ MODULE SharedPostgresProofs ------------------------
(***************************************************************************)
(* The shared Postgres server keeps one writer, the tenants' data and the  *)
(* fenced copy, for any number of containers, watchers, provisioners and   *)
(* operators, whatever they do in between, until one of the events that    *)
(* set spoiled happens.                                                    *)
(***************************************************************************)
EXTENDS SharedPostgres, FiniteSetTheorems, TLAPS

Container == [name : Names, vol : Volumes, run : Runs]
JobState  == [at : Calls, job : Jobs, vol : Volumes]
Located   == {"off", "plain", "alias"}

---------------------------------------------------------------------------
(* What the operators of the model do *)

\* A name in use belongs to the container that The finds, and to no other one if it is
\* the server's or the standby's.
LEMMA TheNamed ==
  ASSUME NEW n, Has(n)
  PROVE  The(n) \in Ids /\ ctr[The(n)].name = n
  BY DEF Has, The

LEMMA TheOnly ==
  ASSUME TypeOK, NEW c \in Ids, ctr[c].name \in {"shared", "standby"}
  PROVE  The(ctr[c].name) = c /\ Has(ctr[c].name)
<1>1. Has(ctr[c].name)
  BY DEF Has
<1>2. The(ctr[c].name) \in Ids /\ ctr[The(ctr[c].name)].name = ctr[c].name
  BY <1>1, TheNamed
<1>. QED
  BY <1>1, <1>2 DEF TypeOK

\* Only the job of p changes, and goes on at the call at.
Moves(p, at) ==
  /\ proc' \in [Procs -> JobState] /\ proc'[p].at = at
  /\ \A q \in Procs \ {p} : proc'[q] = proc[q]

LEMMA GotoMoves ==
  ASSUME TypeOK, NEW p \in Procs, NEW at \in Calls, Goto(p, at)
  PROVE  Moves(p, at) /\ proc'[p].vol = proc[p].vol
  BY DEF TypeOK, Goto, Moves, JobState

LEMMA NoJobType == NoJob \in JobState
  BY DEF NoJob, JobState, Calls, Jobs, Volumes

LEMMA EndingMoves ==
  ASSUME TypeOK, NEW p \in Procs, proc' = [proc EXCEPT ![p] = NoJob]
  PROVE  Moves(p, "idle")
<1>1. NoJob \in JobState /\ NoJob.at = "idle"
  BY NoJobType DEF NoJob
<1>. QED
  BY <1>1 DEF TypeOK, Moves, JobState

LEMMA FinishMoves ==
  ASSUME TypeOK, NEW p \in Procs, Finish(p)
  PROVE  /\ Moves(p, "idle") /\ downs' \in 0..Probes /\ cooling' \in BOOLEAN
         /\ UNCHANGED <<ctr, net, dataVars, seen, spoiled, boundVars>>
<1>1. Moves(p, "idle")
  BY EndingMoves DEF Finish, Ending
<1>2. 0 \in 0..Probes
  BY BoundsAssumption
<1>. QED
  BY <1>1, <1>2 DEF Finish, Ending, TypeOK

LEMMA BeginMoves ==
  ASSUME TypeOK, NEW p \in Procs, NEW job \in Jobs, NEW at \in Calls,
         proc' = [proc EXCEPT ![p] = [NoJob EXCEPT !.at = at, !.job = job]]
  PROVE  Moves(p, at)
<1>1. [NoJob EXCEPT !.at = at, !.job = job] \in JobState /\ [NoJob EXCEPT !.at = at, !.job = job].at = at
  BY DEF NoJob, JobState, Volumes
<1>. QED
  BY <1>1 DEF TypeOK, Moves, JobState

LEMMA JobMoves ==
  ASSUME TypeOK, NEW p \in Procs, NEW job \in Jobs, NEW at \in Calls,
         proc' = [proc EXCEPT ![p].at = at, ![p].job = job]
  PROVE  Moves(p, at)
  BY DEF TypeOK, Moves, JobState

LEMMA SeedMoves ==
  ASSUME TypeOK, NEW p \in Procs, NEW v \in Volumes, Seed(p, v)
  PROVE  Moves(p, "seed") /\ proc'[p].vol = v
  BY DEF TypeOK, Seed, Moves, JobState, Calls

LEMMA MishapType ==
  ASSUME TypeOK, NEW kind, Mishap(kind)
  PROVE  mishaps' \in 0..MaxMishaps
  BY BoundsAssumption DEF TypeOK, Mishap

\* A new container takes a free place, on the platform's network only and under no alias.
Added(c, n, v, r) ==
  /\ ctr[c].name = "" /\ ctr'[c] = [name |-> n, vol |-> v, run |-> r]
  /\ \A d \in Ids \ {c} : ctr'[d] = ctr[d]
  /\ \A m \in Nets : net'[m][c] # "alias" /\ \A d \in Ids \ {c} : net'[m][d] = net[m][d]

LEMMA CreateAdds ==
  ASSUME TypeOK, NEW n \in Names, NEW v \in Volumes, NEW r \in Runs, Create(n, v, r)
  PROVE  /\ ctr' \in [Ids -> Container] /\ net' \in [Nets -> [Ids -> Located]]
         /\ \E c \in Ids : Added(c, n, v, r)
<1>1. PICK c \in Ids :
        /\ ctr[c].name = ""
        /\ ctr' = [ctr EXCEPT ![c] = [name |-> n, vol |-> v, run |-> r]]
        /\ net' = [m \in Nets |-> [net[m] EXCEPT ![c] = IF m = "smsly-net" THEN "plain" ELSE "off"]]
  BY DEF Create
<1>2. [name |-> n, vol |-> v, run |-> r] \in Container
  BY DEF Container
<1>3. \A m \in Nets : net[m] \in [Ids -> Located]
  BY DEF TypeOK, Located
<1>4. ctr' \in [Ids -> Container] /\ ctr'[c] = [name |-> n, vol |-> v, run |-> r] /\ \A d \in Ids \ {c} : ctr'[d] = ctr[d]
  BY <1>1, <1>2 DEF TypeOK, Container
<1>5. net' \in [Nets -> [Ids -> Located]]
  BY <1>1, <1>3 DEF Located
<1>6. \A m \in Nets : net'[m][c] # "alias" /\ \A d \in Ids \ {c} : net'[m][d] = net[m][d]
  BY <1>1, <1>3
<1>. QED
  BY <1>1, <1>4, <1>5, <1>6 DEF Added

\* Only the run of one container changes.
Runs1(c, r) ==
  /\ ctr' \in [Ids -> Container]
  /\ ctr'[c].name = ctr[c].name /\ ctr'[c].vol = ctr[c].vol /\ ctr'[c].run = r
  /\ \A d \in Ids \ {c} : ctr'[d] = ctr[d]

LEMMA RunUpdate ==
  ASSUME TypeOK, NEW c \in Ids, NEW r \in Runs, ctr' = [ctr EXCEPT ![c].run = r]
  PROVE  Runs1(c, r)
  BY DEF TypeOK, Runs1, Container

LEMMA StartRuns ==
  ASSUME TypeOK, NEW n, Has(n), Start(n)
  PROVE  Runs1(The(n), Boot(ctr[The(n)].vol))
<1>1. The(n) \in Ids /\ Boot(ctr[The(n)].vol) \in Runs
  BY TheNamed DEF Boot, Runs
<1>. QED
  BY <1>1, RunUpdate DEF Start

\* Renaming sets or keeps one name.
LEMMA RenameType ==
  ASSUME TypeOK, NEW old \in {"shared", "standby"}, NEW new \in {"fenced", "shared"},
         ctr' = [c \in Ids |-> IF ctr[c].name = old /\ (new = "fenced" \/ ~Has(new))
                                 THEN [ctr[c] EXCEPT !.name = new] ELSE ctr[c]]
  PROVE  /\ ctr' \in [Ids -> Container]
         /\ \A c \in Ids : /\ ctr'[c].vol = ctr[c].vol /\ ctr'[c].run = ctr[c].run
                           /\ ctr'[c].name = IF ctr[c].name = old /\ (new = "fenced" \/ ~Has(new))
                                               THEN new ELSE ctr[c].name
<1>1. ASSUME NEW c \in Ids
      PROVE  /\ ctr[c] \in Container
             /\ [ctr[c] EXCEPT !.name = new] \in Container
             /\ [ctr[c] EXCEPT !.name = new].name = new
             /\ [ctr[c] EXCEPT !.name = new].vol = ctr[c].vol /\ [ctr[c] EXCEPT !.name = new].run = ctr[c].run
  BY DEF TypeOK, Container, Names
<1>. QED
  BY <1>1

---------------------------------------------------------------------------
(* Type correctness *)

\* Docker's names stay unique: no step gives the server's or the standby's name twice.
NamesUnique == \A c, d \in Ids : ctr[c].name = ctr[d].name /\ ctr[c].name \in {"shared", "standby"} => c = d

LEMMA NamesKept ==
  ASSUME TypeOK, \A c \in Ids : ctr'[c].name \in {"shared", "standby"} => ctr'[c].name = ctr[c].name
  PROVE  NamesUnique'
  BY DEF TypeOK, NamesUnique

LEMMA NamesCreated ==
  ASSUME TypeOK, NEW n \in {"shared", "standby"}, ~Has(n), NEW v \in Volumes, NEW r \in Runs, Create(n, v, r)
  PROVE  NamesUnique'
<1>1. n \in Names
  BY DEF Names
<1>2. PICK c \in Ids : Added(c, n, v, r)
  BY <1>1, CreateAdds
<1>4. ctr'[c] = [name |-> n, vol |-> v, run |-> r] /\ \A d \in Ids \ {c} : ctr'[d] = ctr[d]
  BY <1>2 DEF Added
<1>5. \A d \in Ids : ctr[d].name # n
  BY DEF Has
<1>3. ctr'[c].name = n /\ (\A d \in Ids : ctr[d].name # n) /\ \A d \in Ids \ {c} : ctr'[d] = ctr[d]
  BY <1>4, <1>5
<1>. QED
  BY <1>3 DEF TypeOK, NamesUnique

\* The state other than the containers, the networks, the data and the jobs.
Rest == /\ downs \in 0..Probes /\ seen \in BOOLEAN /\ cooling \in BOOLEAN
        /\ written \in 0..MaxWrites /\ due \subseteq 1..written /\ spoiled \in BOOLEAN
        /\ mishaps \in 0..MaxMishaps /\ commands \in 0..MaxCommands

LEMMA TypeParts ==
  TypeOK <=> /\ ctr \in [Ids -> Container] /\ NamesUnique
             /\ net \in [Nets -> [Ids -> Located]]
             /\ data \in [Volumes -> SUBSET (1..MaxWrites)]
             /\ proc \in [Procs -> JobState]
             /\ Rest
  BY DEF TypeOK, Container, NamesUnique, Located, JobState, Rest

LEMMA TypePartsNext ==
  ASSUME ctr' \in [Ids -> Container], NamesUnique', net' \in [Nets -> [Ids -> Located]],
         data' \in [Volumes -> SUBSET (1..MaxWrites)], proc' \in [Procs -> JobState], Rest'
  PROVE  TypeOK'
  BY DEF TypeOK, Container, NamesUnique, Located, JobState, Rest

LEMMA TypeInit == Init => TypeOK
<1>. SUFFICES ASSUME Init PROVE TypeOK
  OBVIOUS
<1>1. PICK alone \in BOOLEAN :
        /\ ctr = [c \in Ids |->
                   CASE c = 1 -> [name |-> "shared", vol |-> "main", run |-> "primary"]
                     [] c = 2 /\ ~alone -> [name |-> "standby", vol |-> "replica", run |-> "standby"]
                     [] OTHER -> NoCtr]
        /\ net = [n \in Nets |-> [c \in Ids |->
                   CASE c = 1 -> "alias"
                     [] c = 2 /\ ~alone /\ n = "smsly-net" -> "plain"
                     [] OTHER -> "off"]]
  BY DEF Init
<1>2. ctr \in [Ids -> Container]
  BY <1>1 DEF Container, NoCtr, Names, Volumes, Runs
<1>3. NamesUnique
  <2>1. ASSUME NEW c \in Ids
        PROVE  (ctr[c].name = "shared" => c = 1) /\ (ctr[c].name = "standby" => c = 2)
    BY <1>1 DEF NoCtr
  <2>. QED
    BY <2>1 DEF NamesUnique
<1>4. net \in [Nets -> [Ids -> Located]]
  BY <1>1 DEF Located
<1>5. proc \in [Procs -> JobState]
  BY NoJobType DEF Init
<1>6. Rest
  <2>1. 0 \in 0..Probes /\ 0 \in 0..MaxWrites /\ 0 \in 0..MaxMishaps /\ 0 \in 0..MaxCommands
    BY BoundsAssumption
  <2>. QED
    BY <2>1 DEF Init, Rest
<1>7. data \in [Volumes -> SUBSET (1..MaxWrites)]
  BY DEF Init
<1>. QED
  BY <1>2, <1>3, <1>4, <1>5, <1>6, <1>7, TypeParts

\* Steps that change at most the jobs, the caches, the networks and the bounds.
LEMMA JobsType ==
  ASSUME TypeOK, NEW p \in Procs,
         \/ p \in Watchers /\ Watch(p)
         \/ Provision(p) \/ Command(p) \/ ServerReady(p) \/ AttachAlias(p) \/ AwaitStreaming(p) \/ CheckAlive(p)
         \/ VerifyWritable(p) \/ GrantReplication(p) \/ Raise(p) \/ Die(p)
  PROVE  TypeOK'
<1>1. CASE Finish(p)
  BY <1>1, FinishMoves, TypeParts, TypePartsNext DEF Moves, Rest, dataVars, boundVars, NamesUnique
<1>2. CASE p \in Watchers /\ Watch(p)
  <2>1. proc' \in [Procs -> JobState]
    BY <1>2, BeginMoves, TypeParts DEF Watch, Moves, Calls, Jobs, Promotion
  <2>2. downs' \in 0..Probes /\ seen' \in BOOLEAN /\ cooling' \in BOOLEAN
    <3>1. downs' = 0 \/ downs' = downs \/ (downs' = downs + 1 /\ downs < Probes)
      BY <1>2 DEF Watch
    <3>2. downs' \in 0..Probes
      BY <3>1, BoundsAssumption DEF TypeOK
    <3>3. (seen' = TRUE \/ seen' = seen) /\ cooling' = cooling
      BY <1>2 DEF Watch
    <3>. QED
      BY <3>2, <3>3 DEF TypeOK
  <2>3. UNCHANGED <<ctr, net, dataVars, spoiled, boundVars>>
    BY <1>2 DEF Watch
  <2>. QED
    BY <2>1, <2>2, <2>3, TypeParts, TypePartsNext DEF Rest, dataVars, boundVars, NamesUnique
<1>3. CASE Provision(p) \/ Command(p)
  <2>1. proc' \in [Procs -> JobState]
    BY <1>3, BeginMoves DEF Provision, Command, Begin, Moves, Calls, Jobs
  <2>2. commands' \in 0..MaxCommands
    BY <1>3, BoundsAssumption DEF Provision, Command, Begin, TypeOK
  <2>3. UNCHANGED <<ctr, net, dataVars, cacheVars, spoiled, mishaps>>
    BY <1>3 DEF Provision, Command, Begin
  <2>. QED
    BY <2>1, <2>2, <2>3, TypeParts, TypePartsNext DEF Rest, dataVars, cacheVars, NamesUnique
<1>4. CASE (ServerReady(p) \/ AwaitStreaming(p) \/ VerifyWritable(p) \/ GrantReplication(p)) /\ ~Finish(p)
  <2>1. proc' \in [Procs -> JobState]
    BY <1>4, GotoMoves, JobMoves
       DEF ServerReady, AwaitStreaming, VerifyWritable, GrantReplication, Moves, Calls, Jobs, Promotion
  <2>2. UNCHANGED <<ctr, net, dataVars, cacheVars, spoiled, boundVars>>
    BY <1>4 DEF ServerReady, AwaitStreaming, VerifyWritable, GrantReplication
  <2>. QED
    BY <2>1, <2>2, TypeParts, TypePartsNext DEF Rest, dataVars, cacheVars, boundVars, NamesUnique
<1>5. CASE AttachAlias(p)
  <2>1. proc' \in [Procs -> JobState]
    BY <1>5, EndingMoves, JobMoves DEF AttachAlias, Moves, Calls, Jobs
  <2>2. net' \in [Nets -> [Ids -> Located]]
    BY <1>5, TheNamed, TypeParts DEF AttachAlias, Located
  <2>3. UNCHANGED <<ctr, dataVars, cacheVars, spoiled, boundVars>>
    BY <1>5 DEF AttachAlias
  <2>. QED
    BY <2>1, <2>2, <2>3, TypeParts, TypePartsNext DEF Rest, dataVars, cacheVars, boundVars, NamesUnique
<1>6. CASE CheckAlive(p) /\ ~Finish(p)
  <2>1. Goto(p, "fence") /\ spoiled' = (spoiled \/ Promoting(p)) /\ UNCHANGED <<ctr, net, dataVars, cacheVars, commands>>
    BY <1>6 DEF CheckAlive
  <2>2. mishaps' \in 0..MaxMishaps
    BY <1>6, MishapType DEF CheckAlive, TypeOK
  <2>3. proc' \in [Procs -> JobState]
    BY <2>1, GotoMoves DEF Moves, Calls, Promotion
  <2>4. spoiled' \in BOOLEAN
    BY <2>1 DEF TypeOK
  <2>. QED
    BY <2>1, <2>2, <2>3, <2>4, TypeParts, TypePartsNext DEF Rest, dataVars, cacheVars, NamesUnique
<1>7. CASE Raise(p) \/ Die(p)
  <2>1. proc' \in [Procs -> JobState]
    BY <1>7, EndingMoves DEF Raise, Die, Ending, Moves
  <2>2. mishaps' \in 0..MaxMishaps
    BY <1>7, MishapType DEF Raise, Die
  <2>3. 0 \in 0..Probes
    BY BoundsAssumption
  <2>5. downs' \in 0..Probes /\ seen' \in BOOLEAN
    BY <1>7, <2>3 DEF Raise, Die, Ending, cacheVars, TypeOK
  <2>6. cooling' \in BOOLEAN /\ spoiled' \in BOOLEAN
    BY <1>7 DEF Raise, Die, Ending, cacheVars, TypeOK
  <2>4. UNCHANGED <<ctr, net, dataVars, commands>>
    BY <1>7 DEF Raise, Die
  <2>. QED
    BY <2>1, <2>2, <2>4, <2>5, <2>6, TypeParts, TypePartsNext DEF Rest, dataVars, NamesUnique
<1>. QED
  BY <1>1, <1>2, <1>3, <1>4, <1>5, <1>6, <1>7

\* A change of the run keeps every type, and every name.
LEMMA RunsNames ==
  ASSUME TypeOK, NEW c \in Ids, NEW r, Runs1(c, r)
  PROVE  ctr' \in [Ids -> Container] /\ NamesUnique'
<1>1. ctr' \in [Ids -> Container] /\ \A d \in Ids : ctr'[d].name = ctr[d].name
  BY DEF Runs1
<1>. QED
  BY <1>1, NamesKept

LEMMA CallNames ==
  /\ Calls = {"idle", "check", "server", "ready", "attach", "claim", "seed", "wake", "stream", "sweep",
              "fence", "promote", "verify", "aliases", "aside", "take", "grant"}
  /\ Promotion \subseteq Calls
  BY DEF Calls, Promotion

\* Steps of the containers' side: what a step of a job does to them ...
LEMMA ContainersType ==
  ASSUME TypeOK, NEW p \in Procs,
         \/ EnsureServer(p) \/ ClaimVolume(p) \/ CreateStandby(p) \/ StartStandby(p) \/ SweepVolumes(p)
         \/ Fence(p) \/ Promote(p) \/ MoveAliases(p) \/ SetAside(p) \/ TakeName(p)
  PROVE  TypeOK'
<1>a. TypeOK /\ UNCHANGED ctr => ctr' \in [Ids -> Container] /\ NamesUnique'
  BY TypeParts DEF NamesUnique
<1>b. "main" \in Volumes /\ "replica" \in Volumes /\ Fresh \subseteq Volumes
  BY DEF Volumes
<1>1. CASE Finish(p)
  BY <1>1, FinishMoves, TypeParts, TypePartsNext DEF Moves, Rest, dataVars, boundVars, NamesUnique
<1>2. CASE EnsureServer(p)
  <2>1. /\ Goto(p, "ready") /\ UNCHANGED <<dataVars, cacheVars, boundVars>>
        /\ spoiled' = spoiled \/ spoiled' = (spoiled \/ Promoting(p))
        /\ \/ UNCHANGED <<ctr, net>>
           \/ (~Has("shared") /\ Create("shared", "main", "primary"))
           \/ (Has("shared") /\ Start("shared") /\ UNCHANGED net)
    BY <1>2 DEF EnsureServer
  <2>2. ctr' \in [Ids -> Container] /\ NamesUnique'
    <3>1. CASE UNCHANGED <<ctr, net>>
      BY <3>1, <1>a
    <3>2. CASE ~Has("shared") /\ Create("shared", "main", "primary")
      BY <3>2, <1>b, CreateAdds, NamesCreated DEF Names, Runs
    <3>3. CASE Has("shared") /\ Start("shared")
      BY <3>3, StartRuns, RunsNames, TheNamed
    <3>. QED
      BY <2>1, <3>1, <3>2, <3>3
  <2>3. net' \in [Nets -> [Ids -> Located]]
    BY <2>1, <1>b, CreateAdds, TypeParts DEF Names, Runs
  <2>4. proc' \in [Procs -> JobState]
    BY <2>1, GotoMoves, CallNames DEF Moves
  <2>5. Rest'
    BY <2>1 DEF Rest, TypeOK, dataVars, cacheVars, boundVars
  <2>. QED
    BY <2>1, <2>2, <2>3, <2>4, <2>5, TypeParts, TypePartsNext DEF dataVars
<1>3. CASE ClaimVolume(p) /\ ~Finish(p)
  <2>1. CASE Reseeds(p)
    <3>1. /\ ctr' = [c \in Ids |-> IF ctr[c].name = "standby" THEN NoCtr ELSE ctr[c]]
          /\ net' = [n \in Nets |-> [c \in Ids |-> IF ctr[c].name = "standby" THEN "off" ELSE net[n][c]]]
          /\ UNCHANGED <<dataVars, cacheVars, boundVars>> /\ spoiled' = (spoiled \/ Promoting(p))
      BY <1>3, <2>1 DEF ClaimVolume
    <3>2. PICK v \in Fresh : Seed(p, v)
      BY <1>3, <2>1 DEF ClaimVolume
    <3>3. NoCtr \in Container /\ NoCtr.name = ""
      BY DEF NoCtr, Container, Names, Volumes, Runs
    <3>4. ctr' \in [Ids -> Container] /\ NamesUnique'
      BY <3>1, <3>3, TypeParts, NamesKept
    <3>5. net' \in [Nets -> [Ids -> Located]]
      BY <3>1, TypeParts DEF Located
    <3>6. proc' \in [Procs -> JobState]
      BY <3>2, <1>b, SeedMoves DEF Moves
    <3>7. Rest'
      BY <3>1 DEF Rest, TypeOK, dataVars, cacheVars, boundVars
    <3>. QED
      BY <3>1, <3>4, <3>5, <3>6, <3>7, TypeParts, TypePartsNext DEF dataVars
  <2>2. CASE ~Reseeds(p)
    <3>1. /\ Seed(p, "replica") /\ UNCHANGED <<ctr, net, dataVars, cacheVars, commands>>
          /\ \/ Mishap("api") /\ spoiled' = TRUE
             \/ UNCHANGED <<spoiled, mishaps>>
      BY <1>3, <2>2 DEF ClaimVolume, boundVars
    <3>2. mishaps' \in 0..MaxMishaps
      BY <3>1, MishapType DEF TypeOK
    <3>3. Rest'
      BY <3>1, <3>2 DEF Rest, TypeOK, dataVars, cacheVars
    <3>4. proc' \in [Procs -> JobState]
      BY <3>1, <1>b, SeedMoves DEF Moves
    <3>. QED
      BY <3>1, <3>3, <3>4, <1>a, TypeParts, TypePartsNext DEF dataVars
  <2>. QED
    BY <2>1, <2>2
<1>4. CASE CreateStandby(p) \/ StartStandby(p)
  <2>1. /\ \/ Goto(p, "wake")
           \/ Goto(p, "stream")
        /\ UNCHANGED <<dataVars, cacheVars, spoiled, boundVars>>
        /\ \/ UNCHANGED <<ctr, net>>
           \/ (~Has("standby") /\ Create("standby", proc[p].vol, "seeding"))
           \/ (Has("standby") /\ Start("standby") /\ UNCHANGED net)
    BY <1>4 DEF CreateStandby, StartStandby
  <2>2. proc[p].vol \in Volumes
    BY TypeParts DEF JobState
  <2>3. ctr' \in [Ids -> Container] /\ NamesUnique'
    <3>1. CASE UNCHANGED <<ctr, net>>
      BY <3>1, <1>a
    <3>2. CASE ~Has("standby") /\ Create("standby", proc[p].vol, "seeding")
      BY <3>2, <2>2, CreateAdds, NamesCreated DEF Names, Runs
    <3>3. CASE Has("standby") /\ Start("standby")
      BY <3>3, StartRuns, RunsNames, TheNamed
    <3>. QED
      BY <2>1, <3>1, <3>2, <3>3
  <2>4. net' \in [Nets -> [Ids -> Located]]
    BY <2>1, <2>2, CreateAdds, TypeParts DEF Names, Runs
  <2>5. proc' \in [Procs -> JobState]
    BY <2>1, GotoMoves, CallNames DEF Moves
  <2>6. Rest'
    BY <2>1 DEF Rest, TypeOK, dataVars, cacheVars, boundVars
  <2>. QED
    BY <2>1, <2>3, <2>4, <2>5, <2>6, TypeParts, TypePartsNext DEF dataVars
<1>5. CASE SweepVolumes(p)
  <2>1. /\ data' = [v \in Volumes |-> IF v \notin {"main", proc[p].vol} /\ Users(v) = {} THEN {} ELSE data[v]]
        /\ Ending(p) /\ UNCHANGED <<ctr, net, written, due, spoiled, boundVars>>
    BY <1>5 DEF SweepVolumes
  <2>2. data' \in [Volumes -> SUBSET (1..MaxWrites)]
    BY <2>1, TypeParts
  <2>3. proc' \in [Procs -> JobState]
    BY <2>1, EndingMoves DEF Ending, Moves
  <2>4. 0 \in 0..Probes
    BY BoundsAssumption
  <2>5. downs' \in 0..Probes /\ seen' \in BOOLEAN /\ cooling' \in BOOLEAN
    BY <2>1, <2>4 DEF Ending, TypeOK
  <2>6. Rest'
    BY <2>1, <2>5 DEF Rest, TypeOK, boundVars
  <2>. QED
    BY <2>1, <2>2, <2>3, <2>6, <1>a, TypeParts, TypePartsNext
<1>6. CASE Fence(p)
  <2>1. /\ Goto(p, "promote") /\ UNCHANGED <<net, dataVars, cacheVars, commands>>
        /\ \/ UNCHANGED <<mishaps, spoiled>>
           \/ Mishap("api") /\ spoiled' = TRUE
        /\ \/ UNCHANGED ctr
           \/ ctr' = [c \in Ids |-> IF ctr[c].name = "shared" THEN [ctr[c] EXCEPT !.run = "down"] ELSE ctr[c]]
    BY <1>6 DEF Fence
  <2>2. ctr' \in [Ids -> Container] /\ NamesUnique'
    <3>1. CASE UNCHANGED ctr
      BY <3>1, <1>a
    <3>2. CASE ctr' = [c \in Ids |-> IF ctr[c].name = "shared" THEN [ctr[c] EXCEPT !.run = "down"] ELSE ctr[c]]
      <4>1. \A c \in Ids : /\ [ctr[c] EXCEPT !.run = "down"] \in Container /\ ctr[c] \in Container
                           /\ [ctr[c] EXCEPT !.run = "down"].name = ctr[c].name
        BY TypeParts DEF Container, Runs
      <4>. QED
        BY <3>2, <4>1, NamesKept
    <3>. QED
      BY <2>1, <3>1, <3>2
  <2>3. mishaps' \in 0..MaxMishaps
    BY <2>1, MishapType DEF TypeOK
  <2>4. Rest'
    BY <2>1, <2>3 DEF Rest, TypeOK, dataVars, cacheVars
  <2>5. proc' \in [Procs -> JobState]
    BY <2>1, GotoMoves, CallNames DEF Moves
  <2>. QED
    BY <2>1, <2>2, <2>4, <2>5, TypeParts, TypePartsNext DEF dataVars
<1>7. CASE Promote(p) /\ ~Finish(p)
  <2>1. /\ InState("standby", {"standby"}) /\ ctr' = [ctr EXCEPT ![The("standby")].run = "primary"]
        /\ due' = due \cap data[ctr[The("standby")].vol]
        /\ Goto(p, "verify") /\ UNCHANGED <<net, data, written, cacheVars, spoiled, boundVars>>
    BY <1>7 DEF Promote
  <2>2. The("standby") \in Ids /\ "primary" \in Runs
    BY <2>1, TheNamed DEF InState, Has, Runs
  <2>3. ctr' \in [Ids -> Container] /\ NamesUnique'
    BY <2>1, <2>2, RunUpdate, RunsNames
  <2>4. Rest'
    BY <2>1 DEF Rest, TypeOK, cacheVars, boundVars
  <2>5. proc' \in [Procs -> JobState]
    BY <2>1, GotoMoves, CallNames DEF Moves
  <2>. QED
    BY <2>1, <2>3, <2>4, <2>5, TypeParts, TypePartsNext
<1>8. CASE MoveAliases(p)
  <2>1. /\ UNCHANGED proc \/ Goto(p, "aside")
        /\ UNCHANGED <<ctr, dataVars, cacheVars, spoiled, boundVars>>
        /\ \/ UNCHANGED net
           \/ \E n \in Nets :
                net' = [net EXCEPT ![n] = [c \in Ids |->
                          CASE ctr[c].name = "shared" -> "off"
                            [] ctr[c].name = "standby" /\ net[n][c] = "off" -> "alias"
                            [] OTHER -> net[n][c]]]
    BY <1>8 DEF MoveAliases
  <2>2. net' \in [Nets -> [Ids -> Located]]
    BY <2>1, TypeParts DEF Located
  <2>3. proc' \in [Procs -> JobState]
    BY <2>1, GotoMoves, CallNames, TypeParts DEF Moves
  <2>4. Rest'
    BY <2>1 DEF Rest, TypeOK, dataVars, cacheVars, boundVars
  <2>. QED
    BY <2>1, <2>2, <2>3, <2>4, <1>a, TypeParts, TypePartsNext DEF dataVars
<1>9. CASE SetAside(p) \/ TakeName(p)
  <2>1. /\ Goto(p, "take") \/ Goto(p, "grant")
        /\ UNCHANGED <<net, dataVars, cacheVars, commands>>
        /\ \/ UNCHANGED mishaps
           \/ Mishap("api")
        /\ spoiled' = TRUE \/ spoiled' = (spoiled \/ \E q \in Procs : proc[q].at = "seed")
    BY <1>9 DEF SetAside, TakeName, Rename
  <2>2. ctr' \in [Ids -> Container] /\ NamesUnique'
    <3>1. CASE UNCHANGED ctr
      BY <3>1, <1>a
    <3>2. CASE SetAside(p) /\ ~UNCHANGED ctr
      <4>1. ctr' = [c \in Ids |-> IF ctr[c].name = "shared" /\ ("fenced" = "fenced" \/ ~Has("fenced"))
                                   THEN [ctr[c] EXCEPT !.name = "fenced"] ELSE ctr[c]]
        BY <3>2 DEF SetAside, Rename
      <4>2. /\ ctr' \in [Ids -> Container]
            /\ \A c \in Ids : ctr'[c].name = IF ctr[c].name = "shared" THEN "fenced" ELSE ctr[c].name
        BY <4>1, RenameType
      <4>. QED
        BY <4>2, NamesKept
    <3>3. CASE TakeName(p) /\ ~UNCHANGED ctr
      <4>1. ctr' = [c \in Ids |-> IF ctr[c].name = "standby" /\ ("shared" = "fenced" \/ ~Has("shared"))
                                   THEN [ctr[c] EXCEPT !.name = "shared"] ELSE ctr[c]]
        BY <3>3 DEF TakeName, Rename
      <4>2. /\ ctr' \in [Ids -> Container]
            /\ \A c \in Ids : ctr'[c].name = IF ctr[c].name = "standby" /\ ~Has("shared") THEN "shared" ELSE ctr[c].name
        BY <4>1, RenameType
      <4>. QED
        BY <4>2 DEF NamesUnique, TypeOK, Has
    <3>. QED
      BY <1>9, <3>1, <3>2, <3>3
  <2>3. mishaps' \in 0..MaxMishaps
    BY <2>1, MishapType DEF TypeOK
  <2>4. Rest'
    BY <2>1, <2>3 DEF Rest, TypeOK, dataVars, cacheVars
  <2>5. proc' \in [Procs -> JobState]
    BY <2>1, GotoMoves, CallNames DEF Moves
  <2>. QED
    BY <2>1, <2>2, <2>4, <2>5, TypeParts, TypePartsNext DEF dataVars
<1>. QED
  BY <1>1, <1>2, <1>3, <1>4, <1>5, <1>6, <1>7, <1>8, <1>9

\* ... and what Postgres, its clients, mishaps and time do.
LEMMA DatabaseType ==
  ASSUME TypeOK, NEW c \in Ids, Database(c) \/ Write(c) \/ Stop(c) \/ Crash(c)
  PROVE  TypeOK'
<1>a. ctr[c].vol \in Volumes /\ \A v \in Volumes : data[v] \subseteq 1..MaxWrites
  BY TypeParts DEF Container
<1>b. UNCHANGED ctr => ctr' \in [Ids -> Container] /\ NamesUnique'
  BY TypeParts DEF NamesUnique
<1>c. ASSUME InState("shared", {"primary"}) \/ Source(c) PROVE ctr[The("shared")].vol \in Volumes
  <2>1. The("shared") \in Ids
    BY <1>c, TheNamed DEF Source, InState, Has
  <2>. QED
    BY <2>1, TypeParts DEF Container
<1>d. \A r \in Runs : ctr' = [ctr EXCEPT ![c].run = r] => ctr' \in [Ids -> Container] /\ NamesUnique'
  BY RunUpdate, RunsNames
<1>1. CASE Database(c)
  <2>1. UNCHANGED <<net, proc, cacheVars, written, due, spoiled, boundVars>>
    BY <1>1 DEF Database, Wipe, Copy, Replicate
  <2>2. ctr' \in [Ids -> Container] /\ NamesUnique'
    BY <1>1, <1>b, <1>d DEF Database, Wipe, Copy, Replicate, Runs
  <2>3. data' \in [Volumes -> SUBSET (1..MaxWrites)]
    <3>1. CASE Wipe(c)
      BY <3>1, <1>a, TypeParts DEF Wipe
    <3>2. CASE Copy(c)
      BY <3>2, <1>a, <1>c, TypeParts DEF Copy
    <3>3. CASE Replicate(c)
      BY <3>3, <1>a, <1>c, TypeParts DEF Replicate, Streams
    <3>. QED
      BY <1>1, <3>1, <3>2, <3>3 DEF Database
  <2>4. Rest'
    BY <2>1 DEF Rest, TypeOK, cacheVars, boundVars
  <2>. QED
    BY <2>1, <2>2, <2>3, <2>4, TypeParts, TypePartsNext
<1>2. CASE Write(c)
  <2>1. /\ written < MaxWrites /\ written' = written + 1
        /\ data' = [data EXCEPT ![ctr[c].vol] = @ \cup {written + 1}]
        /\ due' = due \cup {written + 1}
        /\ UNCHANGED <<ctr, net, proc, cacheVars, spoiled, boundVars>>
    BY <1>2 DEF Write
  <2>2. written \in Nat /\ written + 1 \in 1..MaxWrites /\ due \subseteq 1..written
    BY <2>1, BoundsAssumption DEF TypeOK
  <2>3. data' \in [Volumes -> SUBSET (1..MaxWrites)]
    BY <2>1, <2>2, <1>a, TypeParts
  <2>4. due' \subseteq 1..written' /\ written' \in 0..MaxWrites
    BY <2>1, <2>2, BoundsAssumption
  <2>5. Rest'
    BY <2>1, <2>4 DEF Rest, TypeOK, cacheVars, boundVars
  <2>. QED
    BY <2>1, <2>3, <2>5, <1>b, TypeParts, TypePartsNext
<1>3. CASE Stop(c) \/ Crash(c)
  <2>1. UNCHANGED <<net, dataVars, proc, cacheVars, spoiled, commands>>
    BY <1>3 DEF Stop, Crash
  <2>2. ctr' \in [Ids -> Container] /\ NamesUnique'
    BY <1>3, <1>d DEF Stop, Crash, Runs
  <2>3. mishaps' \in 0..MaxMishaps
    BY <1>3, MishapType DEF Stop, Crash
  <2>4. Rest'
    BY <2>1, <2>3 DEF Rest, TypeOK, dataVars, cacheVars
  <2>. QED
    BY <2>1, <2>2, <2>4, TypeParts, TypePartsNext DEF dataVars
<1>. QED
  BY <1>1, <1>2, <1>3

LEMMA TypeStep == TypeOK /\ [Next]_vars => TypeOK'
<1>. SUFFICES ASSUME TypeOK, [Next]_vars PROVE TypeOK'
  OBVIOUS
<1>1. ASSUME NEW p \in Watchers, Watch(p) PROVE TypeOK'
  <2>1. p \in Procs
    BY DEF Procs
  <2>. QED
    BY <1>1, <2>1, JobsType
<1>2. ASSUME NEW p \in Procs, Provision(p) \/ Command(p) \/ Step(p) \/ Raise(p) \/ Die(p) PROVE TypeOK'
  BY <1>2, JobsType, ContainersType DEF Step, Standby, Failover
<1>3. ASSUME NEW c \in Ids, Database(c) \/ Write(c) \/ Stop(c) \/ Crash(c) PROVE TypeOK'
  BY <1>3, DatabaseType
<1>4. CASE HeartbeatAges \/ CooldownEnds
  <2>1. mishaps' \in 0..MaxMishaps
    BY <1>4, MishapType DEF HeartbeatAges, CooldownEnds, boundVars, TypeOK
  <2>. QED
    BY <1>4, <2>1 DEF HeartbeatAges, CooldownEnds, TypeOK, dataVars, boundVars
<1>5. CASE UNCHANGED vars
  BY <1>5 DEF vars, TypeOK, dataVars, cacheVars, boundVars
<1>. QED
  BY <1>1, <1>2, <1>3, <1>4, <1>5 DEF Next, Procs

\* Every variable stays in its domain, and no two containers have the server's or the
\* standby's name, whichever jobs create, rename and remove them at once.
THEOREM TypeCorrect == Spec => []TypeOK
  BY TypeInit, TypeStep, PTL DEF Spec

---------------------------------------------------------------------------
(* The invariant.  A promotion is a sequence of calls, and another job may   *)
(* create, start, seed or sweep between any two of them: the invariant says  *)
(* what each of its calls has left behind.                                   *)

\* From the fence on the server is down; from the promotion on the standby has its data;
\* from the aliases on the clients write to it.
Past   == {"promote", "verify", "aliases", "aside", "take"}
Half   == {"verify", "aliases", "aside", "take"}
Moved  == {"aliases", "aside", "take"}
SomeAt(S) == \E p \in Procs : proc[p].at \in S

\* Whatever happens: an unused place runs nothing, and a standby is never on the server's volume.
Shape ==
  /\ \A c \in Ids : ctr[c].name = "" => ctr[c].run = "down"
  /\ \A c \in Ids : ctr[c].name = "standby" => ctr[c].vol # "main"
  /\ \A p \in Procs : proc[p].at = "seed" => proc[p].vol # "main"

OnePromotion  == \A p, q \in Procs : proc[p].at \in Promotion /\ proc[q].at \in Promotion => p = q
ServerFenced  == \A c \in Ids : ctr[c].name = "shared" =>
                   /\ ctr[c].run \in {"down", "seeding", "primary"}
                   /\ SomeAt(Past) => ctr[c].run = "down"
                   /\ ~SomeAt({"take"})
StandbyKeeps  == SomeAt(Half) =>
                   \E c \in Ids : /\ ctr[c].name = "standby" /\ ctr[c].run \in {"down", "seeding", "primary"}
                                  /\ due \subseteq data[ctr[c].vol]
ServerKeeps   == ~SomeAt(Moved) => \E c \in Ids : ctr[c].name = "shared" /\ due \subseteq data[ctr[c].vol]
Writers       == \A c \in Ids : ctr[c].run = "primary" =>
                   ctr[c].name = "shared" \/ (ctr[c].name = "standby" /\ SomeAt(Half))
FencedStopped == \A c \in Ids : ctr[c].name = "fenced" => ctr[c].run = "down"
OwnVolumes    == \A c, d \in Ids : ctr[c].name # "" /\ ctr[d].name # "" /\ ctr[c].vol = ctr[d].vol => c = d
SeedsAlone    == \A p \in Procs, c \in Ids :
                   proc[p].at = "seed" /\ ctr[c].name # "" /\ ctr[c].vol = proc[p].vol => ctr[c].name = "standby"
AliasesMove   == \A c \in Ids, n \in Nets : ctr[c].name = "standby" /\ net[n][c] = "alias" => SomeAt(Moved)

Promise ==
  /\ OnePromotion /\ ServerFenced /\ StandbyKeeps /\ ServerKeeps /\ Writers
  /\ FencedStopped /\ OwnVolumes /\ SeedsAlone /\ AliasesMove

PgInv == Shape /\ (~spoiled => Promise)

---------------------------------------------------------------------------
(* Three ways a step may leave the invariant alone *)

LEMMA SomeAtMoves ==
  ASSUME NEW p \in Procs, NEW at, Moves(p, at), NEW S
  PROVE  /\ SomeAt(S)' <=> (at \in S \/ \E q \in Procs \ {p} : proc[q].at \in S)
         /\ SomeAt(S) <=> (proc[p].at \in S \/ \E q \in Procs \ {p} : proc[q].at \in S)
  BY DEF SomeAt, Moves

\* A job goes on, and nothing else changes: it does not enter a call of a promotion that
\* finds more done than it has done.
LEMMA JobPromise ==
  ASSUME TypeOK, Promise, NEW p \in Procs, NEW at, Moves(p, at), UNCHANGED <<ctr, data, due>>,
         \A c \in Ids, n \in Nets : ctr[c].name = "standby" /\ net'[n][c] = "alias" => net[n][c] = "alias",
         at \in Promotion => proc[p].at \in Promotion \/ ~Promoting(p),
         at \in Past => proc[p].at \in Past,
         at \in Half => proc[p].at \in Half,
         at \in {"take"} => proc[p].at \in {"take"},
         proc[p].at \in Moved => at \in Moved,
         proc[p].at \in Half /\ at \notin Half => \A c \in Ids : ctr[c].name = "standby" => ctr[c].run # "primary",
         at # "seed"
  PROVE  Promise'
<1>1. OnePromotion'
  BY DEF Promise, OnePromotion, Moves, Promoting
<1>2. /\ SomeAt(Past)' => SomeAt(Past)
      /\ SomeAt({"take"})' => SomeAt({"take"})
      /\ SomeAt(Half)' => SomeAt(Half)
      /\ SomeAt(Moved) => SomeAt(Moved)'
      /\ SomeAt(Half) /\ ~SomeAt(Half)' => \A c \in Ids : ctr[c].name = "standby" => ctr[c].run # "primary"
  <2>1. /\ SomeAt(Past)' <=> (at \in Past \/ \E q \in Procs \ {p} : proc[q].at \in Past)
        /\ SomeAt(Past) <=> (proc[p].at \in Past \/ \E q \in Procs \ {p} : proc[q].at \in Past)
    BY SomeAtMoves
  <2>2. /\ SomeAt(Half)' <=> (at \in Half \/ \E q \in Procs \ {p} : proc[q].at \in Half)
        /\ SomeAt(Half) <=> (proc[p].at \in Half \/ \E q \in Procs \ {p} : proc[q].at \in Half)
    BY SomeAtMoves
  <2>3. /\ SomeAt(Moved)' <=> (at \in Moved \/ \E q \in Procs \ {p} : proc[q].at \in Moved)
        /\ SomeAt(Moved) <=> (proc[p].at \in Moved \/ \E q \in Procs \ {p} : proc[q].at \in Moved)
    BY SomeAtMoves
  <2>4. /\ SomeAt({"take"})' <=> (at \in {"take"} \/ \E q \in Procs \ {p} : proc[q].at \in {"take"})
        /\ SomeAt({"take"}) <=> (proc[p].at \in {"take"} \/ \E q \in Procs \ {p} : proc[q].at \in {"take"})
    BY SomeAtMoves
  <2>. QED
    BY <2>1, <2>2, <2>3, <2>4
<1>3. ServerFenced' /\ StandbyKeeps' /\ ServerKeeps'
  BY <1>2 DEF Promise, ServerFenced, StandbyKeeps, ServerKeeps
<1>4. Writers' /\ FencedStopped' /\ OwnVolumes'
  BY <1>2 DEF Promise, Writers, FencedStopped, OwnVolumes
<1>5. SeedsAlone'
  BY DEF Promise, SeedsAlone, Moves
<1>6. AliasesMove'
  BY <1>2 DEF Promise, AliasesMove
<1>. QED
  BY <1>1, <1>3, <1>4, <1>5, <1>6 DEF Promise

\* No job enters, leaves or goes on in a promotion, or comes to seed.
Aside == \A q \in Procs :
           proc'[q] = proc[q] \/ (proc[q].at \notin Promotion /\ proc'[q].at \notin Promotion \cup {"seed"})

LEMMA AsideKeeps ==
  ASSUME TypeOK, Aside, NEW S \in SUBSET Promotion
  PROVE  SomeAt(S)' <=> SomeAt(S)
  BY DEF Aside, SomeAt

\* Only the run of one container changes, or what is on volumes that nobody relies on.
LEMMA RunPromise ==
  ASSUME TypeOK, Promise, Aside, NEW c \in Ids, NEW r \in Runs, Runs1(c, r), UNCHANGED net,
         r # ctr[c].run => ctr[c].name # "fenced",
         r = "primary" /\ r # ctr[c].run => ctr[c].name = "shared",
         ctr[c].name = "shared" => r \in {"down", "seeding", "primary"} /\ (SomeAt(Past) => r = "down"),
         ctr[c].name = "standby" /\ SomeAt(Half) => r \in {"down", "seeding", "primary"},
         \A d \in Ids : (ctr[d].name = "shared" /\ ~SomeAt(Moved)) \/ (ctr[d].name = "standby" /\ SomeAt(Half))
                          => (due \subseteq data[ctr[d].vol] => due' \subseteq data'[ctr[d].vol])
  PROVE  Promise'
<1>1. /\ SomeAt(Past)' <=> SomeAt(Past)
      /\ SomeAt(Half)' <=> SomeAt(Half)
      /\ SomeAt(Moved)' <=> SomeAt(Moved)
      /\ SomeAt({"take"})' <=> SomeAt({"take"})
  BY AsideKeeps DEF Past, Half, Moved, Promotion
<1>2. \A d \in Ids : /\ ctr'[d].name = ctr[d].name /\ ctr'[d].vol = ctr[d].vol
                     /\ ctr'[d].run = IF d = c THEN r ELSE ctr[d].run
  BY DEF Runs1
<1>3. OnePromotion'
  BY DEF Promise, OnePromotion, Aside
<1>4. ServerFenced'
  BY <1>1, <1>2 DEF Promise, ServerFenced
<1>5. StandbyKeeps'
  <2>. SUFFICES ASSUME SomeAt(Half)
                PROVE  \E d \in Ids : /\ ctr'[d].name = "standby" /\ ctr'[d].run \in {"down", "seeding", "primary"}
                                      /\ due' \subseteq data'[ctr'[d].vol]
    BY <1>1 DEF StandbyKeeps
  <2>1. PICK d \in Ids : /\ ctr[d].name = "standby" /\ ctr[d].run \in {"down", "seeding", "primary"}
                         /\ due \subseteq data[ctr[d].vol]
    BY DEF Promise, StandbyKeeps
  <2>. QED
    BY <1>2, <2>1
<1>6. ServerKeeps'
  <2>. SUFFICES ASSUME ~SomeAt(Moved)
                PROVE  \E d \in Ids : ctr'[d].name = "shared" /\ due' \subseteq data'[ctr'[d].vol]
    BY <1>1 DEF ServerKeeps
  <2>1. PICK d \in Ids : ctr[d].name = "shared" /\ due \subseteq data[ctr[d].vol]
    BY DEF Promise, ServerKeeps
  <2>. QED
    BY <1>2, <2>1
<1>7. Writers' /\ FencedStopped'
  BY <1>1, <1>2 DEF Promise, Writers, FencedStopped
<1>8. OwnVolumes'
  BY <1>2 DEF Promise, OwnVolumes
<1>9. SeedsAlone'
  BY <1>2 DEF Promise, SeedsAlone, Aside
<1>10. AliasesMove'
  BY <1>1, <1>2 DEF Promise, AliasesMove
<1>. QED
  BY <1>3, <1>4, <1>5, <1>6, <1>7, <1>8, <1>9, <1>10 DEF Promise

---------------------------------------------------------------------------
(* The steps of the jobs *)

LEMMA JobsPromise ==
  ASSUME TypeOK, Promise, ~spoiled', NEW p \in Procs,
         \/ p \in Watchers /\ Watch(p)
         \/ Provision(p) \/ Command(p) \/ ServerReady(p) \/ AttachAlias(p) \/ AwaitStreaming(p) \/ CheckAlive(p)
         \/ VerifyWritable(p) \/ GrantReplication(p) \/ Raise(p) \/ Die(p)
  PROVE  Promise'
<1>. USE DEF dataVars
<1>1. CASE UNCHANGED proc /\ UNCHANGED <<ctr, net, data, due>>
  BY <1>1 DEF Promise, OnePromotion, ServerFenced, StandbyKeeps, ServerKeeps, Writers, FencedStopped, OwnVolumes,
              SeedsAlone, AliasesMove, SomeAt
<1>2. ASSUME Finish(p), proc[p].at \notin Half PROVE Promise'
  <2>1. Moves(p, "idle") /\ UNCHANGED <<ctr, net, data, due>>
    BY <1>2, FinishMoves
  <2>. QED
    BY <1>2, <2>1, JobPromise DEF Half, Moved, Past, Promotion
<1>3. ASSUME NEW at \in {"check", "server", "ready", "attach", "claim", "sweep", "idle"}, Moves(p, at),
             proc[p].at \notin Half, UNCHANGED <<ctr, net, data, due>>
      PROVE  Promise'
  BY <1>3, JobPromise DEF Half, Moved, Past, Promotion
<1>4. CASE p \in Watchers /\ Watch(p)
  <2>1. proc[p].at \notin Half /\ UNCHANGED <<ctr, net, data, due>>
    BY <1>4 DEF Watch, Half
  <2>2. UNCHANGED proc \/ Moves(p, "server") \/ Moves(p, "check")
    BY <1>4, BeginMoves DEF Watch, Jobs, Calls
  <2>. QED
    BY <2>1, <2>2, <1>1, <1>3
<1>5. CASE Provision(p) \/ Command(p)
  <2>1. proc[p].at \notin Half /\ UNCHANGED <<ctr, net, data, due>>
    BY <1>5 DEF Provision, Command, Begin, Half
  <2>2. Moves(p, "server") \/ Moves(p, "check")
    BY <1>5, BeginMoves DEF Provision, Command, Begin, Jobs, Calls
  <2>. QED
    BY <2>1, <2>2, <1>3
<1>6. CASE ServerReady(p) \/ AwaitStreaming(p) \/ GrantReplication(p)
  <2>1. proc[p].at \notin Half
    BY <1>6 DEF ServerReady, AwaitStreaming, GrantReplication, Half
  <2>2. CASE Finish(p)
    BY <2>1, <2>2, <1>2
  <2>3. CASE ~Finish(p)
    <3>1. UNCHANGED <<ctr, net, data, due>>
      BY <1>6, <2>3 DEF ServerReady, AwaitStreaming, GrantReplication
    <3>2. Moves(p, "attach") \/ Moves(p, "claim") \/ Moves(p, "sweep") \/ Moves(p, "server")
      BY <1>6, <2>3, GotoMoves, JobMoves DEF ServerReady, AwaitStreaming, GrantReplication, Calls, Jobs
    <3>. QED
      BY <2>1, <3>1, <3>2, <1>3
  <2>. QED
    BY <2>2, <2>3
<1>7. CASE AttachAlias(p)
  <2>1. proc[p].at \notin Half /\ proc[p].at \notin Promotion /\ UNCHANGED <<ctr, data, due>>
    BY <1>7 DEF AttachAlias, Half, Promotion
  <2>2. Moves(p, "idle") \/ Moves(p, "server")
    BY <1>7, EndingMoves, JobMoves DEF AttachAlias, Calls, Jobs
  <2>3. ASSUME NEW c \in Ids, NEW n \in Nets, ctr[c].name = "standby" PROVE net'[n][c] = net[n][c]
    <3>1. Has("shared") => The("shared") # c
      BY <2>3, TheNamed
    <3>. QED
      BY <1>7, <3>1, TypeParts DEF AttachAlias
  <2>. QED
    BY <2>1, <2>2, <2>3, JobPromise DEF Half, Moved, Past, Promotion
<1>8. CASE CheckAlive(p)
  <2>1. CASE Finish(p)
    BY <1>8, <2>1, <1>2 DEF CheckAlive, Half
  <2>2. CASE ~Finish(p)
    <3>1. Goto(p, "fence") /\ ~Promoting(p) /\ UNCHANGED <<ctr, net, data, due>> /\ proc[p].at = "check"
      BY <1>8, <2>2 DEF CheckAlive
    <3>2. Moves(p, "fence")
      BY <3>1, GotoMoves DEF Calls, Promotion
    <3>. QED
      BY <3>1, <3>2, JobPromise DEF Half, Moved, Past, Promotion
  <2>. QED
    BY <2>1, <2>2
<1>9. CASE VerifyWritable(p)
  <2>1. CASE InState("standby", {"primary"})
    <3>1. Goto(p, "aliases") /\ UNCHANGED <<ctr, net, data, due>> /\ proc[p].at = "verify"
      BY <1>9, <2>1 DEF VerifyWritable
    <3>2. Moves(p, "aliases")
      BY <3>1, GotoMoves DEF Calls, Promotion
    <3>. QED
      BY <3>1, <3>2, JobPromise DEF Half, Moved, Past, Promotion
  <2>2. CASE ~InState("standby", {"primary"})
    <3>1. Finish(p) /\ proc[p].at = "verify"
      BY <1>9, <2>2 DEF VerifyWritable
    <3>2. Moves(p, "idle") /\ UNCHANGED <<ctr, net, data, due>>
      BY <3>1, FinishMoves
    <3>3. \A c \in Ids : ctr[c].name = "standby" => ctr[c].run # "primary"
      BY <2>2 DEF InState
    <3>. QED
      BY <3>1, <3>2, <3>3, JobPromise DEF Half, Moved, Past, Promotion
  <2>. QED
    BY <2>1, <2>2
<1>10. CASE Raise(p) \/ Die(p)
  <2>1. proc[p].at \notin Half /\ UNCHANGED <<ctr, net, data, due>>
    BY <1>10 DEF Raise, Die, HalfWay, Half
  <2>2. Moves(p, "idle")
    BY <1>10, EndingMoves DEF Raise, Die, Ending
  <2>. QED
    BY <2>1, <2>2, <1>3
<1>. QED
  BY <1>4, <1>5, <1>6, <1>7, <1>8, <1>9, <1>10

\* The volume of the server, or of the standby, is nobody else's.
LEMMA EnsurePromise ==
  ASSUME TypeOK, Shape, Promise, ~spoiled', NEW p \in Procs, EnsureServer(p)
  PROVE  Promise'
<1>. USE DEF dataVars
<1>1. proc[p].at = "server" /\ Goto(p, "ready") /\ UNCHANGED <<data, due>>
  BY DEF EnsureServer
<1>2. Moves(p, "ready")
  BY <1>1, GotoMoves DEF Calls
<1>3. CASE UNCHANGED <<ctr, net>>
  BY <1>1, <1>2, <1>3, JobPromise DEF Half, Moved, Past, Promotion
<1>4. CASE ~UNCHANGED <<ctr, net>>
  <2>1. ~Promoting(p)
    BY <1>4 DEF EnsureServer
  <2>2. ~SomeAt(Past) /\ ~SomeAt(Moved) /\ ~SomeAt(Half)
    BY <1>1, <2>1 DEF SomeAt, Promoting, Past, Moved, Half, Promotion
  <2>3. Has("shared")
    BY <2>2 DEF Promise, ServerKeeps, Has
  <2>4. ~Up("shared") /\ Start("shared") /\ UNCHANGED net
    BY <1>4, <2>3 DEF EnsureServer
  <2>. DEFINE c == The("shared")
  <2>5. c \in Ids /\ ctr[c].name = "shared" /\ Runs1(c, Boot(ctr[c].vol))
    BY <2>3, <2>4, TheNamed, StartRuns
  <2>6. Boot(ctr[c].vol) \in {"primary", "seeding"}
    BY DEF Boot
  <2>7. Aside
    BY <1>1, <1>2 DEF Aside, Moves, Promotion
  <2>. HIDE DEF c
  <2>. QED
    BY <1>1, <2>2, <2>4, <2>5, <2>6, <2>7, RunPromise DEF Runs
<1>. QED
  BY <1>3, <1>4

\* A seed goes to a volume that no other container has.
LEMMA ClaimPromise ==
  ASSUME TypeOK, Shape, Promise, ~spoiled', NEW p \in Procs, ClaimVolume(p)
  PROVE  Promise'
<1>. USE DEF dataVars
<1>a. proc[p].at = "claim"
  BY DEF ClaimVolume
<1>1. CASE Finish(p)
  <2>1. Moves(p, "idle") /\ UNCHANGED <<ctr, net, data, due>>
    BY <1>1, FinishMoves
  <2>. QED
    BY <1>a, <2>1, JobPromise DEF Half, Moved, Past, Promotion
<1>2. ASSUME NEW v \in Volumes, Seed(p, v), ~SomeAt(Promotion) \/ UNCHANGED <<ctr, net>>, UNCHANGED <<data, due>>,
             \A c \in Ids : ctr'[c] = ctr[c] \/ (ctr[c].name = "standby" /\ ctr'[c] = NoCtr),
             \A c \in Ids, n \in Nets : net'[n][c] = net[n][c] \/ net'[n][c] = "off",
             \A c \in Ids : ctr[c].name # "" /\ ctr[c].vol = v => ctr[c].name = "standby"
      PROVE  Promise'
  <2>1. Moves(p, "seed") /\ proc'[p].vol = v
    BY <1>2, SeedMoves
  <2>2. /\ SomeAt(Past)' <=> SomeAt(Past)
        /\ SomeAt(Half)' <=> SomeAt(Half)
        /\ SomeAt(Moved)' <=> SomeAt(Moved)
        /\ SomeAt({"take"})' <=> SomeAt({"take"})
        /\ SomeAt(Half) \/ SomeAt(Past) \/ SomeAt(Moved) => SomeAt(Promotion)
    BY <1>a, <2>1 DEF SomeAt, Moves, Past, Half, Moved, Promotion
  <2>d. NoCtr.name = "" /\ NoCtr.run = "down"
    BY DEF NoCtr
  <2>3. \A c \in Ids : ctr'[c] = ctr[c] \/ (ctr'[c].name = "" /\ ctr'[c].run = "down")
    BY <1>2, <2>d
  <2>a. \A c \in Ids : ctr'[c].name # "" => ctr'[c].name = ctr[c].name /\ ctr'[c].vol = ctr[c].vol
    BY <2>3
  <2>b. \A c \in Ids, n \in Nets : net'[n][c] = "alias" => net[n][c] = "alias"
    BY <1>2
  <2>4. OnePromotion'
    BY <1>a, <2>1 DEF Promise, OnePromotion, Moves, Promotion
  <2>5. ServerFenced'
    BY <1>2, <2>2, <2>3 DEF Promise, ServerFenced
  <2>6. StandbyKeeps'
    BY <1>2, <2>2 DEF Promise, StandbyKeeps
  <2>7. ServerKeeps'
    BY <1>2, <2>2 DEF Promise, ServerKeeps
  <2>8. Writers' /\ FencedStopped'
    BY <2>2, <2>3 DEF Promise, Writers, FencedStopped
  <2>c. OwnVolumes'
    BY <2>a DEF Promise, OwnVolumes
  <2>9. SeedsAlone'
    <3>. SUFFICES ASSUME NEW q \in Procs, NEW c \in Ids, proc'[q].at = "seed", ctr'[c].name # "", ctr'[c].vol = proc'[q].vol
                  PROVE  ctr'[c].name = "standby"
      BY DEF SeedsAlone
    <3>1. CASE q = p
      BY <1>2, <2>1, <2>a, <3>1
    <3>2. CASE q # p
      BY <2>1, <2>a, <3>2 DEF Promise, SeedsAlone, Moves
    <3>. QED
      BY <3>1, <3>2
  <2>10. AliasesMove'
    BY <2>2, <2>a, <2>b DEF Promise, AliasesMove
  <2>. QED
    BY <2>4, <2>5, <2>6, <2>7, <2>8, <2>c, <2>9, <2>10 DEF Promise
<1>3. CASE Reseeds(p)
  <2>1. /\ ctr' = [c \in Ids |-> IF ctr[c].name = "standby" THEN NoCtr ELSE ctr[c]]
        /\ net' = [n \in Nets |-> [c \in Ids |-> IF ctr[c].name = "standby" THEN "off" ELSE net[n][c]]]
        /\ UNCHANGED <<data, due>> /\ ~Promoting(p)
    BY <1>3 DEF ClaimVolume
  <2>2. PICK v \in Fresh : Users(v) = {} /\ Seed(p, v)
    BY <1>3 DEF ClaimVolume
  <2>3. ~SomeAt(Promotion)
    BY <1>a, <2>1 DEF SomeAt, Promoting, Promotion
  <2>4. v \in Volumes /\ \A c \in Ids : ctr[c].name # "" => ctr[c].vol # v
    BY <2>2 DEF Users, Volumes
  <2>. QED
    BY <1>2, <2>1, <2>2, <2>3, <2>4
<1>4. CASE ~Reseeds(p) /\ ~Finish(p)
  <2>1. Seed(p, "replica") /\ UNCHANGED <<ctr, net, data, due>> /\ \A c \in Users("replica") : ctr[c].name = "standby"
    BY <1>4 DEF ClaimVolume
  <2>2. "replica" \in Volumes /\ \A c \in Ids : ctr[c].name # "" /\ ctr[c].vol = "replica" => ctr[c].name = "standby"
    BY <2>1 DEF Users, Volumes
  <2>. QED
    BY <1>2, <2>1, <2>2
<1>. QED
  BY <1>1, <1>3, <1>4

LEMMA CreatePromise ==
  ASSUME TypeOK, Shape, Promise, ~spoiled', NEW p \in Procs, CreateStandby(p)
  PROVE  Promise'
<1>. USE DEF dataVars
<1>1. proc[p].at = "seed" /\ Goto(p, "wake") /\ UNCHANGED <<data, due>>
  BY DEF CreateStandby
<1>2. Moves(p, "wake")
  BY <1>1, GotoMoves DEF Calls
<1>3. CASE UNCHANGED <<ctr, net>>
  BY <1>1, <1>2, <1>3, JobPromise DEF Half, Moved, Past, Promotion
<1>4. CASE ~UNCHANGED <<ctr, net>>
  <2>. DEFINE v == proc[p].vol
  <2>1. ~Has("standby") /\ Create("standby", v, "seeding") /\ v \in Volumes
    BY <1>4, TypeParts DEF CreateStandby, JobState
  <2>c. \A d \in Ids : proc[p].at = "seed" /\ ctr[d].name # "" => ctr[d].vol # v /\ ctr[d].name # "standby"
    BY <2>1 DEF Promise, SeedsAlone, Has
  <2>. HIDE DEF v
  <2>2. PICK c \in Ids : Added(c, "standby", v, "seeding")
    BY <2>1, CreateAdds DEF Names, Runs
  <2>a. ctr'[c] = [name |-> "standby", vol |-> v, run |-> "seeding"]
    BY <2>2 DEF Added
  <2>b. ctr[c].name = "" /\ \A d \in Ids \ {c} : ctr'[d] = ctr[d]
    BY <2>2 DEF Added
  <2>3. /\ ctr[c].name = "" /\ ctr'[c].name = "standby" /\ ctr'[c].vol = v /\ ctr'[c].run = "seeding"
        /\ \A d \in Ids \ {c} : ctr'[d] = ctr[d]
    <3>1. ctr'[c].name = "standby"
      BY <2>a
    <3>2. ctr'[c].vol = v
      BY <2>a
    <3>3. ctr'[c].run = "seeding"
      BY <2>a
    <3>. QED
      BY <2>b, <3>1, <3>2, <3>3
  <2>4. \A m \in Nets : net'[m][c] # "alias" /\ \A d \in Ids \ {c} : net'[m][d] = net[m][d]
    BY <2>2 DEF Added
  <2>5. \A d \in Ids : ctr[d].name # "" => ctr[d].vol # v /\ ctr[d].name # "standby"
    BY <1>1, <2>c
  <2>6. Aside
    BY <1>1, <1>2 DEF Aside, Moves, Promotion
  <2>7. /\ SomeAt(Past)' <=> SomeAt(Past)
        /\ SomeAt(Half)' <=> SomeAt(Half)
        /\ SomeAt(Moved)' <=> SomeAt(Moved)
        /\ SomeAt({"take"})' <=> SomeAt({"take"})
    BY <2>6, AsideKeeps DEF Past, Half, Moved, Promotion
  <2>8. OnePromotion'
    BY <2>6 DEF Promise, OnePromotion, Aside
  <2>9. ServerFenced'
    BY <2>3, <2>7 DEF Promise, ServerFenced
  <2>10. StandbyKeeps' /\ ServerKeeps'
    BY <1>1, <2>3, <2>7 DEF Promise, StandbyKeeps, ServerKeeps
  <2>11. Writers' /\ FencedStopped'
    BY <2>3, <2>7 DEF Promise, Writers, FencedStopped
  <2>12. OwnVolumes'
    <3>1. ASSUME NEW d \in Ids \ {c}, ctr'[d].name # "" PROVE ctr'[d].vol # v
      BY <2>3, <2>5, <3>1
    <3>2. ASSUME NEW d \in Ids \ {c}, NEW e \in Ids \ {c}, ctr'[d].name # "", ctr'[e].name # "", ctr'[d].vol = ctr'[e].vol
          PROVE  d = e
      BY <2>3, <3>2 DEF Promise, OwnVolumes
    <3>. QED
      BY <2>3, <3>1, <3>2 DEF OwnVolumes
  <2>13. SeedsAlone'
    BY <2>3, <2>6 DEF Promise, SeedsAlone, Aside
  <2>14. AliasesMove'
    BY <2>3, <2>4, <2>7 DEF Promise, AliasesMove
  <2>. QED
    BY <2>8, <2>9, <2>10, <2>11, <2>12, <2>13, <2>14 DEF Promise
<1>. QED
  BY <1>3, <1>4

LEMMA WakePromise ==
  ASSUME TypeOK, Shape, Promise, ~spoiled', NEW p \in Procs, StartStandby(p) \/ SweepVolumes(p)
  PROVE  Promise'
<1>. USE DEF dataVars
<1>1. CASE StartStandby(p)
  <2>1. proc[p].at = "wake" /\ Goto(p, "stream") /\ UNCHANGED <<net, data, due>>
    BY <1>1 DEF StartStandby
  <2>2. Moves(p, "stream")
    BY <2>1, GotoMoves DEF Calls
  <2>3. CASE UNCHANGED ctr
    BY <2>1, <2>2, <2>3, JobPromise DEF Half, Moved, Past, Promotion
  <2>4. CASE ~UNCHANGED ctr
    <3>. DEFINE c == The("standby")
    <3>1. Has("standby") /\ Start("standby")
      BY <1>1, <2>4 DEF StartStandby
    <3>2. c \in Ids /\ ctr[c].name = "standby" /\ Runs1(c, Boot(ctr[c].vol))
      BY <3>1, TheNamed, StartRuns
    <3>3. Boot(ctr[c].vol) = "seeding"
      BY <3>2 DEF Boot, Shape
    <3>4. Aside
      BY <2>1, <2>2 DEF Aside, Moves, Promotion
    <3>. HIDE DEF c
    <3>. QED
      BY <2>1, <3>2, <3>3, <3>4, RunPromise DEF Runs
  <2>. QED
    BY <2>3, <2>4
<1>2. CASE SweepVolumes(p)
  <2>1. /\ data' = [v \in Volumes |-> IF v \notin {"main", proc[p].vol} /\ Users(v) = {} THEN {} ELSE data[v]]
        /\ proc[p].at = "sweep" /\ Ending(p) /\ UNCHANGED <<ctr, net, due>>
    BY <1>2 DEF SweepVolumes
  <2>2. \A d \in Ids : ctr[d].name # "" => data'[ctr[d].vol] = data[ctr[d].vol]
    BY <2>1, TypeParts DEF Users, Container
  <2>3. Moves(p, "idle")
    BY <2>1, EndingMoves DEF Ending
  <2>4. Aside
    BY <2>1, <2>3 DEF Aside, Moves, Promotion
  <2>5. PICK c \in Ids : TRUE
    BY BoundsAssumption DEF Ids
  <2>6. Runs1(c, ctr[c].run) /\ ctr[c].run \in Runs
    BY <2>1, TypeParts DEF Runs1, Container
  <2>7. /\ ctr[c].name = "shared" => ctr[c].run \in {"down", "seeding", "primary"} /\ (SomeAt(Past) => ctr[c].run = "down")
        /\ ctr[c].name = "standby" /\ SomeAt(Half) => ctr[c].run \in {"down", "seeding", "primary"}
    BY DEF Promise, ServerFenced, StandbyKeeps, TypeOK
  <2>. QED
    BY <2>1, <2>2, <2>4, <2>6, <2>7, RunPromise
<1>. QED
  BY <1>1, <1>2

---------------------------------------------------------------------------
(* The calls of a promotion: nobody else promotes *)

LEMMA AloneAt ==
  ASSUME TypeOK, Promise, NEW p \in Procs, proc[p].at \in Promotion, NEW at, Moves(p, at), NEW S \in SUBSET Promotion
  PROVE  /\ SomeAt(S)' <=> at \in S
         /\ SomeAt(S) <=> proc[p].at \in S
<1>1. \A q \in Procs \ {p} : proc[q].at \notin S
  BY DEF Promise, OnePromotion
<1>. QED
  BY <1>1, SomeAtMoves

\* What nothing but the call of the promoting job decides.
LEMMA PromoterPromise ==
  ASSUME TypeOK, Promise, NEW p \in Procs, proc[p].at \in Promotion, NEW at \in Promotion, Moves(p, at)
  PROVE  /\ OnePromotion'
         /\ \A q \in Procs : proc'[q].at = "seed" => proc'[q] = proc[q]
         /\ SomeAt(Past)' <=> at \in Past
         /\ SomeAt(Half)' <=> at \in Half
         /\ SomeAt(Moved)' <=> at \in Moved
         /\ SomeAt({"take"})' <=> at = "take"
         /\ SomeAt(Past) <=> proc[p].at \in Past
         /\ SomeAt(Half) <=> proc[p].at \in Half
         /\ SomeAt(Moved) <=> proc[p].at \in Moved
         /\ SomeAt({"take"}) <=> proc[p].at = "take"
<1>1. Past \subseteq Promotion /\ Half \subseteq Promotion /\ Moved \subseteq Promotion /\ {"take"} \subseteq Promotion
  BY DEF Past, Half, Moved, Promotion
<1>2. OnePromotion'
  BY DEF Promise, OnePromotion, Moves
<1>3. \A q \in Procs : proc'[q].at = "seed" => proc'[q] = proc[q]
  BY DEF Moves, Promotion
<1>. QED
  BY <1>1, <1>2, <1>3, AloneAt

LEMMA FencePromise ==
  ASSUME TypeOK, Promise, ~spoiled', NEW p \in Procs, Fence(p)
  PROVE  Promise'
<1>1. /\ proc[p].at = "fence" /\ Goto(p, "promote") /\ UNCHANGED <<net, data, due>>
      /\ ctr' = [c \in Ids |-> IF ctr[c].name = "shared" THEN [ctr[c] EXCEPT !.run = "down"] ELSE ctr[c]]
  BY DEF Fence, dataVars
<1>2. Moves(p, "promote")
  BY <1>1, GotoMoves DEF Calls, Promotion
<1>3. /\ OnePromotion'
      /\ \A q \in Procs : proc'[q].at = "seed" => proc'[q] = proc[q]
      /\ ~SomeAt(Half)' /\ ~SomeAt(Moved)' /\ ~SomeAt({"take"})'
      /\ ~SomeAt(Half) /\ ~SomeAt(Moved)
  BY <1>1, <1>2, PromoterPromise DEF Past, Half, Moved, Promotion
<1>4. \A c \in Ids : /\ ctr'[c].name = ctr[c].name /\ ctr'[c].vol = ctr[c].vol
                     /\ ctr'[c].run = IF ctr[c].name = "shared" THEN "down" ELSE ctr[c].run
  <2>1. \A c \in Ids : /\ [ctr[c] EXCEPT !.run = "down"].name = ctr[c].name
                       /\ [ctr[c] EXCEPT !.run = "down"].vol = ctr[c].vol
                       /\ [ctr[c] EXCEPT !.run = "down"].run = "down"
    BY TypeParts DEF Container
  <2>. QED
    BY <1>1, <2>1
<1>5. ServerFenced' /\ StandbyKeeps'
  BY <1>3, <1>4 DEF ServerFenced, StandbyKeeps
<1>6. ServerKeeps'
  BY <1>1, <1>3, <1>4 DEF Promise, ServerKeeps
<1>7. Writers' /\ FencedStopped'
  BY <1>3, <1>4 DEF Promise, Writers, FencedStopped
<1>8. OwnVolumes'
  BY <1>4 DEF Promise, OwnVolumes
<1>9. SeedsAlone'
  BY <1>3, <1>4 DEF Promise, SeedsAlone
<1>10. AliasesMove'
  BY <1>1, <1>3, <1>4 DEF Promise, AliasesMove
<1>. QED
  BY <1>3, <1>5, <1>6, <1>7, <1>8, <1>9, <1>10 DEF Promise

LEMMA PromotePromise ==
  ASSUME TypeOK, Promise, ~spoiled', NEW p \in Procs, Promote(p)
  PROVE  Promise'
<1>a. proc[p].at = "promote"
  BY DEF Promote
<1>1. CASE Finish(p)
  <2>1. Moves(p, "idle") /\ UNCHANGED <<ctr, net, data, due>>
    BY <1>1, FinishMoves DEF dataVars
  <2>. QED
    BY <1>a, <2>1, JobPromise DEF Half, Moved, Past, Promotion
<1>2. CASE ~Finish(p)
  <2>. DEFINE c == The("standby")
  <2>1. /\ InState("standby", {"standby"}) /\ ctr' = [ctr EXCEPT ![c].run = "primary"]
        /\ due' = due \cap data[ctr[c].vol] /\ Goto(p, "verify") /\ UNCHANGED <<net, data>>
    BY <1>2 DEF Promote
  <2>2. Moves(p, "verify")
    BY <2>1, GotoMoves DEF Calls, Promotion
  <2>3. c \in Ids /\ ctr[c].name = "standby"
    BY <2>1, TheNamed DEF InState, Has
  <2>4. Runs1(c, "primary")
    BY <2>1, <2>3, RunUpdate DEF Runs
  <2>. HIDE DEF c
  <2>5. \A d \in Ids : /\ ctr'[d].name = ctr[d].name /\ ctr'[d].vol = ctr[d].vol
                       /\ ctr'[d].run = IF d = c THEN "primary" ELSE ctr[d].run
    BY <2>4 DEF Runs1
  <2>6. /\ OnePromotion'
        /\ \A q \in Procs : proc'[q].at = "seed" => proc'[q] = proc[q]
        /\ SomeAt(Half)' /\ SomeAt(Past) /\ ~SomeAt(Moved)' /\ ~SomeAt({"take"})'
        /\ ~SomeAt(Half) /\ ~SomeAt(Moved)
    BY <1>a, <2>2, PromoterPromise DEF Past, Half, Moved, Promotion
  <2>7. ServerFenced'
    BY <2>3, <2>5, <2>6 DEF Promise, ServerFenced
  <2>8. StandbyKeeps'
    BY <2>1, <2>3, <2>5 DEF StandbyKeeps
  <2>9. ServerKeeps'
    BY <2>1, <2>5, <2>6 DEF Promise, ServerKeeps
  <2>10. Writers' /\ FencedStopped'
    BY <2>3, <2>5, <2>6 DEF Promise, Writers, FencedStopped
  <2>11. OwnVolumes'
    BY <2>5 DEF Promise, OwnVolumes
  <2>12. SeedsAlone'
    BY <2>5, <2>6 DEF Promise, SeedsAlone
  <2>13. AliasesMove'
    BY <2>1, <2>5, <2>6 DEF Promise, AliasesMove
  <2>. QED
    BY <2>6, <2>7, <2>8, <2>9, <2>10, <2>11, <2>12, <2>13 DEF Promise
<1>. QED
  BY <1>1, <1>2

LEMMA MovePromise ==
  ASSUME TypeOK, Promise, ~spoiled', NEW p \in Procs, MoveAliases(p)
  PROVE  Promise'
<1>1. proc[p].at = "aliases" /\ UNCHANGED <<ctr, data, due>>
  BY DEF MoveAliases, dataVars
<1>2. CASE Goto(p, "aside") /\ UNCHANGED net
  <2>1. Moves(p, "aside")
    BY <1>2, GotoMoves DEF Calls, Promotion
  <2>. QED
    BY <1>1, <1>2, <2>1, JobPromise DEF Half, Moved, Past, Promotion
<1>3. CASE UNCHANGED proc
  <2>1. SomeAt(Moved)
    BY <1>1 DEF SomeAt, Moved
  <2>2. AliasesMove'
    BY <1>3, <2>1 DEF AliasesMove, SomeAt
  <2>3. OnePromotion' /\ ServerFenced' /\ StandbyKeeps' /\ ServerKeeps' /\ Writers' /\ FencedStopped' /\ OwnVolumes' /\ SeedsAlone'
    BY <1>1, <1>3 DEF Promise, OnePromotion, ServerFenced, StandbyKeeps, ServerKeeps, Writers, FencedStopped, OwnVolumes,
                      SeedsAlone, SomeAt
  <2>. QED
    BY <2>2, <2>3 DEF Promise
<1>. QED
  BY <1>2, <1>3 DEF MoveAliases

LEMMA AsidePromise ==
  ASSUME TypeOK, Promise, ~spoiled', NEW p \in Procs, SetAside(p)
  PROVE  Promise'
<1>1. /\ proc[p].at = "aside" /\ Goto(p, "take") /\ UNCHANGED <<net, data, due>>
      /\ ctr' = [c \in Ids |-> IF ctr[c].name = "shared" /\ ("fenced" = "fenced" \/ ~Has("fenced"))
                                 THEN [ctr[c] EXCEPT !.name = "fenced"] ELSE ctr[c]]
      /\ \A q \in Procs : proc[q].at # "seed"
  BY DEF SetAside, Rename, dataVars
<1>2. \A c \in Ids : /\ ctr'[c].vol = ctr[c].vol /\ ctr'[c].run = ctr[c].run
                     /\ ctr'[c].name = IF ctr[c].name = "shared" THEN "fenced" ELSE ctr[c].name
  BY <1>1, RenameType
<1>3. Moves(p, "take")
  BY <1>1, GotoMoves DEF Calls, Promotion
<1>4. /\ OnePromotion'
      /\ \A q \in Procs : proc'[q].at = "seed" => proc'[q] = proc[q]
      /\ SomeAt(Past) /\ SomeAt(Half) /\ SomeAt(Half)' /\ SomeAt(Moved)'
  BY <1>1, <1>3, PromoterPromise DEF Past, Half, Moved, Promotion
<1>5. ServerFenced'
  BY <1>2 DEF ServerFenced
<1>6. StandbyKeeps' /\ ServerKeeps'
  BY <1>1, <1>2, <1>4 DEF Promise, StandbyKeeps, ServerKeeps
<1>7. Writers' /\ FencedStopped'
  BY <1>2, <1>4 DEF Promise, Writers, FencedStopped, ServerFenced
<1>8. OwnVolumes'
  BY <1>2 DEF Promise, OwnVolumes
<1>9. SeedsAlone'
  BY <1>1, <1>4 DEF SeedsAlone
<1>10. AliasesMove'
  BY <1>4 DEF AliasesMove
<1>. QED
  BY <1>4, <1>5, <1>6, <1>7, <1>8, <1>9, <1>10 DEF Promise

LEMMA TakePromise ==
  ASSUME TypeOK, Promise, ~spoiled', NEW p \in Procs, TakeName(p)
  PROVE  Promise'
<1>1. /\ proc[p].at = "take" /\ Goto(p, "grant") /\ UNCHANGED <<net, data, due>>
      /\ ctr' = [c \in Ids |-> IF ctr[c].name = "standby" /\ ("shared" = "fenced" \/ ~Has("shared"))
                                 THEN [ctr[c] EXCEPT !.name = "shared"] ELSE ctr[c]]
      /\ \A q \in Procs : proc[q].at # "seed"
  BY DEF TakeName, Rename, dataVars
<1>2. Moves(p, "grant")
  BY <1>1, GotoMoves DEF Calls, Promotion
<1>3. /\ OnePromotion'
      /\ \A q \in Procs : proc'[q].at = "seed" => proc'[q] = proc[q]
      /\ SomeAt(Half) /\ SomeAt({"take"}) /\ ~SomeAt(Past)' /\ ~SomeAt(Half)' /\ ~SomeAt(Moved)' /\ ~SomeAt({"take"})'
  BY <1>1, <1>2, PromoterPromise DEF Past, Half, Moved, Promotion
<1>4. \A c \in Ids : ctr[c].name # "shared"
  BY <1>3 DEF Promise, ServerFenced
<1>5. \A c \in Ids : /\ ctr'[c].vol = ctr[c].vol /\ ctr'[c].run = ctr[c].run
                     /\ ctr'[c].name = IF ctr[c].name = "standby" /\ ~Has("shared") THEN "shared" ELSE ctr[c].name
  BY <1>1, RenameType
<1>6. \A c \in Ids : ctr'[c].name = IF ctr[c].name = "standby" THEN "shared" ELSE ctr[c].name
  BY <1>4, <1>5 DEF Has
<1>7. PICK s \in Ids : /\ ctr[s].name = "standby" /\ ctr[s].run \in {"down", "seeding", "primary"}
                       /\ due \subseteq data[ctr[s].vol]
  BY <1>3 DEF Promise, StandbyKeeps
<1>8. \A c \in Ids : ctr[c].name = "standby" => c = s
  BY <1>7 DEF TypeOK
<1>9. ServerFenced'
  BY <1>3, <1>4, <1>5, <1>6, <1>7, <1>8 DEF ServerFenced
<1>10. StandbyKeeps' /\ ServerKeeps'
  BY <1>1, <1>3, <1>5, <1>6, <1>7 DEF StandbyKeeps, ServerKeeps
<1>11. Writers' /\ FencedStopped'
  BY <1>5, <1>6 DEF Promise, Writers, FencedStopped
<1>12. OwnVolumes'
  BY <1>5, <1>6 DEF Promise, OwnVolumes
<1>13. SeedsAlone'
  BY <1>1, <1>3 DEF SeedsAlone
<1>14. AliasesMove'
  BY <1>6 DEF AliasesMove
<1>. QED
  BY <1>3, <1>9, <1>10, <1>11, <1>12, <1>13, <1>14 DEF Promise

---------------------------------------------------------------------------
(* Postgres, its clients and mishaps *)

\* What the copying, replicating and writing containers are.
LEMMA CopiersAre ==
  ASSUME TypeOK, Shape, Promise, NEW c \in Ids
  PROVE  /\ ctr[c].run = "seeding" /\ Source(c) => ctr[c].name = "standby" /\ ~SomeAt(Half)
         /\ ctr[c].run = "copying" => ctr[c].name = "standby" /\ ~SomeAt(Half)
         /\ ctr[c].run = "standby" => ctr[c].name = "standby" /\ ~SomeAt(Half)
         /\ Serves(c) => ctr[c].name = "shared" \/ (ctr[c].name = "standby" /\ SomeAt(Moved))
<1>1. ctr[c].run # "down" => ctr[c].name \in {"shared", "standby"}
  BY DEF Shape, Promise, FencedStopped, TypeOK, Names
<1>2. ASSUME ctr[c].name = "standby", SomeAt(Half) PROVE ctr[c].run \in {"down", "seeding", "primary"}
  BY <1>2 DEF Promise, StandbyKeeps, TypeOK
<1>3. ASSUME ctr[c].run = "copying" \/ ctr[c].run = "standby" PROVE ctr[c].name = "standby" /\ ~SomeAt(Half)
  BY <1>1, <1>2, <1>3 DEF Promise, ServerFenced
<1>4. ASSUME ctr[c].run = "seeding", Source(c) PROVE ctr[c].name = "standby" /\ ~SomeAt(Half)
  <2>1. The("shared") # c /\ InState("shared", {"primary", "standby"})
    BY <1>4 DEF Source
  <2>2. ctr[c].name # "shared"
    BY <2>1, TheOnly
  <2>3. ~SomeAt(Past)
    BY <2>1 DEF InState, Promise, ServerFenced
  <2>. QED
    BY <1>1, <1>4, <2>2, <2>3 DEF SomeAt, Past, Half
<1>5. ASSUME Serves(c) PROVE ctr[c].name = "shared" \/ (ctr[c].name = "standby" /\ SomeAt(Moved))
  BY <1>1, <1>5 DEF Serves, Promise, AliasesMove
<1>. QED
  BY <1>3, <1>4, <1>5

\* Data changes on the volume of one standby, or under a write.
LEMMA DatabasePromise ==
  ASSUME TypeOK, Shape, Promise, NEW c \in Ids, Database(c) \/ Write(c) \/ Stop(c) \/ Crash(c)
  PROVE  Promise'
<1>a. UNCHANGED <<net, proc>>
  BY DEF Database, Wipe, Copy, Replicate, Write, Stop, Crash
<1>b. Aside
  BY <1>a DEF Aside
<1>c. ctr[c].run \in Runs /\ ctr[c].vol \in Volumes /\ Runs = {"down", "seeding", "copying", "standby", "primary"}
  BY TypeParts DEF Container, Runs
<1>d. \A r \in Runs : ctr' = [ctr EXCEPT ![c].run = r] => Runs1(c, r)
  BY RunUpdate
<1>e. ctr' = ctr => Runs1(c, ctr[c].run)
  BY TypeParts DEF Runs1
<1>f. /\ ctr[c].name = "shared" => ctr[c].run \in {"down", "seeding", "primary"} /\ (SomeAt(Past) => ctr[c].run = "down")
      /\ ctr[c].name = "standby" /\ SomeAt(Half) => ctr[c].run \in {"down", "seeding", "primary"}
      /\ ctr[c].run # "down" => ctr[c].name # "fenced" /\ ctr[c].name # ""
  BY DEF Promise, ServerFenced, StandbyKeeps, FencedStopped, Shape, TypeOK
\* Steps that write one standby's volume while no promotion relies on it.
<1>1. ASSUME NEW r \in Runs, Runs1(c, r), r = ctr[c].run \/ r # "primary", ctr[c].name = "standby", ~SomeAt(Half),
             UNCHANGED due, \A v \in Volumes : v # ctr[c].vol => data'[v] = data[v]
      PROVE  Promise'
  <2>1. \A d \in Ids : ctr[d].name = "shared" => data'[ctr[d].vol] = data[ctr[d].vol]
    BY <1>1, TypeParts DEF Container, Promise, OwnVolumes
  <2>. QED
    BY <1>a, <1>b, <1>1, <2>1, RunPromise
<1>2. CASE Wipe(c)
  <2>1. ctr[c].name = "standby" /\ ~SomeAt(Half)
    BY <1>2, CopiersAre DEF Wipe
  <2>2. Runs1(c, "copying")
    BY <1>2, <1>c, <1>d DEF Wipe
  <2>3. UNCHANGED due /\ \A v \in Volumes : v # ctr[c].vol => data'[v] = data[v]
    BY <1>2, TypeParts DEF Wipe
  <2>. QED
    BY <1>c, <2>1, <2>2, <2>3, <1>1
<1>3. CASE Copy(c)
  <2>1. ctr[c].name = "standby" /\ ~SomeAt(Half)
    BY <1>3, CopiersAre DEF Copy
  <2>2. PICK r \in {"standby", "seeding"} : Runs1(c, r)
    BY <1>3, <1>c, <1>d DEF Copy
  <2>3. UNCHANGED due /\ \A v \in Volumes : v # ctr[c].vol => data'[v] = data[v]
    BY <1>3, TypeParts DEF Copy
  <2>. QED
    BY <1>c, <2>1, <2>2, <2>3, <1>1
<1>4. CASE Replicate(c)
  <2>1. ctr[c].name = "standby" /\ ~SomeAt(Half)
    BY <1>4, CopiersAre DEF Replicate, Streams
  <2>2. Runs1(c, ctr[c].run)
    BY <1>4, <1>e DEF Replicate
  <2>3. UNCHANGED due /\ \A v \in Volumes : v # ctr[c].vol => data'[v] = data[v]
    BY <1>4, TypeParts DEF Replicate
  <2>. QED
    BY <1>c, <2>1, <2>2, <2>3, <1>1
<1>5. CASE Write(c)
  <2>1. /\ data' = [data EXCEPT ![ctr[c].vol] = @ \cup {written + 1}] /\ due' = due \cup {written + 1}
        /\ Serves(c) /\ UNCHANGED ctr
    BY <1>5 DEF Write
  <2>2. ctr[c].run = "primary" /\ (ctr[c].name = "shared" \/ (ctr[c].name = "standby" /\ SomeAt(Moved)))
    BY <2>1, CopiersAre DEF Serves
  <2>3. SomeAt(Moved) => SomeAt(Half)
    BY DEF SomeAt, Moved, Half
  <2>4. ctr[c].name = "shared" => ~SomeAt(Half)
    BY <2>2, <1>f DEF SomeAt, Past, Half
  <2>5. ASSUME NEW d \in Ids,
               (ctr[d].name = "shared" /\ ~SomeAt(Moved)) \/ (ctr[d].name = "standby" /\ SomeAt(Half)),
               due \subseteq data[ctr[d].vol]
        PROVE  due' \subseteq data'[ctr[d].vol]
    <3>1. d = c
      BY <2>2, <2>4, <2>5 DEF TypeOK
    <3>. QED
      BY <1>c, <2>1, <2>5, <3>1, TypeParts
  <2>. QED
    BY <1>a, <1>b, <1>c, <1>e, <1>f, <2>1, <2>5, RunPromise
<1>6. CASE Stop(c) \/ Crash(c)
  <2>1. UNCHANGED <<data, due>>
    BY <1>6 DEF Stop, Crash, dataVars
  <2>2. CASE Stop(c)
    <3>1. Runs1(c, "down") /\ ctr[c].run # "down"
      BY <2>2, <1>c, <1>d DEF Stop
    <3>. QED
      BY <1>a, <1>b, <1>c, <1>f, <2>1, <3>1, RunPromise
  <2>3. CASE Crash(c)
    <3>1. Runs1(c, "seeding") /\ ctr[c].run # "down"
      BY <2>3, <1>c, <1>d DEF Crash
    <3>. QED
      BY <1>a, <1>b, <1>c, <1>f, <2>1, <3>1, RunPromise
  <2>. QED
    BY <1>6, <2>2, <2>3
<1>. QED
  BY <1>2, <1>3, <1>4, <1>5, <1>6 DEF Database

---------------------------------------------------------------------------
(* Shape: what holds even after a spoiled event *)

LEMMA ShapeKept ==
  ASSUME TypeOK, Shape,
         \A c \in Ids : \/ ctr'[c].name = ctr[c].name /\ ctr'[c].vol = ctr[c].vol /\ (ctr'[c].run = ctr[c].run \/ ctr[c].name # "")
                        \/ ctr[c].name # "" /\ ctr'[c].name \in {"shared", "fenced"}
                        \/ ctr'[c].name = "" /\ ctr'[c].run = "down",
         \A p \in Procs : proc'[p].at = "seed" => proc'[p] = proc[p] \/ proc'[p].vol # "main"
  PROVE  Shape'
  BY DEF Shape

LEMMA ShapeStep ==
  ASSUME TypeOK, Shape, [Next]_vars
  PROVE  Shape'
<1>. DEFINE Kept == \A c \in Ids :
                      \/ ctr'[c].name = ctr[c].name /\ ctr'[c].vol = ctr[c].vol
                           /\ (ctr'[c].run = ctr[c].run \/ ctr[c].name # "")
                      \/ ctr[c].name # "" /\ ctr'[c].name \in {"shared", "fenced"}
                      \/ ctr'[c].name = "" /\ ctr'[c].run = "down"
            Jobs1 == \A p \in Procs : proc'[p].at = "seed" => proc'[p] = proc[p] \/ proc'[p].vol # "main"
<1>a. UNCHANGED ctr => Kept
  OBVIOUS
<1>b. ASSUME NEW p \in Procs, NEW at \in Calls \ {"seed"}, Moves(p, at) PROVE Jobs1
  BY <1>b DEF Moves
<1>c. ASSUME NEW c \in Ids, NEW r, Runs1(c, r), ctr[c].name # "" PROVE Kept
  BY <1>c DEF Runs1
<1>d. UNCHANGED proc => Jobs1
  OBVIOUS
<1>e. ASSUME NEW p \in Procs, Finish(p) PROVE Shape'
  <2>1. Moves(p, "idle") /\ UNCHANGED ctr
    BY <1>e, FinishMoves
  <2>. QED
    BY <2>1, <1>a, <1>b, ShapeKept DEF Calls
<1>1. ASSUME NEW p \in Procs,
             \/ p \in Watchers /\ Watch(p)
             \/ Provision(p) \/ Command(p) \/ ServerReady(p) \/ AttachAlias(p) \/ AwaitStreaming(p) \/ CheckAlive(p)
             \/ VerifyWritable(p) \/ GrantReplication(p) \/ Raise(p) \/ Die(p) \/ SweepVolumes(p) \/ MoveAliases(p)
      PROVE  Shape'
  <2>1. CASE ~Finish(p)
    <3>1. UNCHANGED ctr
      BY <1>1, <2>1 DEF Watch, Provision, Command, Begin, ServerReady, AttachAlias, AwaitStreaming, CheckAlive,
         VerifyWritable, GrantReplication, Raise, Die, SweepVolumes, MoveAliases
    <3>2. CASE UNCHANGED proc
      BY <3>1, <3>2, <1>a, <1>d, ShapeKept
    <3>3. CASE p \in Watchers /\ Watch(p)
      BY <3>1, <3>2, <3>3, <1>a, <1>b, BeginMoves, ShapeKept DEF Watch, Calls, Jobs
    <3>4. CASE Provision(p) \/ Command(p)
      BY <3>1, <3>4, <1>a, <1>b, BeginMoves, ShapeKept DEF Provision, Command, Begin, Calls, Jobs
    <3>5. CASE Raise(p) \/ Die(p) \/ SweepVolumes(p)
      BY <3>1, <3>5, <1>a, <1>b, EndingMoves, ShapeKept DEF Raise, Die, SweepVolumes, Ending, Calls
    <3>6. CASE AttachAlias(p) \/ GrantReplication(p)
      <4>1. Moves(p, "idle") \/ Moves(p, "server")
        BY <3>6, <2>1, EndingMoves, JobMoves DEF AttachAlias, GrantReplication, Calls, Jobs
      <4>. QED
        BY <3>1, <4>1, <1>a, <1>b, ShapeKept DEF Calls
    <3>7. CASE (ServerReady(p) \/ AwaitStreaming(p) \/ CheckAlive(p) \/ VerifyWritable(p) \/ MoveAliases(p)) /\ ~UNCHANGED proc
      <4>1. PICK at \in {"attach", "claim", "sweep", "fence", "aliases", "aside"} : Goto(p, at)
        BY <3>7, <2>1 DEF ServerReady, AwaitStreaming, CheckAlive, VerifyWritable, MoveAliases
      <4>2. at \in Calls \ {"seed"}
        BY CallNames
      <4>3. Moves(p, at)
        BY <4>1, <4>2, GotoMoves
      <4>. QED
        BY <3>1, <4>2, <4>3, <1>a, <1>b, ShapeKept
    <3>. QED
      BY <1>1, <3>2, <3>3, <3>4, <3>5, <3>6, <3>7
  <2>. QED
    BY <2>1, <1>e
<1>2. ASSUME NEW p \in Procs, EnsureServer(p) PROVE Shape'
  <2>1. /\ Goto(p, "ready")
        /\ \/ UNCHANGED ctr
           \/ (~Has("shared") /\ Create("shared", "main", "primary"))
           \/ (Has("shared") /\ Start("shared"))
    BY <1>2 DEF EnsureServer
  <2>2. Jobs1
    BY <2>1, <1>b, GotoMoves DEF Calls
  <2>3. CASE ~Has("shared") /\ Create("shared", "main", "primary")
    <3>1. PICK c \in Ids : Added(c, "shared", "main", "primary")
      BY <2>3, CreateAdds DEF Names, Runs, Volumes
    <3>2. ctr'[c] = [name |-> "shared", vol |-> "main", run |-> "primary"] /\ \A d \in Ids \ {c} : ctr'[d] = ctr[d]
      BY <3>1 DEF Added
    <3>3. ctr'[c].name = "shared" /\ \A d \in Ids \ {c} : ctr'[d] = ctr[d]
      BY <3>2
    <3>. QED
      BY <2>2, <3>3 DEF Shape
  <2>4. CASE Has("shared") /\ Start("shared")
    <3>1. The("shared") \in Ids /\ ctr[The("shared")].name = "shared" /\ Runs1(The("shared"), Boot(ctr[The("shared")].vol))
      BY <2>4, TheNamed, StartRuns
    <3>. QED
      BY <3>1, <2>2, <1>c, ShapeKept
  <2>. QED
    BY <2>1, <2>2, <2>3, <2>4, <1>a, ShapeKept
<1>3. ASSUME NEW p \in Procs, ClaimVolume(p) PROVE Shape'
  <2>1. CASE ~Finish(p)
    <3>1. PICK v \in Volumes \ {"main"} : Seed(p, v)
      BY <1>3, <2>1, FreshAssumption DEF ClaimVolume, Volumes
    <3>2. Moves(p, "seed") /\ proc'[p].vol = v
      BY <3>1, SeedMoves
    <3>3. Jobs1
      BY <3>2 DEF Moves
    <3>4. UNCHANGED ctr \/ ctr' = [c \in Ids |-> IF ctr[c].name = "standby" THEN NoCtr ELSE ctr[c]]
      BY <1>3, <2>1 DEF ClaimVolume
    <3>5. NoCtr.name = "" /\ NoCtr.run = "down"
      BY DEF NoCtr
    <3>6. Kept
      BY <3>4, <3>5
    <3>. QED
      BY <3>3, <3>6, ShapeKept
  <2>. QED
    BY <2>1, <1>e
<1>4. ASSUME NEW p \in Procs, CreateStandby(p) PROVE Shape'
  <2>. DEFINE v == proc[p].vol
  <2>1. Goto(p, "wake") /\ v \in Volumes /\ v # "main"
    BY <1>4, TypeParts DEF CreateStandby, JobState, Shape
  <2>2. Jobs1
    BY <2>1, <1>b, GotoMoves DEF Calls
  <2>3. UNCHANGED ctr \/ Create("standby", v, "seeding")
    BY <1>4 DEF CreateStandby
  <2>. HIDE DEF v
  <2>4. CASE Create("standby", v, "seeding")
    <3>1. PICK c \in Ids : Added(c, "standby", v, "seeding")
      BY <2>1, <2>4, CreateAdds DEF Names, Runs
    <3>2. ctr'[c] = [name |-> "standby", vol |-> v, run |-> "seeding"] /\ \A d \in Ids \ {c} : ctr'[d] = ctr[d]
      BY <3>1 DEF Added
    <3>3. ctr'[c].name = "standby" /\ ctr'[c].vol = v
      BY <3>2
    <3>. QED
      BY <2>1, <2>2, <3>2, <3>3 DEF Shape
  <2>. QED
    BY <2>2, <2>3, <2>4, <1>a, ShapeKept
<1>5. ASSUME NEW p \in Procs, StartStandby(p) PROVE Shape'
  <2>1. Goto(p, "stream") /\ (UNCHANGED ctr \/ (Has("standby") /\ Start("standby")))
    BY <1>5 DEF StartStandby
  <2>2. Jobs1
    BY <2>1, <1>b, GotoMoves DEF Calls
  <2>3. CASE Has("standby") /\ Start("standby")
    <3>1. The("standby") \in Ids /\ ctr[The("standby")].name = "standby" /\ Runs1(The("standby"), Boot(ctr[The("standby")].vol))
      BY <2>3, TheNamed, StartRuns
    <3>. QED
      BY <3>1, <2>2, <1>c, ShapeKept
  <2>. QED
    BY <2>1, <2>2, <2>3, <1>a, ShapeKept
<1>6. ASSUME NEW p \in Procs, Fence(p) \/ SetAside(p) \/ TakeName(p) PROVE Shape'
  <2>1. PICK at \in {"promote", "take", "grant"} : Goto(p, at)
    BY <1>6 DEF Fence, SetAside, TakeName, Rename
  <2>2. Jobs1
    <3>1. at \in Calls \ {"seed"}
      BY CallNames
    <3>. QED
      BY <2>1, <3>1, <1>b, GotoMoves
  <2>3. \/ UNCHANGED ctr
        \/ ctr' = [c \in Ids |-> IF ctr[c].name = "shared" THEN [ctr[c] EXCEPT !.run = "down"] ELSE ctr[c]]
        \/ ctr' = [c \in Ids |-> IF ctr[c].name = "shared" /\ ("fenced" = "fenced" \/ ~Has("fenced"))
                                   THEN [ctr[c] EXCEPT !.name = "fenced"] ELSE ctr[c]]
        \/ ctr' = [c \in Ids |-> IF ctr[c].name = "standby" /\ ("shared" = "fenced" \/ ~Has("shared"))
                                   THEN [ctr[c] EXCEPT !.name = "shared"] ELSE ctr[c]]
    BY <1>6 DEF Fence, SetAside, TakeName, Rename
  <2>4. \A c \in Ids : /\ [ctr[c] EXCEPT !.run = "down"].name = ctr[c].name /\ [ctr[c] EXCEPT !.run = "down"].vol = ctr[c].vol
                       /\ [ctr[c] EXCEPT !.name = "fenced"].name = "fenced"
                       /\ [ctr[c] EXCEPT !.name = "shared"].name = "shared"
    BY TypeParts DEF Container
  <2>5. Kept
    BY <2>3, <2>4
  <2>. QED
    BY <2>2, <2>5, ShapeKept
<1>7. ASSUME NEW p \in Procs, Promote(p) PROVE Shape'
  <2>1. CASE ~Finish(p)
    <3>1. /\ InState("standby", {"standby"}) /\ ctr' = [ctr EXCEPT ![The("standby")].run = "primary"]
          /\ Goto(p, "verify")
      BY <1>7, <2>1 DEF Promote
    <3>2. The("standby") \in Ids /\ ctr[The("standby")].name = "standby"
      BY <3>1, TheNamed DEF InState, Has
    <3>3. Runs1(The("standby"), "primary")
      BY <3>1, <3>2, RunUpdate DEF Runs
    <3>4. Jobs1
      BY <3>1, <1>b, GotoMoves DEF Calls, Promotion
    <3>. QED
      BY <3>2, <3>3, <3>4, <1>c, ShapeKept
  <2>. QED
    BY <2>1, <1>e
<1>8. ASSUME NEW c \in Ids, Database(c) \/ Write(c) \/ Stop(c) \/ Crash(c) PROVE Shape'
  <2>1. UNCHANGED proc
    BY <1>8 DEF Database, Wipe, Copy, Replicate, Write, Stop, Crash
  <2>2. UNCHANGED ctr \/ (ctr[c].run # "down" /\ \E r \in Runs : ctr' = [ctr EXCEPT ![c].run = r])
    BY <1>8 DEF Database, Wipe, Copy, Replicate, Write, Stop, Crash, Runs
  <2>3. ctr[c].run # "down" => ctr[c].name # ""
    BY DEF Shape
  <2>4. Kept
    BY <2>2, <2>3, <1>a, <1>c, RunUpdate
  <2>. QED
    BY <2>1, <2>4, <1>d, ShapeKept
<1>9. CASE HeartbeatAges \/ CooldownEnds \/ UNCHANGED vars
  BY <1>9, <1>a, <1>d, ShapeKept DEF HeartbeatAges, CooldownEnds, vars
<1>10. Watchers \subseteq Procs /\ Provisioners \subseteq Procs /\ Operators \subseteq Procs
  BY DEF Procs
<1>. QED
  BY <1>1, <1>2, <1>3, <1>4, <1>5, <1>6, <1>7, <1>8, <1>9, <1>10 DEF Next, Step, Standby, Failover

---------------------------------------------------------------------------
(* The theorems *)

LEMMA SpoiledStays ==
  ASSUME TypeOK, [Next]_vars, ~spoiled'
  PROVE  ~spoiled
<1>1. ASSUME NEW p \in Procs, Finish(p) PROVE ~spoiled
  BY <1>1, FinishMoves
<1>2. ASSUME NEW p \in Procs, ~Finish(p),
             Step(p) \/ Raise(p) \/ Die(p) \/ Provision(p) \/ Command(p) \/ (p \in Watchers /\ Watch(p))
      PROVE  ~spoiled
  BY <1>2 DEF Step, Standby, Failover, EnsureServer, ServerReady, AttachAlias, ClaimVolume, CreateStandby, StartStandby,
     AwaitStreaming, SweepVolumes, CheckAlive, Fence, Promote, VerifyWritable, MoveAliases, SetAside, TakeName, Rename,
     GrantReplication, Raise, Die, Provision, Command, Begin, Watch
<1>3. Watchers \subseteq Procs /\ Provisioners \subseteq Procs /\ Operators \subseteq Procs
  BY DEF Procs
<1>. QED
  BY <1>1, <1>2, <1>3 DEF Next, Database, Wipe, Copy, Replicate, Write, Stop, Crash, HeartbeatAges, CooldownEnds, vars

LEMMA PromiseStep ==
  ASSUME TypeOK, Shape, Promise, [Next]_vars, ~spoiled'
  PROVE  Promise'
<1>1. ASSUME NEW p \in Watchers, Watch(p) PROVE Promise'
  BY <1>1, JobsPromise DEF Procs
<1>2. ASSUME NEW p \in Procs, Provision(p) \/ Command(p) \/ Raise(p) \/ Die(p) PROVE Promise'
  BY <1>2, JobsPromise
<1>3. ASSUME NEW p \in Procs, Step(p) PROVE Promise'
  BY <1>3, JobsPromise, EnsurePromise, ClaimPromise, CreatePromise, WakePromise, FencePromise, PromotePromise,
     MovePromise, AsidePromise, TakePromise DEF Step, Standby, Failover
<1>4. ASSUME NEW c \in Ids, Database(c) \/ Write(c) \/ Stop(c) \/ Crash(c) PROVE Promise'
  BY <1>4, DatabasePromise
<1>5. CASE HeartbeatAges \/ CooldownEnds \/ UNCHANGED vars
  <2>1. UNCHANGED <<ctr, net, data, due, proc>>
    BY <1>5 DEF HeartbeatAges, CooldownEnds, vars, dataVars
  <2>. QED
    BY <2>1 DEF Promise, OnePromotion, ServerFenced, StandbyKeeps, ServerKeeps, Writers, FencedStopped, OwnVolumes,
                SeedsAlone, AliasesMove, SomeAt
<1>6. Provisioners \subseteq Procs /\ Operators \subseteq Procs
  BY DEF Procs
<1>. QED
  BY <1>1, <1>2, <1>3, <1>4, <1>5, <1>6 DEF Next

LEMMA PgInit == Init => PgInv
<1>. SUFFICES ASSUME Init PROVE PgInv
  OBVIOUS
<1>1. PICK alone \in BOOLEAN :
        /\ ctr = [c \in Ids |->
                   CASE c = 1 -> [name |-> "shared", vol |-> "main", run |-> "primary"]
                     [] c = 2 /\ ~alone -> [name |-> "standby", vol |-> "replica", run |-> "standby"]
                     [] OTHER -> NoCtr]
        /\ net = [n \in Nets |-> [c \in Ids |->
                   CASE c = 1 -> "alias"
                     [] c = 2 /\ ~alone /\ n = "smsly-net" -> "plain"
                     [] OTHER -> "off"]]
  BY DEF Init
<1>2. \A c \in Ids : \/ c = 1 /\ ctr[c].name = "shared" /\ ctr[c].vol = "main" /\ ctr[c].run = "primary"
                     \/ c = 2 /\ ctr[c].name = "standby" /\ ctr[c].vol = "replica" /\ ctr[c].run = "standby"
                     \/ ctr[c].name = "" /\ ctr[c].run = "down"
  <2>. SUFFICES ASSUME NEW c \in Ids
                PROVE  \/ c = 1 /\ ctr[c].name = "shared" /\ ctr[c].vol = "main" /\ ctr[c].run = "primary"
                       \/ c = 2 /\ ctr[c].name = "standby" /\ ctr[c].vol = "replica" /\ ctr[c].run = "standby"
                       \/ ctr[c].name = "" /\ ctr[c].run = "down"
    OBVIOUS
  <2>1. \/ c = 1 /\ ctr[c] = [name |-> "shared", vol |-> "main", run |-> "primary"]
        \/ c = 2 /\ ctr[c] = [name |-> "standby", vol |-> "replica", run |-> "standby"]
        \/ ctr[c] = NoCtr
    BY <1>1
  <2>2. CASE c = 1 /\ ctr[c] = [name |-> "shared", vol |-> "main", run |-> "primary"]
    <3>1. ctr[c].name = "shared"
      BY <2>2
    <3>2. ctr[c].vol = "main"
      BY <2>2
    <3>3. ctr[c].run = "primary"
      BY <2>2
    <3>. QED
      BY <2>2, <3>1, <3>2, <3>3
  <2>3. CASE c = 2 /\ ctr[c] = [name |-> "standby", vol |-> "replica", run |-> "standby"]
    <3>1. ctr[c].name = "standby"
      BY <2>3
    <3>2. ctr[c].vol = "replica"
      BY <2>3
    <3>3. ctr[c].run = "standby"
      BY <2>3
    <3>. QED
      BY <2>3, <3>1, <3>2, <3>3
  <2>4. CASE ctr[c] = NoCtr
    <3>1. NoCtr.name = "" /\ NoCtr.run = "down"
      BY DEF NoCtr
    <3>. QED
      BY <2>4, <3>1
  <2>. QED
    BY <2>1, <2>2, <2>3, <2>4
<1>3. \A p \in Procs : proc[p].at = "idle"
  BY DEF Init, NoJob
<1>4. \A S \in SUBSET Promotion : ~SomeAt(S)
  BY <1>3 DEF SomeAt, Promotion
<1>5. ~SomeAt(Past) /\ ~SomeAt(Half) /\ ~SomeAt(Moved) /\ ~SomeAt({"take"})
  BY <1>4 DEF Past, Half, Moved, Promotion
<1>6. Shape
  BY <1>2, <1>3 DEF Shape
<1>7. OnePromotion /\ SeedsAlone
  BY <1>3 DEF OnePromotion, SeedsAlone, Promotion
<1>8. ServerFenced /\ StandbyKeeps /\ Writers /\ FencedStopped
  BY <1>2, <1>5 DEF ServerFenced, StandbyKeeps, Writers, FencedStopped
<1>9. ServerKeeps
  <2>1. 1 \in Ids /\ due = {}
    BY BoundsAssumption DEF Ids, Init
  <2>2. ctr[1].name = "shared"
    BY <1>1, <2>1
  <2>. QED
    BY <2>1, <2>2 DEF ServerKeeps
<1>10. OwnVolumes
  BY <1>2 DEF OwnVolumes
<1>11. AliasesMove
  <2>1. ASSUME NEW c \in Ids, NEW n \in Nets, ctr[c].name = "standby" PROVE net[n][c] # "alias"
    <3>1. c # 1
      <4>1. 1 \in Ids
        BY BoundsAssumption DEF Ids
      <4>2. ctr[1] = [name |-> "shared", vol |-> "main", run |-> "primary"]
        BY <1>1, <4>1
      <4>3. ctr[1].name = "shared"
        BY <4>2
      <4>. QED
        BY <2>1, <4>3
    <3>. QED
      BY <1>1, <3>1
  <2>. QED
    BY <2>1 DEF AliasesMove
<1>. QED
  BY <1>6, <1>7, <1>8, <1>9, <1>10, <1>11 DEF PgInv, Promise

LEMMA PgStep == TypeOK /\ PgInv /\ [Next]_vars => PgInv'
  BY ShapeStep, PromiseStep, SpoiledStays DEF PgInv

LEMMA PgAlways == Spec => [](TypeOK /\ PgInv)
  BY TypeInit, TypeStep, PgInit, PgStep, PTL DEF Spec

\* The server and its standby never both accept writes, whichever jobs promote, reseed and
\* provision at once, until a spoiled event (promote_shared_standby's order of calls).
THEOREM AtMostOneWriter == Spec => []OneWriter
<1>1. TypeOK /\ PgInv => OneWriter
  <2>. DEFINE W == {c \in Ids : ctr[c].run = "primary"}
  <2>. SUFFICES ASSUME TypeOK, Promise PROVE Cardinality(W) <= 1
    BY DEF PgInv, OneWriter
  <2>1. ASSUME NEW c \in W, NEW d \in W PROVE c = d
    <3>1. SomeAt(Half) => SomeAt(Past)
      BY DEF SomeAt, Half, Past
    <3>2. \A e \in W : /\ e \in Ids /\ ctr[e].name \in {"shared", "standby"}
                       /\ ctr[e].name = "shared" <=> ~SomeAt(Half)
      BY <3>1 DEF Promise, Writers, ServerFenced
    <3>. QED
      BY <3>2 DEF TypeOK
  <2>. HIDE DEF W
  <2>2. CASE W = {}
    BY <2>2, FS_EmptySet
  <2>3. CASE W # {}
    <3>1. PICK c \in W : TRUE
      BY <2>3
    <3>2. W = {c}
      BY <2>1, <3>1
    <3>. QED
      BY <3>2, FS_Singleton
  <2>. QED
    BY <2>2, <2>3
<1>. QED
  BY <1>1, PgAlways, PTL

\* Some container with the server's or the standby's name has every acknowledged write that
\* no failover has given up, between any two calls of any jobs, until a spoiled event.
THEOREM DataIsKept == Spec => []DataKept
<1>1. PgInv => DataKept
  BY DEF PgInv, Promise, StandbyKeeps, ServerKeeps, DataKept, SomeAt, Moved, Half
<1>. QED
  BY <1>1, PgAlways, PTL

\* A fenced server is stopped, and its volume is its own: no step touches either.
LEMMA FencedStep ==
  ASSUME TypeOK, Shape, Promise, [Next]_vars, ~spoiled', NEW f \in Ids, ctr[f].name = "fenced"
  PROVE  ctr'[f] = ctr[f] /\ data'[ctr[f].vol] = data[ctr[f].vol]
<1>a. ctr[f].run = "down" /\ ctr[f].vol \in Volumes /\ f \in Users(ctr[f].vol)
  BY TypeParts DEF Promise, FencedStopped, Users, Container
<1>b. ASSUME NEW c \in Ids, ctr[c].name = "standby" \/ ctr[c].name = "shared" PROVE c # f /\ ctr[c].vol # ctr[f].vol
  BY <1>b DEF Promise, OwnVolumes
<1>c. ASSUME NEW n \in {"shared", "standby"}, Has(n) PROVE The(n) # f
  BY <1>c, TheNamed
<1>1. ASSUME NEW p \in Procs, Step(p) PROVE ctr'[f] = ctr[f] /\ data'[ctr[f].vol] = data[ctr[f].vol]
  <2>1. data'[ctr[f].vol] = data[ctr[f].vol]
    <3>1. CASE Finish(p)
      BY <3>1, FinishMoves DEF dataVars
    <3>2. CASE SweepVolumes(p)
      BY <3>2, <1>a DEF SweepVolumes
    <3>3. CASE ~Finish(p) /\ ~SweepVolumes(p)
      BY <1>1, <3>3 DEF Step, Standby, Failover, EnsureServer, ServerReady, AttachAlias, ClaimVolume, CreateStandby,
         StartStandby, AwaitStreaming, CheckAlive, Fence, Promote, VerifyWritable, MoveAliases, SetAside, TakeName,
         Rename, GrantReplication, dataVars
    <3>. QED
      BY <3>1, <3>2, <3>3
  <2>2. CASE UNCHANGED ctr
    BY <2>1, <2>2
  <2>3. ASSUME NEW n \in Names, NEW v \in Volumes, NEW r \in Runs, Create(n, v, r) PROVE ctr'[f] = ctr[f]
    <3>1. PICK c \in Ids : Added(c, n, v, r)
      BY <2>3, CreateAdds
    <3>. QED
      BY <3>1 DEF Added
  <2>4. ASSUME NEW n \in {"shared", "standby"}, Has(n), Start(n) PROVE ctr'[f] = ctr[f]
    <3>1. Runs1(The(n), Boot(ctr[The(n)].vol))
      BY <2>4, StartRuns
    <3>. QED
      BY <2>4, <3>1, <1>c DEF Runs1
  <2>5. CASE EnsureServer(p)
    BY <2>1, <2>2, <2>3, <2>4, <2>5 DEF EnsureServer, Names, Runs, Volumes
  <2>6. CASE CreateStandby(p) \/ StartStandby(p)
    <3>1. proc[p].vol \in Volumes
      BY TypeParts DEF JobState
    <3>. QED
      BY <2>1, <2>2, <2>3, <2>4, <2>6, <3>1 DEF CreateStandby, StartStandby, Names, Runs
  <2>7. CASE ClaimVolume(p) \/ Fence(p) \/ SetAside(p) \/ TakeName(p)
    <3>1. CASE Finish(p)
      BY <3>1, <2>1, <2>2, FinishMoves
    <3>2. CASE ~Finish(p)
      BY <2>1, <2>2, <2>7, <3>2 DEF ClaimVolume, Fence, SetAside, TakeName, Rename
    <3>. QED
      BY <3>1, <3>2
  <2>8. CASE Promote(p)
    <3>1. CASE Finish(p)
      BY <3>1, <2>1, <2>2, FinishMoves
    <3>2. CASE ~Finish(p)
      <4>1. Has("standby") /\ ctr' = [ctr EXCEPT ![The("standby")].run = "primary"]
        BY <2>8, <3>2 DEF Promote, InState, Has
      <4>2. The("standby") \in Ids /\ The("standby") # f
        BY <4>1, <1>c, TheNamed
      <4>. QED
        BY <4>1, <4>2, <2>1, TypeParts
    <3>. QED
      BY <3>1, <3>2
  <2>9. CASE ServerReady(p) \/ AttachAlias(p) \/ AwaitStreaming(p) \/ SweepVolumes(p) \/ CheckAlive(p)
             \/ VerifyWritable(p) \/ MoveAliases(p) \/ GrantReplication(p)
    <3>1. CASE Finish(p)
      BY <3>1, <2>1, <2>2, FinishMoves
    <3>2. CASE ~Finish(p)
      BY <2>1, <2>2, <2>9, <3>2 DEF ServerReady, AttachAlias, AwaitStreaming, SweepVolumes, CheckAlive,
         VerifyWritable, MoveAliases, GrantReplication
    <3>. QED
      BY <3>1, <3>2
  <2>. QED
    BY <1>1, <2>5, <2>6, <2>7, <2>8, <2>9 DEF Step, Standby, Failover
<1>2. ASSUME NEW c \in Ids, Database(c) \/ Write(c) \/ Stop(c) \/ Crash(c)
      PROVE  ctr'[f] = ctr[f] /\ data'[ctr[f].vol] = data[ctr[f].vol]
  <2>1. ctr[c].run # "down" => ctr[c].name \in {"shared", "standby"}
    BY DEF Shape, Promise, FencedStopped, TypeOK, Names
  <2>2. ctr[c].run # "down"
    BY <1>2 DEF Database, Wipe, Copy, Replicate, Streams, Write, Serves, Stop, Crash
  <2>3. c # f /\ ctr[c].vol # ctr[f].vol
    BY <2>1, <2>2, <1>b
  <2>. QED
    BY <1>2, <2>3, <1>a, TypeParts DEF Database, Wipe, Copy, Replicate, Write, Stop, Crash, dataVars
<1>3. ASSUME NEW p \in Procs, (p \in Watchers /\ Watch(p)) \/ Provision(p) \/ Command(p) \/ Raise(p) \/ Die(p)
      PROVE  UNCHANGED <<ctr, data>>
  BY <1>3 DEF Watch, Provision, Command, Begin, Raise, Die, dataVars
<1>4. CASE HeartbeatAges \/ CooldownEnds \/ UNCHANGED vars
  BY <1>4 DEF HeartbeatAges, CooldownEnds, vars, dataVars
<1>5. Watchers \subseteq Procs /\ Provisioners \subseteq Procs /\ Operators \subseteq Procs
  BY DEF Procs
<1>. QED
  BY <1>1, <1>2, <1>3, <1>4, <1>5 DEF Next

\* The fenced old server is never started, removed or seeded over (ensure_shared_server,
\* ensure_shared_standby, _gc_old_standby_volumes), until a spoiled event.
THEOREM FencedCopyStays == Spec => FencedCopyKept
<1>1. TypeOK /\ PgInv /\ [Next]_vars =>
        [spoiled' \/ \A c \in Ids : ctr[c].name = "fenced" =>
           ctr'[c] = ctr[c] /\ data'[ctr[c].vol] = data[ctr[c].vol]]_vars
  BY FencedStep, SpoiledStays DEF PgInv
<1>. QED
  BY <1>1, PgAlways, PTL DEF Spec, FencedCopyKept

=============================================================================
