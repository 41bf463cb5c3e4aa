--------------------------- MODULE SharedPostgres ---------------------------
(***************************************************************************)
(* The shared Postgres server of the tenants' databases and its streaming  *)
(* standby: the watchdog that counts outages, promotes the standby and     *)
(* reseeds a new one; the provisioning of a tenant, which creates, starts  *)
(* and attaches whatever has the server's name; and the operator's         *)
(* command.  All of them are sequences of Docker calls with no lock        *)
(* between them, and find containers and volumes by name at every call.    *)
(*                                                                         *)
(* Docker keeps a name unique.  A container made by ensure_shared_server   *)
(* runs Postgres; one made by ensure_shared_standby runs, at every start,  *)
(* a script that waits for the server, empties its volume, copies the      *)
(* server's data and then becomes a standby.                               *)
(***************************************************************************)
EXTENDS Integers, FiniteSets

CONSTANTS
  MaxContainers, \* bound on the containers that exist at a time
  Fresh,        \* names for the volumes of reseeded standbys
  Watchers,     \* runs of the watchdog task that may overlap
  Provisioners, \* deployments and provisioning tasks
  Operators,    \* shells with the management command
  Probes,       \* _SHARED_PG_PROBES
  MaxWrites,    \* bound on the tenants' writes
  MaxCommands,  \* bound on the jobs of provisioners and operators
  Faults,       \* "stop": a container is stopped; "crash": its process dies; "api": a Docker
                \* call fails; "raise": a call raises; "die": a worker dies; "age": no heartbeat
                \* for _SHARED_PG_HEALTHY_WINDOW_S
  MaxMishaps    \* bound on those in a behaviour

ASSUME BoundsAssumption ==
  MaxContainers \in Nat \ {0} /\ Probes \in Nat \ {0} /\ MaxWrites \in Nat /\ MaxCommands \in Nat /\ MaxMishaps \in Nat
\* The volumes of reseeded standbys have the time in their names, the server's has none.
ASSUME FreshAssumption == "main" \notin Fresh

VARIABLES
  ctr,      \* ctr[c]: name, volume and what runs in the container c
  net,      \* net[n][c]: c is off the network n, on it, or on it under the tenants' alias
  data,     \* data[v]: the writes on the volume v
  proc,     \* proc[p]: the job of p, the next call in it, and the volume it seeds
  downs, seen, cooling, \* the watchdog's cache keys: down_count, a recent last_healthy_ts, a recent last_failover_ts
  written,  \* writes so far
  due,      \* history: acknowledged writes that no failover has given up
  spoiled,  \* history: an event after which nothing is promised
  mishaps, commands \* what has been used of the bounds

vars == <<ctr, net, data, proc, downs, seen, cooling, written, due, spoiled, mishaps, commands>>
cacheVars == <<downs, seen, cooling>>
dataVars == <<data, written, due>>
boundVars == <<mishaps, commands>>

Ids == 1..MaxContainers
Procs == Watchers \cup Provisioners \cup Operators
Volumes == {"main", "replica"} \cup Fresh
Nets == {"smsly-net", "scoped"}
Names == {"", "shared", "standby", "fenced"}
Runs == {"down", "seeding", "copying", "standby", "primary"}
Jobs == {"none", "watch", "failover", "provision", "ensure", "promote", "force", "reseed"}
Promotion == {"fence", "promote", "verify", "aliases", "aside", "take", "grant"}
Calls == {"idle", "check", "server", "ready", "attach", "claim", "seed", "wake", "stream", "sweep"}
           \cup Promotion

NoCtr == [name |-> "", vol |-> "main", run |-> "down"]
NoJob == [at |-> "idle", job |-> "none", vol |-> "main"]

Has(n) == \E c \in Ids : ctr[c].name = n
The(n) == CHOOSE c \in Ids : ctr[c].name = n
InState(n, S) == \E c \in Ids : ctr[c].name = n /\ ctr[c].run \in S
Up(n) == InState(n, Runs \ {"down"})
Users(v) == {c \in Ids : ctr[c].name # "" /\ ctr[c].vol = v}

\* A standby streams when what it has is a part of what the server has.
Streams(c) ==
  /\ ctr[c].run = "standby" /\ InState("shared", {"primary"})
  /\ data[ctr[c].vol] \subseteq data[ctr[The("shared")].vol]
Streaming == \E c \in Ids : Streams(c)

\* Fenced and promoted, but not yet under the server's name.
HalfWay(p) == proc[p].at \in {"verify", "aliases", "aside", "take"}
\* Another job is promoting the standby.
Promoting(p) == \E q \in Procs \ {p} : proc[q].at \in Promotion

Init ==
  /\ \E alone \in BOOLEAN :
       /\ ctr = [c \in Ids |->
                   CASE c = 1 -> [name |-> "shared", vol |-> "main", run |-> "primary"]
                     [] c = 2 /\ ~alone -> [name |-> "standby", vol |-> "replica", run |-> "standby"]
                     [] OTHER -> NoCtr]
       /\ net = [n \in Nets |-> [c \in Ids |->
                   CASE c = 1 -> "alias"
                     [] c = 2 /\ ~alone /\ n = "smsly-net" -> "plain"
                     [] OTHER -> "off"]]
  /\ data = [v \in Volumes |-> {}]
  /\ proc = [p \in Procs |-> NoJob]
  /\ downs = 0 /\ seen = FALSE /\ cooling = FALSE
  /\ written = 0 /\ due = {} /\ spoiled = FALSE
  /\ mishaps = 0 /\ commands = 0

-----------------------------------------------------------------------------
\* The jobs

Goto(p, at) == proc' = [proc EXCEPT ![p].at = at]

\* The end of a job, by its last call or by an exception that the caller catches: after a
\* failover the watchdog writes its keys whatever became of the reseed.
Ending(p) ==
  /\ proc' = [proc EXCEPT ![p] = NoJob]
  /\ cooling' = (cooling \/ proc[p].job = "failover")
  /\ downs' = IF proc[p].job = "failover" THEN 0 ELSE downs
  /\ UNCHANGED seen
Finish(p) == Ending(p) /\ UNCHANGED <<ctr, net, dataVars, spoiled, boundVars>>

Mishap(kind) == kind \in Faults /\ mishaps < MaxMishaps /\ mishaps' = mishaps + 1

\* Faulty: rebuilds the standby only when its container is gone.
WatchAbsent(p) ==
  /\ proc[p].at = "idle"
  /\ Up("shared") /\ ~Has("standby")
  /\ downs' = 0 /\ UNCHANGED <<seen, cooling>>
  /\ proc' = [proc EXCEPT ![p] = [NoJob EXCEPT !.at = "server", !.job = "watch"]]
  /\ UNCHANGED <<ctr, net, dataVars, spoiled, boundVars>>

\* check_shared_postgres_ha_task(), up to its decision.
Watch(p) ==
  /\ proc[p].at = "idle"
  /\ LET Begin(at) == proc' = [proc EXCEPT ![p] = [NoJob EXCEPT !.at = at, !.job = "watch"]] IN
     \/ /\ Up("shared") /\ Up("standby") /\ Streaming      \* HEALTHY
        /\ downs' = 0 /\ seen' = TRUE /\ UNCHANGED <<cooling, proc>>
     \/ /\ Up("shared") /\ ~Up("standby")                  \* STANDALONE
        /\ downs' = 0 /\ UNCHANGED <<seen, cooling>>
        /\ Begin("server")
     \/ /\ ~Up("shared")                                   \* DOWN
        /\ downs' = IF downs < Probes THEN downs + 1 ELSE downs
        /\ UNCHANGED <<seen, cooling>>
        /\ IF downs' >= Probes /\ ~cooling /\ Up("standby") /\ seen
             THEN Begin("check") ELSE UNCHANGED proc
  /\ UNCHANGED <<ctr, net, dataVars, spoiled, boundVars>>

\* A tenant is provisioned, or the operator gives a command.
Begin(p, job, at) ==
  /\ proc[p].at = "idle" /\ commands < MaxCommands
  /\ commands' = commands + 1
  /\ proc' = [proc EXCEPT ![p] = [NoJob EXCEPT !.at = at, !.job = job]]
  /\ UNCHANGED <<ctr, net, dataVars, cacheVars, spoiled, mishaps>>
Provision(p) == Begin(p, "provision", "server")
Command(p) ==
  \/ Begin(p, "promote", "check") \/ Begin(p, "force", "check") \/ Begin(p, "reseed", "server")

-----------------------------------------------------------------------------
\* ensure_shared_server()

Create(n, v, r) ==
  \E c \in Ids :
    /\ ctr[c].name = "" /\ \A d \in 1..(c - 1) : ctr[d].name # ""
    /\ ctr' = [ctr EXCEPT ![c] = [name |-> n, vol |-> v, run |-> r]]
    /\ net' = [m \in Nets |-> [net[m] EXCEPT ![c] = IF m = "smsly-net" THEN "plain" ELSE "off"]]

\* What a start runs: Postgres itself, or the seeding script.
Boot(v) == IF v = "main" THEN "primary" ELSE "seeding"
Start(n) == ctr' = [ctr EXCEPT ![The(n)].run = Boot(ctr[The(n)].vol)]

\* Creates the server when nothing has its name, and starts it when it is stopped, also
\* when a promotion has just stopped it.
EnsureServer(p) ==
  /\ proc[p].at = "server"
  /\ \/ /\ ~Has("shared")
        /\ Create("shared", "main", "primary")
        /\ spoiled' = (spoiled \/ Promoting(p))
     \/ /\ Has("shared") /\ ~Up("shared")
        /\ Start("shared")
        /\ spoiled' = (spoiled \/ Promoting(p))
        /\ UNCHANGED net
     \/ Up("shared") /\ UNCHANGED <<ctr, net, spoiled>>
  /\ Goto(p, "ready")
  /\ UNCHANGED <<dataVars, cacheVars, boundVars>>

\* _wait_ready() and the SQL after it, which a server in recovery refuses.
ServerReady(p) ==
  /\ proc[p].at = "ready"
  /\ IF InState("shared", {"primary"})
       THEN /\ Goto(p, IF proc[p].job = "provision" THEN "attach" ELSE "claim")
            /\ UNCHANGED <<ctr, net, dataVars, cacheVars, spoiled, boundVars>>
       ELSE Finish(p)

\* attach_alias(): disconnect, and connect with all the aliases.  An application's start is
\* done then, a tenant's provisioning goes on to the standby.
AttachAlias(p) ==
  /\ proc[p].at = "attach"
  /\ \E n \in Nets :
       net' = IF Has("shared") THEN [net EXCEPT ![n][The("shared")] = "alias"] ELSE net
  /\ proc' = [proc EXCEPT ![p] = NoJob]
       \/ proc' = [proc EXCEPT ![p].at = "server", ![p].job = "ensure"]
  /\ UNCHANGED <<ctr, dataVars, cacheVars, spoiled, boundVars>>

-----------------------------------------------------------------------------
\* ensure_shared_standby(), after ensure_shared_server()

Reseeds(p) == proc[p].job \in {"failover", "reseed"}
Seed(p, v) == proc' = [proc EXCEPT ![p].at = "seed", ![p].vol = v]

\* Faulty: a reseed takes the standby's volume again.
ClaimVolumeAgain(p) ==
  /\ proc[p].at = "claim"
  /\ ctr' = [c \in Ids |-> IF Reseeds(p) /\ ctr[c].name = "standby" THEN NoCtr ELSE ctr[c]]
  /\ Seed(p, "replica")
  /\ UNCHANGED <<net, dataVars, cacheVars, spoiled, boundVars>>

\* Faulty: a reseed also removes the fenced server.
ClaimVolumeTidy(p) ==
  /\ proc[p].at = "claim"
  /\ \/ /\ Reseeds(p)
        /\ ctr' = [c \in Ids |-> IF ctr[c].name \in {"standby", "fenced"} THEN NoCtr ELSE ctr[c]]
        /\ \E v \in Fresh : Users(v) = {} /\ data[v] = {} /\ Seed(p, v)
        /\ spoiled' = (spoiled \/ Promoting(p))
        /\ UNCHANGED <<net, dataVars, cacheVars, boundVars>>
     \/ /\ ~Reseeds(p) /\ \A c \in Users("replica") : ctr[c].name = "standby"
        /\ Seed(p, "replica")
        /\ UNCHANGED <<ctr, net, dataVars, cacheVars, spoiled, boundVars>>
     \/ ~Reseeds(p) /\ (\E c \in Users("replica") : ctr[c].name # "standby") /\ Finish(p)

\* A reseed removes the standby and takes a fresh volume; otherwise the standby's volume is
\* refused while another container has it, which nobody sees when Docker's answer is an error.
ClaimVolume(p) ==
  /\ proc[p].at = "claim"
  /\ \/ /\ Reseeds(p)
        /\ ctr' = [c \in Ids |-> IF ctr[c].name = "standby" THEN NoCtr ELSE ctr[c]]
        /\ net' = [n \in Nets |-> [c \in Ids |-> IF ctr[c].name = "standby" THEN "off" ELSE net[n][c]]]
        /\ \E v \in Fresh :
             Users(v) = {} /\ data[v] = {} /\ Seed(p, v)
        /\ spoiled' = (spoiled \/ Promoting(p))
        /\ UNCHANGED <<dataVars, cacheVars, boundVars>>
     \/ /\ ~Reseeds(p)
        /\ IF \E c \in Users("replica") : ctr[c].name # "standby"
             THEN \/ Finish(p)
                  \/ /\ Mishap("api") /\ Seed(p, "replica") /\ spoiled' = TRUE
                     /\ UNCHANGED <<ctr, net, dataVars, cacheVars, commands>>
             ELSE /\ Seed(p, "replica")
                  /\ UNCHANGED <<ctr, net, dataVars, cacheVars, spoiled, boundVars>>

\* Faulty: creates without looking whether it exists.
CreateStandbyAnyway(p) ==
  /\ proc[p].at = "seed"
  /\ Create("standby", proc[p].vol, "seeding")
  /\ Goto(p, "wake")
  /\ UNCHANGED <<dataVars, cacheVars, spoiled, boundVars>>

CreateStandby(p) ==
  /\ proc[p].at = "seed"
  /\ IF Has("standby")
       THEN UNCHANGED <<ctr, net>>
       ELSE Create("standby", proc[p].vol, "seeding")
  /\ Goto(p, "wake")
  /\ UNCHANGED <<dataVars, cacheVars, spoiled, boundVars>>

StartStandby(p) ==
  /\ proc[p].at = "wake"
  /\ IF Has("standby") /\ ~Up("standby") THEN Start("standby") ELSE UNCHANGED ctr
  /\ Goto(p, "stream")
  /\ UNCHANGED <<net, dataVars, cacheVars, spoiled, boundVars>>

AwaitStreaming(p) ==
  /\ proc[p].at = "stream"
  /\ IF InState("standby", {"standby", "primary"}) /\ Streaming /\ Reseeds(p)
       THEN /\ Goto(p, "sweep")
            /\ UNCHANGED <<ctr, net, dataVars, cacheVars, spoiled, boundVars>>
       ELSE Finish(p)

\* _gc_old_standby_volumes(): a volume that a container has stays.
SweepVolumes(p) ==
  /\ proc[p].at = "sweep"
  /\ data' = [v \in Volumes |->
                IF v \notin {"main", proc[p].vol} /\ Users(v) = {} THEN {} ELSE data[v]]
  /\ Ending(p)
  /\ UNCHANGED <<ctr, net, written, due, spoiled, boundVars>>

-----------------------------------------------------------------------------
\* promote_shared_standby()

\* Refused without a standby and, unless forced, also when the server says it is writable
\* or psql fails, as it does in a container that is stopped: both are a RuntimeError.  Only
\* when psql does not answer in time is the server taken for dead.
CheckAlive(p) ==
  /\ proc[p].at = "check"
  /\ LET Go == /\ Goto(p, "fence") /\ spoiled' = (spoiled \/ Promoting(p))
               /\ UNCHANGED <<ctr, net, dataVars, cacheVars, commands>>
         Skips == proc[p].job = "force" \/ InState("shared", {"standby"}) IN
     \/ Up("standby") /\ Skips /\ Go /\ UNCHANGED mishaps
     \/ Up("standby") /\ ~Skips /\ Mishap("api") /\ Go
     \/ ~(Up("standby") /\ Skips) /\ Finish(p)

\* Faulty: promotes without fencing.
FenceNot(p) ==
  /\ proc[p].at = "fence"
  /\ Goto(p, "promote")
  /\ UNCHANGED <<ctr, net, dataVars, cacheVars, spoiled, boundVars>>

\* Nobody looks whether docker stop worked.
Fence(p) ==
  /\ proc[p].at = "fence"
  /\ Goto(p, "promote")
  /\ \/ /\ ctr' = [c \in Ids |-> IF ctr[c].name = "shared" THEN [ctr[c] EXCEPT !.run = "down"] ELSE ctr[c]]
        /\ UNCHANGED <<mishaps, spoiled>>
     \/ /\ Up("shared") /\ Mishap("api")
        /\ spoiled' = TRUE
        /\ UNCHANGED ctr
  /\ UNCHANGED <<net, dataVars, cacheVars, commands>>

\* pg_ctl promote fails when nothing is in recovery there.
Promote(p) ==
  /\ proc[p].at = "promote"
  /\ IF InState("standby", {"standby"})
       THEN /\ ctr' = [ctr EXCEPT ![The("standby")].run = "primary"]
            /\ due' = due \cap data[ctr[The("standby")].vol]
            /\ Goto(p, "verify")
            /\ UNCHANGED <<net, data, written, cacheVars, spoiled, boundVars>>
       ELSE Finish(p)

VerifyWritable(p) ==
  /\ proc[p].at = "verify"
  /\ IF InState("standby", {"primary"})
       THEN Goto(p, "aliases") /\ UNCHANGED <<ctr, net, dataVars, cacheVars, spoiled, boundVars>>
       ELSE Finish(p)

\* Faulty: the aliases stay where they are.
MoveAliasesNot(p) ==
  /\ proc[p].at = "aliases"
  /\ Goto(p, "aside")
  /\ UNCHANGED <<ctr, net, dataVars, cacheVars, spoiled, boundVars>>

\* One network: docker network disconnect, then connect, which refuses a container that is
\* on the network already.
MoveAliases(p) ==
  /\ proc[p].at = "aliases"
  /\ LET from == {n \in Nets : Has("shared") /\ net[n][The("shared")] = "alias"} IN
     IF from = {}
       THEN Goto(p, "aside") /\ UNCHANGED net
       ELSE /\ UNCHANGED proc
            /\ \E n \in from :
                 net' = [net EXCEPT ![n] = [c \in Ids |->
                           CASE ctr[c].name = "shared" -> "off"
                             [] ctr[c].name = "standby" /\ net[n][c] = "off" -> "alias"
                             [] OTHER -> net[n][c]]]
  /\ UNCHANGED <<ctr, dataVars, cacheVars, spoiled, boundVars>>

\* Nobody looks whether a rename worked: it fails when the name is taken.
Rename(p, old, new, next) ==
  /\ Goto(p, next)
  /\ \/ /\ ctr' = [c \in Ids |->
                    IF ctr[c].name = old /\ (new = "fenced" \/ ~Has(new))
                      THEN [ctr[c] EXCEPT !.name = new] ELSE ctr[c]]
        /\ spoiled' = (spoiled \/ \E q \in Procs : proc[q].at = "seed")
        /\ UNCHANGED mishaps
     \/ /\ Has(old) /\ Mishap("api")
        /\ spoiled' = TRUE
        /\ UNCHANGED ctr
  /\ UNCHANGED <<net, dataVars, cacheVars, commands>>
SetAside(p) == proc[p].at = "aside" /\ Rename(p, "shared", "fenced", "take")
TakeName(p) == proc[p].at = "take" /\ Rename(p, "standby", "shared", "grant")

\* _ensure_replication_access_on(); the watchdog goes on to reseed a standby.
GrantReplication(p) ==
  /\ proc[p].at = "grant"
  /\ IF InState("shared", {"primary"}) /\ proc[p].job = "watch"
       THEN /\ proc' = [proc EXCEPT ![p].at = "server", ![p].job = "failover"]
            /\ UNCHANGED <<ctr, net, dataVars, cacheVars, spoiled, boundVars>>
       ELSE Finish(p)

-----------------------------------------------------------------------------
\* Postgres, its clients, and what goes wrong

\* The seeding script finds the server by the container's name.
Source(c) == InState("shared", {"primary", "standby"}) /\ The("shared") # c

Wipe(c) ==
  /\ ctr[c].run = "seeding" /\ Source(c)
  /\ ctr' = [ctr EXCEPT ![c].run = "copying"]
  /\ data' = [data EXCEPT ![ctr[c].vol] = {}]
  /\ UNCHANGED <<net, proc, cacheVars, written, due, spoiled, boundVars>>

\* Without a server there is nothing to run Postgres on, and the script starts again.
Copy(c) ==
  /\ ctr[c].run = "copying"
  /\ IF Source(c)
       THEN /\ data' = [data EXCEPT ![ctr[c].vol] = data[ctr[The("shared")].vol]]
            /\ ctr' = [ctr EXCEPT ![c].run = "standby"]
       ELSE ctr' = [ctr EXCEPT ![c].run = "seeding"] /\ UNCHANGED data
  /\ UNCHANGED <<net, proc, cacheVars, written, due, spoiled, boundVars>>

Replicate(c) ==
  /\ Streams(c)
  /\ data' = [data EXCEPT ![ctr[c].vol] = data[ctr[The("shared")].vol]]
  /\ UNCHANGED <<ctr, net, proc, cacheVars, written, due, spoiled, boundVars>>

Serves(c) == ctr[c].run = "primary" /\ (ctr[c].name = "shared" \/ \E n \in Nets : net[n][c] = "alias")
Write(c) ==
  /\ Serves(c) /\ written < MaxWrites
  /\ written' = written + 1
  /\ data' = [data EXCEPT ![ctr[c].vol] = @ \cup {written + 1}]
  /\ due' = due \cup {written + 1}
  /\ UNCHANGED <<ctr, net, proc, cacheVars, spoiled, boundVars>>

\* Docker does not start a container again that was stopped; it does after a crash, and a
\* seeded one, also when it has been promoted, runs its script then.
Stop(c) ==
  /\ Mishap("stop") /\ ctr[c].run # "down"
  /\ ctr' = [ctr EXCEPT ![c].run = "down"]
  /\ UNCHANGED <<net, dataVars, proc, cacheVars, spoiled, commands>>
Crash(c) ==
  /\ Mishap("crash") /\ ctr[c].run \in {"copying", "standby", "primary"} /\ ctr[c].vol # "main"
  /\ ctr' = [ctr EXCEPT ![c].run = "seeding"]
  /\ UNCHANGED <<net, dataVars, proc, cacheVars, spoiled, commands>>

Raise(p) ==
  /\ proc[p].at # "idle" /\ Mishap("raise") /\ Ending(p)
  /\ spoiled' = (spoiled \/ HalfWay(p))
  /\ UNCHANGED <<ctr, net, dataVars, commands>>
Die(p) ==
  /\ proc[p].at # "idle" /\ Mishap("die")
  /\ proc' = [proc EXCEPT ![p] = NoJob]
  /\ spoiled' = (spoiled \/ HalfWay(p))
  /\ UNCHANGED <<ctr, net, dataVars, cacheVars, commands>>

HeartbeatAges ==
  /\ seen /\ Mishap("age") /\ seen' = FALSE
  /\ UNCHANGED <<ctr, net, dataVars, proc, downs, cooling, spoiled, commands>>
CooldownEnds ==
  /\ cooling /\ cooling' = FALSE
  /\ UNCHANGED <<ctr, net, dataVars, proc, downs, seen, spoiled, boundVars>>

-----------------------------------------------------------------------------
Standby(p) == ClaimVolume(p) \/ CreateStandby(p) \/ StartStandby(p) \/ AwaitStreaming(p) \/ SweepVolumes(p)
Failover(p) ==
  \/ CheckAlive(p) \/ Fence(p) \/ Promote(p) \/ VerifyWritable(p) \/ MoveAliases(p)
  \/ SetAside(p) \/ TakeName(p) \/ GrantReplication(p)
Step(p) == EnsureServer(p) \/ ServerReady(p) \/ AttachAlias(p) \/ Standby(p) \/ Failover(p)
Database(c) == Wipe(c) \/ Copy(c) \/ Replicate(c)

Next ==
  \/ \E p \in Watchers : Watch(p)
  \/ \E p \in Provisioners : Provision(p)
  \/ \E p \in Operators : Command(p)
  \/ \E p \in Procs : Step(p) \/ Raise(p) \/ Die(p)
  \/ \E c \in Ids : Database(c) \/ Write(c) \/ Stop(c) \/ Crash(c)
  \/ HeartbeatAges \/ CooldownEnds

\* Beat keeps sending the watchdog's task, a job that has begun goes on, and so does Postgres.
Fairness ==
  /\ \A p \in Watchers : WF_vars(Watch(p))
  /\ \A p \in Procs : WF_vars(Step(p))
  /\ \A c \in Ids : WF_vars(Database(c))

Spec == Init /\ [][Next]_vars /\ Fairness

-----------------------------------------------------------------------------
\* Every variable stays in its domain, and Docker's names are unique.
TypeOK ==
  /\ ctr \in [Ids -> [name : Names, vol : Volumes, run : Runs]]
  /\ \A c, d \in Ids : ctr[c].name = ctr[d].name /\ ctr[c].name \in {"shared", "standby"} => c = d
  /\ net \in [Nets -> [Ids -> {"off", "plain", "alias"}]]
  /\ data \in [Volumes -> SUBSET (1..MaxWrites)]
  /\ proc \in [Procs -> [at : Calls, job : Jobs, vol : Volumes]]
  /\ downs \in 0..Probes /\ seen \in BOOLEAN /\ cooling \in BOOLEAN
  /\ written \in 0..MaxWrites /\ due \subseteq 1..written /\ spoiled \in BOOLEAN
  /\ mishaps \in 0..MaxMishaps /\ commands \in 0..MaxCommands

\* The order of a promotion is "split-brain safe": fenced, and only then promoted, the server
\* and its standby never both accept writes, whoever else promotes, reseeds or provisions
\* meanwhile; unless one of the events that set spoiled has happened.
OneWriter == ~spoiled => Cardinality({c \in Ids : ctr[c].run = "primary"}) <= 1

\* An acknowledged write that no failover has given up is on the volume of the container
\* that has the server's name or is about to get it: no reseed, no restart and no sweep of
\* old volumes destroys the tenants' only copy.
DataKept ==
  ~spoiled => \E c \in Ids : ctr[c].name \in {"shared", "standby"} /\ due \subseteq data[ctr[c].vol]

\* The fenced old server is never deleted, started or seeded over: it is the copy from which
\* a wiped server was recovered.
FencedCopyKept ==
  [][spoiled' \/ \A c \in Ids : ctr[c].name = "fenced" =>
       ctr'[c] = ctr[c] /\ data'[ctr[c].vol] = data[ctr[c].vol]]_vars

Calm == mishaps = MaxMishaps /\ \A p \in Procs : proc[p].at = "idle"
Served == \E c \in Ids : ctr[c].run = "primary" /\ net["scoped"][c] = "alias"

\* A promotion that has decided to fence the server, with a standby to promote, reaches its
\* end when nothing more goes wrong, and the applications are served again: their aliases go
\* along; unless the new server, started once more, waits for a server to seed from.
FencedToServe == mishaps = MaxMishaps /\ InState("standby", {"standby"}) /\ \E p \in Procs : proc[p].at = "fence"
PromotionServes == FencedToServe ~> (Served \/ spoiled \/ InState("shared", {"seeding"}))

\* "Sustained primary death with a recently-healthy standby auto-promotes": when the server
\* is stopped with a standby the watchdog may promote, the applications are served again.
Promotable == ~Up("shared") /\ InState("standby", {"standby"}) /\ seen /\ ~cooling
FailoverCompletes == (Calm /\ Promotable) ~> (Served \/ spoiled)

\* The watchdog rebuilds a missing standby of a server that has not been failed over; unless
\* a promotion that an operator forces stops the server before that standby is ready.
Alone == ~Up("standby") /\ \E c \in Ids : ctr[c].name = "shared" /\ ctr[c].run = "primary" /\ ctr[c].vol = "main"
StandbyRestored == (Calm /\ Alone) ~> (Streaming \/ spoiled \/ ~Up("shared"))
=============================================================================
