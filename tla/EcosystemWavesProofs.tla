------------------------ MODULE EcosystemWavesProofs ------------------------
(***************************************************************************)
(* For any plan, any limit and any mishaps: the wave engine forgets no     *)
(* row, reports a plan as completed only if it is, and releases no row     *)
(* before what it waits for.                                               *)
(***************************************************************************)
EXTENDS EcosystemWaves, TLAPS

---------------------------------------------------------------------------
(* The inductive invariant *)

\* The first k waves.
Upto(k) == UNION {Wave(i) : i \in 1..k}
Reached == served \cup pushed

\* The engine goes on to release wave + 1; until then it is busy with the one before.
Releases == At("gate") \/ (At("dispatch") /\ engine.then = "next")
\* The waves the engine has done with.
Passed   == IF Releases THEN engine.wave ELSE engine.wave - 1
\* It has looked at a wave and not yet decided what follows.
Looking  == {"retry", "early", "expire", "expire_save", "cancel"}

Stations ==
  /\ Releases => engine.wave < Len(Waves)
  /\ At("early") \/ (At("dispatch") /\ engine.then = "recheck") => engine.waits < MaxWaits
  /\ engine.pc \in Looking => engine.wave > 0 /\ DOMAIN engine.seen = Wave(engine.wave)
  /\ At("cancel_save") => engine.wave > 0
  /\ engine.pc \in {"queued", "retry", "early", "expire", "gate"} => engine.then = "next"
  /\ At("expire_save") => engine.then = "end"
  /\ engine.pc \in {"cancel", "cancel_save"} => engine.then # "recheck"
  /\ At("dispatch") => /\ engine.then # "end"
                       /\ engine.todo \subseteq (IF engine.wave = Len(Waves) THEN {} ELSE Wave(engine.wave + 1))
  /\ At("cancel") /\ engine.then = "next" => \A s \in DOMAIN engine.seen : engine.seen[s] \notin InProgress
  /\ At("final_save") => /\ DOMAIN engine.seen = Services
                         /\ \A s \in Services : engine.seen[s] \notin InProgress

\* What a status says about the history, also a status that was read earlier.
Honest ==
  /\ \A s \in Services : /\ row[s] = "ACTIVE" => s \in served
                         /\ row[s] = "INACTIVE" => s \in pushed
  /\ \A s \in DOMAIN engine.seen : /\ engine.seen[s] = "ACTIVE" => s \in served
                                   /\ engine.seen[s] = "INACTIVE" => s \in pushed

\* No row of a wave the engine has done with waits.
Remembered ==
  /\ \A s \in Upto(Passed) : row[s] # "QUEUED"
  /\ engine.pc \in {"retry", "early", "expire"} =>
       \A s \in DOMAIN engine.seen : engine.seen[s] \notin InProgress => row[s] # "QUEUED"
  /\ At("expire_save") => \A s \in DOMAIN engine.seen : row[s] = "QUEUED" => s \in engine.batch
  /\ engine.pc \in {"cancel", "cancel_save"} => \A s \in Wave(engine.wave) : row[s] # "QUEUED"
  /\ At("cancel_save") /\ engine.then = "end" =>
       \A s \in Later(engine.wave) : row[s] = "QUEUED" => s \in engine.batch
  /\ engine.pc \in {"final", "final_save", "done"} => \A s \in Services : row[s] # "QUEUED"

\* Under fail-fast a row that waits in a later wave vouches for all the earlier ones.
Vouched ==
  failFast =>
    /\ (\E s \in Later(engine.wave) : row[s] = "QUEUED") => Upto(Passed) \subseteq Reached
    /\ At("cancel_save") /\ engine.then = "next" =>
         \/ Wave(engine.wave) \subseteq Reached
         \/ \A s \in Later(engine.wave) : row[s] = "QUEUED" => s \in engine.batch

WaveInv == TypeOK /\ Stations /\ Honest /\ Remembered /\ Vouched

\* No service depends on one of its own wave or of a later one: the plan has no cycle.
Ordered == \A k \in DOMAIN Waves : \A s \in Wave(k) : Deps[s] \subseteq Upto(k - 1)

Ready(s) == Deps[s] \subseteq Reached

\* Whatever has been sent or was built waits for nothing, and a row of a later wave at most for
\* the waves the engine has not done with.
Prepared ==
  /\ \A s \in Services : /\ smart[s] > 0 \/ deferred[s] > 0 \/ work[s] # "none" => Ready(s)
                         /\ row[s] \notin {"QUEUED", "CANCELLED"} => Ready(s)
  /\ \A s \in DOMAIN engine.seen : engine.seen[s] \notin {"QUEUED", "CANCELLED"} => Ready(s)
  /\ At("dispatch") /\ engine.then = "recheck" => \A s \in engine.todo : Ready(s)
  /\ \A s \in Later(engine.wave) : row[s] = "QUEUED" => Deps[s] \cap Upto(Passed) \subseteq Reached
  /\ At("cancel_save") /\ engine.then = "next" =>
       \A s \in Later(engine.wave) :
         row[s] = "QUEUED" => s \in engine.batch \/ Deps[s] \cap Wave(engine.wave) \subseteq Reached

---------------------------------------------------------------------------
(* The plan *)

LEMMA WaveTypes ==
  /\ Len(Waves) \in Nat \ {0} /\ DOMAIN Waves = 1..Len(Waves)
  /\ \A k \in 1..Len(Waves) : Wave(k) \subseteq Services
<1>1. Len(Waves) \in Nat /\ DOMAIN Waves = 1..Len(Waves) /\ Waves \in Seq(Seq(Services)) /\ Waves # <<>>
  BY PlanAssumption
<1>2. Len(Waves) # 0
  BY <1>1
<1>3. ASSUME NEW k \in 1..Len(Waves) PROVE Wave(k) \subseteq Services
  <2>1. Waves[k] \in Seq(Services)
    BY <1>1
  <2>. QED
    BY <2>1 DEF Wave, Members
<1>. QED
  BY <1>1, <1>2, <1>3

LEMMA UptoIs  == \A k, s : s \in Upto(k) <=> \E i \in 1..k : s \in Wave(i)
  BY DEF Upto
LEMMA LaterIs == \A k, s : s \in Later(k) <=> \E i \in (k + 1)..Len(Waves) : s \in Wave(i)
  BY DEF Later

\* Every service is in one wave.
LEMMA OneWave ==
  /\ \A s \in Services : \E k \in 1..Len(Waves) : s \in Wave(k)
  /\ \A s \in Services, j, k \in 1..Len(Waves) : s \in Wave(j) /\ s \in Wave(k) => j = k
  BY WavesAssumption, WaveTypes

\* How the waves before, at and after a point make up the plan.
LEMMA WaveParts ==
  ASSUME NEW k \in 0..Len(Waves)
  PROVE  /\ Upto(k) \subseteq Services /\ Later(k) \subseteq Services
         /\ Services = Upto(k) \cup Later(k)
         /\ k > 0 => /\ Upto(k) = Upto(k - 1) \cup Wave(k) /\ Later(k - 1) = Wave(k) \cup Later(k)
                     /\ Wave(k) \subseteq Services /\ Wave(k) \cap Upto(k - 1) = {} /\ Wave(k) \cap Later(k) = {}
         /\ k < Len(Waves) => /\ Later(k) = Wave(k + 1) \cup Later(k + 1) /\ Wave(k + 1) \subseteq Services
                              /\ Wave(k + 1) \cap Upto(k) = {}
         /\ k = Len(Waves) => Later(k) = {}
         /\ k = 0 => Upto(k - 1) = {} /\ Upto(k) = {}
<1>0. Len(Waves) \in Nat /\ k \in Nat /\ k <= Len(Waves)
  BY WaveTypes
<1>1. Upto(k) \subseteq Services /\ Later(k) \subseteq Services
  BY <1>0, WaveTypes, UptoIs, LaterIs
<1>2. Services \subseteq Upto(k) \cup Later(k)
  <2>1. SUFFICES ASSUME NEW s \in Services PROVE s \in Upto(k) \/ s \in Later(k)
    OBVIOUS
  <2>2. PICK i \in 1..Len(Waves) : s \in Wave(i)
    BY OneWave
  <2>3. i \in 1..k \/ i \in (k + 1)..Len(Waves)
    BY <1>0
  <2>. QED
    BY <2>2, <2>3, UptoIs, LaterIs
<1>3. ASSUME k > 0
      PROVE  /\ Upto(k) = Upto(k - 1) \cup Wave(k) /\ Later(k - 1) = Wave(k) \cup Later(k)
             /\ Wave(k) \subseteq Services /\ Wave(k) \cap Upto(k - 1) = {} /\ Wave(k) \cap Later(k) = {}
  <2>1. \A i : /\ i \in 1..k <=> i \in 1..(k - 1) \/ i = k
               /\ i \in k..Len(Waves) <=> i = k \/ i \in (k + 1)..Len(Waves)
               /\ i \in 1..(k - 1) \/ i \in (k + 1)..Len(Waves) => i \in 1..Len(Waves) /\ i # k
    BY <1>0, <1>3
  <2>2. k \in 1..Len(Waves) /\ (k - 1) + 1 = k
    BY <1>0, <1>3
  <2>3. Upto(k) = Upto(k - 1) \cup Wave(k)
    BY <2>1, UptoIs
  <2>4. Later(k - 1) = Wave(k) \cup Later(k)
    BY <2>1, <2>2, LaterIs
  <2>5. Wave(k) \subseteq Services
    BY <2>2, WaveTypes
  <2>6. Wave(k) \cap Upto(k - 1) = {}
    BY <2>1, <2>2, <2>5, UptoIs, OneWave
  <2>7. Wave(k) \cap Later(k) = {}
    BY <2>1, <2>2, <2>5, LaterIs, OneWave
  <2>. QED
    BY <2>3, <2>4, <2>5, <2>6, <2>7
<1>4. ASSUME k < Len(Waves)
      PROVE  /\ Later(k) = Wave(k + 1) \cup Later(k + 1) /\ Wave(k + 1) \subseteq Services
             /\ Wave(k + 1) \cap Upto(k) = {}
  <2>1. \A i : /\ i \in (k + 1)..Len(Waves) <=> i = k + 1 \/ i \in (k + 2)..Len(Waves)
               /\ i \in 1..k => i \in 1..Len(Waves) /\ i # k + 1
    BY <1>0, <1>4
  <2>2. k + 1 \in 1..Len(Waves) /\ (k + 1) + 1 = k + 2
    BY <1>0, <1>4
  <2>3. Later(k) = Wave(k + 1) \cup Later(k + 1)
    BY <2>1, <2>2, LaterIs
  <2>4. Wave(k + 1) \subseteq Services
    BY <2>2, WaveTypes
  <2>5. Wave(k + 1) \cap Upto(k) = {}
    BY <2>1, <2>2, <2>4, UptoIs, OneWave
  <2>. QED
    BY <2>3, <2>4, <2>5
<1>5. k = Len(Waves) => Later(k) = {}
  <2>1. k = Len(Waves) => \A i : i \notin (k + 1)..Len(Waves)
    BY <1>0
  <2>. QED
    BY <2>1, LaterIs
<1>6. k = 0 => Upto(k - 1) = {} /\ Upto(k) = {}
  <2>1. k = 0 => \A i : i \notin 1..k /\ i \notin 1..(k - 1)
    BY <1>0
  <2>. QED
    BY <2>1, UptoIs
<1>. QED
  BY <1>1, <1>2, <1>3, <1>4, <1>5, <1>6

---------------------------------------------------------------------------
(* The engine's record *)

Seen == UNION {[S -> Status] : S \in SUBSET Services}
EngineState == [pc : PCs, wave : 0..Len(Waves), waits : 0..MaxWaits, seen : Seen,
                batch : SUBSET Services, todo : SUBSET Services, then : {"next", "recheck", "end"}]

LEMMA EngineParts ==
  ASSUME TypeOK
  PROVE  /\ engine \in EngineState
         /\ engine.pc \in PCs /\ engine.wave \in 0..Len(Waves) /\ engine.waits \in 0..MaxWaits
         /\ engine.seen \in Seen /\ engine.batch \subseteq Services /\ engine.todo \subseteq Services
         /\ engine.then \in {"next", "recheck", "end"}
<1>1. engine \in EngineState
  BY DEF TypeOK, EngineState, Seen
<1>. QED
  BY <1>1 DEF EngineState

LEMMA SeenTypes ==
  /\ Nothing \in Seen /\ DOMAIN Nothing = {}
  /\ \A f \in Seen : DOMAIN f \subseteq Services /\ \A s \in DOMAIN f : f[s] \in Status
  /\ \A S \in SUBSET Services : \A f \in [S -> Status] : f \in Seen
<1>1. Nothing \in [{} -> Status]
  BY DEF Nothing
<1>2. \A S \in SUBSET Services : \A f \in [S -> Status] : f \in Seen
  BY DEF Seen
<1>3. \A f \in Seen : \E S \in SUBSET Services : f \in [S -> Status]
  BY DEF Seen
<1>4. DOMAIN Nothing = {}
  BY DEF Nothing
<1>5. Nothing \in Seen
  BY <1>1, <1>2
<1>6. \A f \in Seen : DOMAIN f \subseteq Services /\ \A s \in DOMAIN f : f[s] \in Status
  BY <1>3
<1>. QED
  BY <1>2, <1>4, <1>5, <1>6

\* All fields of an engine record at once.
Reads(e, pc, k, n, seen, batch, todo, then) ==
  /\ e.pc = pc /\ e.wave = k /\ e.waits = n /\ e.seen = seen
  /\ e.batch = batch /\ e.todo = todo /\ e.then = then

LEMMA SendFields ==
  ASSUME NEW k \in 0..Len(Waves), NEW n \in 0..MaxWaits
  PROVE  Send(k, n) \in EngineState /\ Reads(Send(k, n), "queued", k, n, Nothing, {}, {}, "next")
<1>1. Send(k, n) \in EngineState
  BY SeenTypes DEF Send, EngineState, PCs
<1>. QED
  BY <1>1 DEF Send, Reads

LEMMA EndedFields ==
  ASSUME NEW pc \in PCs
  PROVE  Ended(pc) \in EngineState /\ Reads(Ended(pc), pc, 0, 0, Nothing, {}, {}, "next")
<1>. DEFINE e == Send(0, 0)
<1>1. e \in EngineState /\ Reads(e, "queued", 0, 0, Nothing, {}, {}, "next")
  BY SendFields, WaveTypes, BoundsAssumption
<1>. HIDE DEF e
<1>2. [e EXCEPT !.pc = pc] \in EngineState /\ Reads([e EXCEPT !.pc = pc], pc, 0, 0, Nothing, {}, {}, "next")
  BY <1>1 DEF EngineState, Reads
<1>. QED
  BY <1>2 DEF Ended, e

---------------------------------------------------------------------------
(* What each step of the engine does to its record *)

LEMMA GotoFields ==
  ASSUME TypeOK, NEW pc \in PCs, Goto(pc)
  PROVE  /\ engine' \in EngineState
         /\ Reads(engine', pc, engine.wave, engine.waits, engine.seen, engine.batch, engine.todo, engine.then)
<1>1. engine \in EngineState
  BY EngineParts
<1>. QED
  BY <1>1 DEF Goto, EngineState, Reads

LEMMA LookFields ==
  ASSUME TypeOK, NEW pc \in PCs, NEW seen \in Seen, engine' = [engine EXCEPT !.pc = pc, !.seen = seen]
  PROVE  /\ engine' \in EngineState
         /\ Reads(engine', pc, engine.wave, engine.waits, seen, engine.batch, engine.todo, engine.then)
<1>1. engine \in EngineState
  BY EngineParts
<1>. QED
  BY <1>1 DEF EngineState, Reads

LEMMA BatchFields ==
  ASSUME TypeOK, NEW pc \in PCs, NEW batch \in SUBSET Services, engine' = [engine EXCEPT !.pc = pc, !.batch = batch]
  PROVE  /\ engine' \in EngineState
         /\ Reads(engine', pc, engine.wave, engine.waits, engine.seen, batch, engine.todo, engine.then)
<1>1. engine \in EngineState
  BY EngineParts
<1>. QED
  BY <1>1 DEF EngineState, Reads

LEMMA BatchToPc ==
  ASSUME TypeOK, NEW pc \in PCs, NEW batch \in SUBSET Services, engine' = [engine EXCEPT !.batch = batch, !.pc = pc]
  PROVE  /\ engine' \in EngineState
         /\ Reads(engine', pc, engine.wave, engine.waits, engine.seen, batch, engine.todo, engine.then)
<1>1. engine \in EngineState
  BY EngineParts
<1>. QED
  BY <1>1 DEF EngineState, Reads

LEMMA ExpireFields ==
  ASSUME TypeOK, NEW pc \in PCs, NEW then \in {"next", "recheck", "end"}, NEW batch \in SUBSET Services,
         engine' = [engine EXCEPT !.pc = pc, !.then = then, !.batch = batch]
  PROVE  /\ engine' \in EngineState
         /\ Reads(engine', pc, engine.wave, engine.waits, engine.seen, batch, engine.todo, then)
<1>1. engine \in EngineState
  BY EngineParts
<1>. QED
  BY <1>1 DEF EngineState, Reads

LEMMA GateFields ==
  ASSUME TypeOK, NEW pc \in PCs, NEW seen \in Seen, NEW todo \in SUBSET Services,
         engine' = [engine EXCEPT !.pc = pc, !.seen = seen, !.todo = todo]
  PROVE  /\ engine' \in EngineState
         /\ Reads(engine', pc, engine.wave, engine.waits, seen, engine.batch, todo, engine.then)
<1>1. engine \in EngineState
  BY EngineParts
<1>. QED
  BY <1>1 DEF EngineState, Reads

LEMMA EarlyFields ==
  ASSUME TypeOK, NEW pc \in PCs, NEW seen \in Seen, NEW todo \in SUBSET Services, NEW then \in {"next", "recheck", "end"},
         engine' = [engine EXCEPT !.pc = pc, !.seen = seen, !.then = then, !.todo = todo]
  PROVE  /\ engine' \in EngineState
         /\ Reads(engine', pc, engine.wave, engine.waits, seen, engine.batch, todo, then)
<1>1. engine \in EngineState
  BY EngineParts
<1>. QED
  BY <1>1 DEF EngineState, Reads

LEMMA TodoFields ==
  ASSUME TypeOK, NEW S, engine' = [engine EXCEPT !.todo = @ \ S]
  PROVE  /\ engine' \in EngineState
         /\ Reads(engine', engine.pc, engine.wave, engine.waits, engine.seen, engine.batch, engine.todo \ S, engine.then)
<1>1. engine \in EngineState
  BY EngineParts
<1>. QED
  BY <1>1 DEF EngineState, Reads

---------------------------------------------------------------------------
(* Types *)

LEMMA SetTypes ==
  ASSUME TypeOK, NEW S, NEW st \in Status, row' = Set(S, st)
  PROVE  row' \in [Services -> Status] /\ \A s \in Services : row'[s] = IF s \in S THEN st ELSE row[s]
  BY DEF TypeOK, Set

LEMMA AddTypes ==
  ASSUME NEW q \in [Services -> 0..MaxPending], NEW s \in Services
  PROVE  /\ Add(q, s) \in [Services -> 0..MaxPending] /\ Add(q, s)[s] \in 0..MaxPending
         /\ \A r \in Services \ {s} : Add(q, s)[r] = q[r]
  BY BoundsAssumption DEF Add

LEMMA MinusTypes ==
  ASSUME NEW q \in [Services -> 0..MaxPending], NEW s \in Services, q[s] > 0
  PROVE  /\ [q EXCEPT ![s] = @ - 1] \in [Services -> 0..MaxPending]
         /\ \A r \in Services : [q EXCEPT ![s] = @ - 1][r] > 0 => q[r] > 0
  BY BoundsAssumption

LEMMA MishapType ==
  ASSUME TypeOK, NEW f, Mishap(f)
  PROVE  mishaps' \in 0..MaxMishaps
  BY BoundsAssumption DEF TypeOK, Mishap

\* What is left of TypeOK when the types of the engine, the rows and the messages are known.
Others ==
  /\ work \in [Services -> {"none", "build", "deploy"}]
  /\ retried \subseteq Services /\ pushed \subseteq Services /\ served \subseteq Services
  /\ plan \in {"DEPLOYING", "COMPLETED", "FAILED"} /\ failFast \in BOOLEAN
  /\ mishaps \in 0..MaxMishaps
Messages == smart \in [Services -> 0..MaxPending] /\ deferred \in [Services -> 0..MaxPending]

LEMMA TypeParts == TypeOK <=> row \in [Services -> Status] /\ Messages /\ Others /\ engine \in EngineState
  BY DEF TypeOK, Messages, Others, EngineState, Seen
LEMMA TypeThen == TypeOK' <=> row' \in [Services -> Status] /\ Messages' /\ Others' /\ engine' \in EngineState
  BY DEF TypeOK, Messages, Others, EngineState, Seen

\* What a step of the engine leaves alone.
EngineLeaves == UNCHANGED <<work, pushed, failFast, served>>

---------------------------------------------------------------------------
(* The steps of the engine *)

LEMMA BeginFirstKeeps ==
  ASSUME WaveInv, BeginFirst
  PROVE  WaveInv'
<1>1. engine' \in EngineState /\ Reads(engine', "gate", 0, engine.waits, engine.seen, engine.batch, engine.todo, engine.then)
  BY GotoFields DEF WaveInv, BeginFirst, PCs
<1>2. TypeOK'
  BY <1>1, TypeParts, TypeThen DEF WaveInv, BeginFirst, Messages, Others
<1>3. Upto(0) = {} /\ Upto(-1) = {} /\ 0 < Len(Waves)
  <2>1. 0 \in 0..Len(Waves) /\ 0 < Len(Waves) /\ 0 - 1 = -1
    BY WaveTypes
  <2>. QED
    BY <2>1, WaveParts
<1>4. Stations'
  BY <1>1, <1>3 DEF WaveInv, Stations, Looking, Reads, Releases, At, BeginFirst
<1>5. Honest' /\ Remembered' /\ Vouched'
  BY <1>1, <1>3 DEF WaveInv, Honest, Remembered, Vouched, Passed, Reads, Releases, At, BeginFirst
<1>. QED
  BY <1>2, <1>4, <1>5 DEF WaveInv

LEMMA CheckKeeps ==
  ASSUME WaveInv, Check
  PROVE  WaveInv'
<1>. DEFINE f == [s \in Wave(engine.wave) |-> row[s]]
<1>0. TypeOK /\ engine.wave \in 1..Len(Waves) /\ Wave(engine.wave) \subseteq Services
  BY EngineParts, WaveTypes DEF WaveInv, Check
<1>1. f \in Seen /\ DOMAIN f = Wave(engine.wave) /\ \A s \in DOMAIN f : f[s] = row[s]
  <2>1. f \in [Wave(engine.wave) -> Status]
    BY <1>0 DEF TypeOK
  <2>. QED
    BY <1>0, <2>1, SeenTypes
<1>. HIDE DEF f
<1>2. engine' \in EngineState /\ Reads(engine', "retry", engine.wave, engine.waits, f, engine.batch, engine.todo, engine.then)
  BY <1>0, <1>1, LookFields DEF Check, PCs, f
<1>3. TypeOK'
  BY <1>0, <1>2, TypeParts, TypeThen DEF Check, Messages, Others
<1>4. Stations'
  BY <1>0, <1>1, <1>2 DEF WaveInv, Stations, Looking, Reads, Releases, At, Check
<1>5. Honest'
  BY <1>0, <1>1, <1>2 DEF WaveInv, Honest, Reads, Check
<1>6. Remembered'
  BY <1>0, <1>1, <1>2 DEF WaveInv, Remembered, Passed, Reads, Releases, At, Check, InProgress
<1>7. Vouched'
  BY <1>0, <1>2 DEF WaveInv, Vouched, Reached, Passed, Reads, Releases, At, Check
<1>. QED
  BY <1>3, <1>4, <1>5, <1>6, <1>7 DEF WaveInv

\* What the second attempt of the failed rows changes.
LEMMA RetryForms ==
  ASSUME TypeOK, Retry
  PROVE  \E again \in SUBSET (DOMAIN engine.seen), f \in Seen, pc \in PCs :
           /\ \A s \in again : engine.seen[s] = "FAILED"
           /\ DOMAIN f = DOMAIN engine.seen
           /\ \A s \in DOMAIN f : f[s] = IF s \in again THEN "QUEUED" ELSE engine.seen[s]
           /\ pc \in Verdicts(f, engine.waits)
           /\ engine' = [engine EXCEPT !.pc = pc, !.seen = f]
           /\ row' = Set(again, "QUEUED") /\ retried' = retried \cup again
           /\ smart' = [s \in Services |-> IF s \in again THEN Add(smart, s)[s] ELSE smart[s]]
<1>. DEFINE again == {s \in DOMAIN engine.seen : engine.seen[s] = "FAILED" /\ s \notin retried}
            f     == [s \in DOMAIN engine.seen |-> IF s \in again THEN "QUEUED" ELSE engine.seen[s]]
<1>1. PICK pc \in Verdicts(f, engine.waits) : engine' = [engine EXCEPT !.pc = pc, !.seen = f]
  BY DEF Retry
<1>2. pc \in PCs
  BY DEF Verdicts, PCs
<1>3. engine.seen \in Seen /\ DOMAIN engine.seen \subseteq Services /\ \A s \in DOMAIN engine.seen : engine.seen[s] \in Status
  BY EngineParts, SeenTypes
<1>4. "QUEUED" \in Status
  BY DEF Status, InProgress
<1>5. f \in [DOMAIN engine.seen -> Status]
  BY <1>3, <1>4
<1>6. f \in Seen /\ DOMAIN f = DOMAIN engine.seen
  BY <1>3, <1>5, SeenTypes
<1>7. /\ row' = Set(again, "QUEUED") /\ retried' = retried \cup again
      /\ smart' = [s \in Services |-> IF s \in again THEN Add(smart, s)[s] ELSE smart[s]]
  BY DEF Retry
<1>8. \A s \in again : engine.seen[s] = "FAILED"
  OBVIOUS
<1>9. \A s \in DOMAIN f : f[s] = IF s \in again THEN "QUEUED" ELSE engine.seen[s]
  OBVIOUS
<1>10. again \in SUBSET (DOMAIN engine.seen)
  OBVIOUS
<1>. HIDE DEF again, f
<1>. QED
  BY <1>1, <1>2, <1>6, <1>7, <1>8, <1>9, <1>10

\* A wave with a row in progress is waited for or given up, any other one is judged.
LEMMA VerdictsAre ==
  ASSUME NEW f, NEW n \in 0..MaxWaits, NEW pc \in Verdicts(f, n)
  PROVE  /\ pc \in {"early", "expire", "cancel"}
         /\ pc = "early" => n < MaxWaits
         /\ pc = "cancel" => \A s \in DOMAIN f : f[s] \notin InProgress
  BY DEF Verdicts

LEMMA RetryKeeps ==
  ASSUME WaveInv, Retry
  PROVE  WaveInv'
<1>0. /\ TypeOK /\ At("retry") /\ engine.wave \in 1..Len(Waves) /\ engine.waits \in 0..MaxWaits
      /\ DOMAIN engine.seen = Wave(engine.wave) /\ engine.then = "next"
      /\ EngineLeaves /\ UNCHANGED <<deferred, plan, mishaps>>
  BY EngineParts DEF WaveInv, Stations, Looking, At, Retry, EngineLeaves
<1>1. PICK again \in SUBSET (DOMAIN engine.seen), f \in Seen, pc \in PCs :
           /\ \A s \in again : engine.seen[s] = "FAILED"
           /\ DOMAIN f = DOMAIN engine.seen
           /\ \A s \in DOMAIN f : f[s] = IF s \in again THEN "QUEUED" ELSE engine.seen[s]
           /\ pc \in Verdicts(f, engine.waits)
           /\ engine' = [engine EXCEPT !.pc = pc, !.seen = f]
           /\ row' = Set(again, "QUEUED") /\ retried' = retried \cup again
           /\ smart' = [s \in Services |-> IF s \in again THEN Add(smart, s)[s] ELSE smart[s]]
  BY <1>0, RetryForms DEF WaveInv
<1>2. /\ pc \in {"early", "expire", "cancel"}
      /\ pc = "early" => engine.waits < MaxWaits
      /\ pc = "cancel" => \A s \in DOMAIN f : f[s] \notin InProgress
  BY <1>0, <1>1, VerdictsAre
<1>3. engine' \in EngineState /\ Reads(engine', pc, engine.wave, engine.waits, f, engine.batch, engine.todo, engine.then)
  BY <1>0, <1>1, LookFields
<1>4. row' \in [Services -> Status] /\ \A s \in Services : row'[s] = IF s \in again THEN "QUEUED" ELSE row[s]
  BY <1>0, <1>1, SetTypes DEF Status, InProgress
<1>5. again \subseteq Wave(engine.wave) /\ Wave(engine.wave) \subseteq Services
  BY <1>0, <1>1, WaveTypes
<1>6. TypeOK'
  <2>1. smart' \in [Services -> 0..MaxPending]
    <3>1. smart \in [Services -> 0..MaxPending]
      BY <1>0 DEF TypeOK
    <3>2. \A s \in Services : Add(smart, s)[s] \in 0..MaxPending
      BY <3>1, AddTypes
    <3>. QED
      BY <1>1, <3>1, <3>2
  <2>. QED
    BY <1>0, <1>1, <1>3, <1>4, <1>5, <2>1, TypeParts, TypeThen DEF Messages, Others, EngineLeaves
<1>7. Stations'
  BY <1>0, <1>1, <1>2, <1>3 DEF Stations, Looking, Reads, Releases, At
<1>8. Honest'
  <2>1. \A s \in Services : /\ row'[s] = "ACTIVE" => s \in served
                            /\ row'[s] = "INACTIVE" => s \in pushed
    BY <1>4 DEF WaveInv, Honest
  <2>2. \A s \in DOMAIN f : /\ f[s] = "ACTIVE" => s \in served
                            /\ f[s] = "INACTIVE" => s \in pushed
    BY <1>1 DEF WaveInv, Honest
  <2>. QED
    BY <1>0, <1>3, <2>1, <2>2 DEF Honest, Reads, EngineLeaves
<1>9. Remembered'
  <2>1. Passed = engine.wave - 1 /\ Passed' = engine.wave - 1
    BY <1>0, <1>2, <1>3 DEF Passed, Releases, At, Reads
  <2>2. Upto(Passed) \subseteq Services /\ Wave(engine.wave) \cap Upto(Passed) = {}
    BY <1>0, <2>1, WaveParts, WaveTypes
  <2>3. \A s \in Upto(Passed)' : row'[s] # "QUEUED"
    BY <1>4, <1>5, <2>1, <2>2 DEF WaveInv, Remembered
  <2>4. \A s \in DOMAIN f : f[s] \notin InProgress => row'[s] # "QUEUED"
    BY <1>0, <1>1, <1>4, <1>5 DEF WaveInv, Remembered, At, InProgress
  <2>5. pc = "cancel" => \A s \in Wave(engine.wave) : row'[s] # "QUEUED"
    BY <1>0, <1>1, <1>2, <2>4
  <2>. QED
    BY <1>2, <1>3, <2>3, <2>4, <2>5 DEF Remembered, At, Reads
<1>10. Vouched'
  <2>1. Passed = engine.wave - 1 /\ Passed' = engine.wave - 1
    BY <1>0, <1>2, <1>3 DEF Passed, Releases, At, Reads
  <2>2. Later(engine.wave) \subseteq Services /\ Wave(engine.wave) \cap Later(engine.wave) = {}
    <3>1. engine.wave \in 0..Len(Waves) /\ engine.wave > 0
      BY <1>0, WaveTypes
    <3>. QED
      BY <3>1, WaveParts
  <2>3. \A s \in Later(engine.wave) : row'[s] = row[s]
    BY <1>4, <1>5, <2>2
  <2>. QED
    BY <1>0, <1>2, <1>3, <2>1, <2>3 DEF WaveInv, Vouched, Reached, EngineLeaves, At, Reads
<1>. QED
  BY <1>6, <1>7, <1>8, <1>9, <1>10 DEF WaveInv

LEMMA ExpireKeeps ==
  ASSUME WaveInv, Expire
  PROVE  WaveInv'
<1>. DEFINE late == {s \in DOMAIN engine.seen : engine.seen[s] \in InProgress /\ row[s] \in InProgress}
<1>0. /\ TypeOK /\ At("expire") /\ EngineLeaves /\ UNCHANGED <<row, smart, deferred, retried, plan, mishaps>>
      /\ engine.seen \in Seen /\ DOMAIN engine.seen = Wave(engine.wave) /\ engine.wave > 0
  BY EngineParts DEF WaveInv, Stations, Looking, At, Expire, EngineLeaves
<1>1. late \in SUBSET Services
  BY <1>0, SeenTypes
<1>2. \A s \in DOMAIN engine.seen : row[s] = "QUEUED" => s \in late
  BY <1>0 DEF WaveInv, Remembered, At, InProgress
<1>. HIDE DEF late
<1>3. engine' \in EngineState /\ Reads(engine', "expire_save", engine.wave, engine.waits, engine.seen, late, engine.todo, "end")
  BY <1>0, <1>1, ExpireFields DEF Expire, PCs, late
<1>4. TypeOK'
  BY <1>0, <1>3, TypeParts, TypeThen DEF EngineLeaves, Messages, Others
<1>5. Stations'
  BY <1>0, <1>3 DEF Stations, Looking, Reads, Releases, At
<1>6. Honest'
  BY <1>0, <1>3 DEF WaveInv, Honest, Reads, EngineLeaves
<1>7. Remembered'
  BY <1>0, <1>2, <1>3 DEF WaveInv, Remembered, Passed, Reads, Releases, At
<1>8. Vouched'
  BY <1>0, <1>3 DEF WaveInv, Vouched, Reached, Passed, Reads, Releases, At, EngineLeaves
<1>. QED
  BY <1>4, <1>5, <1>6, <1>7, <1>8 DEF WaveInv

\* What a bulk update to CANCELLED leaves.
LEMMA CancelsBatch ==
  ASSUME TypeOK, row' = Set(engine.batch, "CANCELLED")
  PROVE  /\ row' \in [Services -> Status]
         /\ \A s \in Services : row'[s] = IF s \in engine.batch THEN "CANCELLED" ELSE row[s]
  BY SetTypes DEF Status, Failed

LEMMA ExpireSaveKeeps ==
  ASSUME WaveInv, ExpireSave
  PROVE  WaveInv'
<1>0. /\ TypeOK /\ At("expire_save") /\ EngineLeaves /\ UNCHANGED <<smart, deferred, retried, plan, mishaps>>
      /\ DOMAIN engine.seen = Wave(engine.wave) /\ engine.wave \in 1..Len(Waves) /\ engine.then = "end"
  BY EngineParts DEF WaveInv, Stations, Looking, At, ExpireSave, EngineLeaves
<1>1. engine' \in EngineState /\ Reads(engine', "cancel", engine.wave, engine.waits, engine.seen, {}, engine.todo, engine.then)
  BY <1>0, BatchFields DEF ExpireSave, PCs
<1>2. /\ row' \in [Services -> Status]
      /\ \A s \in Services : row'[s] = IF s \in engine.batch THEN "CANCELLED" ELSE row[s]
  BY <1>0, CancelsBatch DEF ExpireSave
<1>3. /\ Wave(engine.wave) \subseteq Services /\ Later(engine.wave) \subseteq Services
      /\ Passed = engine.wave - 1 /\ Passed' = engine.wave - 1 /\ Upto(engine.wave - 1) \subseteq Services
  <2>1. Passed = engine.wave - 1 /\ Passed' = engine.wave - 1
    BY <1>0, <1>1 DEF Passed, Releases, At, Reads
  <2>2. engine.wave \in 0..Len(Waves) /\ engine.wave > 0 /\ engine.wave - 1 \in 0..Len(Waves)
    BY <1>0, WaveTypes
  <2>. QED
    BY <2>1, <2>2, WaveParts
<1>4. TypeOK'
  BY <1>0, <1>1, <1>2, TypeParts, TypeThen DEF EngineLeaves, Messages, Others
<1>5. Stations'
  BY <1>0, <1>1 DEF Stations, Looking, Reads, Releases, At
<1>6. Honest'
  BY <1>0, <1>1, <1>2 DEF WaveInv, Honest, Reads, EngineLeaves
<1>7. Remembered'
  <2>1. \A s \in Upto(Passed)' : row'[s] # "QUEUED"
    BY <1>2, <1>3 DEF WaveInv, Remembered
  <2>2. \A s \in Wave(engine.wave) : row'[s] # "QUEUED"
    BY <1>0, <1>2, <1>3 DEF WaveInv, Remembered
  <2>. QED
    BY <1>1, <2>1, <2>2 DEF Remembered, At, Reads
<1>8. Vouched'
  BY <1>0, <1>1, <1>2, <1>3 DEF WaveInv, Vouched, Reached, EngineLeaves, At, Reads
<1>. QED
  BY <1>4, <1>5, <1>6, <1>7, <1>8 DEF WaveInv

\* Whatever depends on a failed row is among the dependents.
LEMMA DirectDependents ==
  ASSUME NEW S \in SUBSET Services
  PROVE  Dependents(S) \subseteq Services /\ \A s \in Services \ S : Deps[s] \cap S # {} => s \in Dependents(S)
  BY DEF Dependents

\* Under fail-fast, and after a timeout, all later rows are doomed; otherwise those that
\* depend on a failed one at least.
LEMMA DoomedAre ==
  ASSUME TypeOK, Stations, At("cancel")
  PROVE  /\ engine.then = "end" => Doomed = Later(engine.wave)
         /\ engine.then = "next" /\ failFast =>
              Doomed = Later(engine.wave) \/ \A s \in DOMAIN engine.seen : engine.seen[s] \notin Failed
         /\ engine.then = "next" /\ ~failFast =>
              \A s \in Services \ DOMAIN engine.seen :
                (\E d \in Deps[s] \cap DOMAIN engine.seen : engine.seen[d] \in Failed) => s \in Doomed
<1>. DEFINE failed == {s \in DOMAIN engine.seen : engine.seen[s] \in Failed}
<1>1. failed \in SUBSET Services
  BY EngineParts, SeenTypes
<1>2. CASE engine.then = "end"
  BY <1>2 DEF Doomed
<1>3. CASE engine.then = "next" /\ failFast
  <2>1. Doomed = IF failed = {} THEN {} ELSE Later(engine.wave)
    BY <1>3 DEF Doomed
  <2>. QED
    BY <1>3, <2>1
<1>4. CASE engine.then = "next" /\ ~failFast
  <2>1. Doomed = Dependents(failed)
    BY <1>4 DEF Doomed
  <2>2. \A s \in Services \ failed : Deps[s] \cap failed # {} => s \in Dependents(failed)
    BY <1>1, DirectDependents
  <2>. QED
    BY <1>4, <2>1, <2>2
<1>. QED
  BY <1>2, <1>3, <1>4, EngineParts DEF Stations

\* A wave that is judged holds what was served, what a push has replaced, and failures.
LEMMA JudgedAre ==
  ASSUME WaveInv, At("cancel"), engine.then = "next", NEW d \in DOMAIN engine.seen, engine.seen[d] \notin Failed
  PROVE  d \in Reached
<1>1. engine.seen[d] \in Status /\ engine.seen[d] \notin InProgress
  BY EngineParts, SeenTypes DEF WaveInv, Stations
<1>2. engine.seen[d] = "ACTIVE" \/ engine.seen[d] = "INACTIVE"
  BY <1>1 DEF Status
<1>. QED
  BY <1>2 DEF WaveInv, Honest, Reached

LEMMA DoomedTypes == ASSUME TypeOK, Stations, At("cancel") PROVE Doomed \subseteq Services
<1>. DEFINE failed == {s \in DOMAIN engine.seen : engine.seen[s] \in Failed}
<1>1. failed \in SUBSET Services
  BY EngineParts, SeenTypes
<1>2. Doomed \in {Later(engine.wave), {}, Dependents(failed)}
  <2>1. engine.then \in {"next", "end"}
    BY EngineParts DEF Stations, At
  <2>2. CASE engine.then = "end"
    BY <2>2 DEF Doomed
  <2>3. CASE engine.then # "end" /\ failFast
    <3>1. Doomed = IF failed = {} THEN {} ELSE Later(engine.wave)
      BY <2>3 DEF Doomed
    <3>. QED
      BY <3>1
  <2>4. CASE engine.then # "end" /\ ~failFast
    <3>1. Doomed = Dependents(failed)
      BY <2>4 DEF Doomed
    <3>. QED
      BY <3>1
  <2>. QED
    BY <2>2, <2>3, <2>4 DEF TypeOK
<1>. QED
  BY <1>1, <1>2, DirectDependents, WaveParts, EngineParts

LEMMA CancelForms ==
  ASSUME WaveInv, Cancel
  PROVE  /\ EngineLeaves /\ UNCHANGED <<row, smart, deferred, retried, plan, mishaps>>
         /\ \E batch \in SUBSET Services :
              /\ engine' \in EngineState
              /\ Reads(engine', "cancel_save", engine.wave, engine.waits, engine.seen, batch, engine.todo, engine.then)
              /\ batch = {s \in Doomed : row[s] = "QUEUED"}
<1>. DEFINE batch == {s \in Doomed : row[s] = "QUEUED"}
<1>1. batch \in SUBSET Services
  BY DoomedTypes DEF WaveInv, Cancel
<1>. HIDE DEF batch
<1>2. /\ engine' \in EngineState
      /\ Reads(engine', "cancel_save", engine.wave, engine.waits, engine.seen, batch, engine.todo, engine.then)
  BY <1>1, BatchFields DEF WaveInv, Cancel, PCs, batch
<1>3. batch = {s \in Doomed : row[s] = "QUEUED"}
  BY DEF batch
<1>4. EngineLeaves /\ UNCHANGED <<row, smart, deferred, retried, plan, mishaps>>
  BY DEF Cancel, EngineLeaves
<1>. QED
  BY <1>1, <1>2, <1>3, <1>4

LEMMA CancelKeeps ==
  ASSUME WaveInv, Cancel
  PROVE  WaveInv'
<1>0. /\ TypeOK /\ Stations /\ At("cancel") /\ engine.then \in {"next", "end"}
      /\ DOMAIN engine.seen = Wave(engine.wave) /\ engine.wave > 0
  BY EngineParts DEF WaveInv, Stations, Looking, At, Cancel
<1>1. EngineLeaves /\ UNCHANGED <<row, smart, deferred, retried, plan, mishaps>>
  BY CancelForms
<1>2. PICK batch \in SUBSET Services :
        /\ engine' \in EngineState
        /\ Reads(engine', "cancel_save", engine.wave, engine.waits, engine.seen, batch, engine.todo, engine.then)
        /\ batch = {s \in Doomed : row[s] = "QUEUED"}
  BY CancelForms
<1>4. TypeOK'
  BY <1>0, <1>1, <1>2, TypeParts, TypeThen DEF EngineLeaves, Messages, Others
<1>5. Stations'
  BY <1>0, <1>2 DEF Stations, Looking, Reads, Releases, At
<1>6. Honest'
  BY <1>1, <1>2 DEF WaveInv, Honest, Reads, EngineLeaves
<1>7. Remembered'
  <2>1. engine.then = "end" => \A s \in Later(engine.wave) : row[s] = "QUEUED" => s \in batch
    BY <1>0, <1>2, DoomedAre
  <2>. QED
    BY <1>0, <1>1, <1>2, <2>1 DEF WaveInv, Remembered, Passed, Reads, Releases, At
<1>8. Vouched'
  <2>1. failFast /\ engine.then = "next" =>
          \/ Wave(engine.wave) \subseteq Reached
          \/ \A s \in Later(engine.wave) : row[s] = "QUEUED" => s \in batch
    BY <1>0, <1>2, DoomedAre, JudgedAre
  <2>2. Passed' = Passed
    BY <1>0, <1>2 DEF Passed, Reads, Releases, At
  <2>. QED
    BY <1>1, <1>2, <2>1, <2>2 DEF WaveInv, Vouched, Reached, Reads, At, EngineLeaves
<1>. QED
  BY <1>4, <1>5, <1>6, <1>7, <1>8 DEF WaveInv

LEMMA CancelSaveForms ==
  ASSUME WaveInv, CancelSave
  PROVE  /\ EngineLeaves /\ UNCHANGED <<smart, deferred, retried, plan, mishaps>>
         /\ engine' \in EngineState
         /\ \E pc \in {"final", "gate"} :
              /\ Reads(engine', pc, engine.wave, engine.waits, engine.seen, {}, engine.todo, engine.then)
              /\ pc = "gate" <=> engine.then = "next" /\ engine.wave < Len(Waves)
         /\ row' \in [Services -> Status]
         /\ \A s \in Services : row'[s] = IF s \in engine.batch THEN "CANCELLED" ELSE row[s]
<1>. DEFINE pc == IF engine.then = "end" \/ engine.wave = Len(Waves) THEN "final" ELSE "gate"
<1>0. TypeOK /\ Stations /\ At("cancel_save")
  BY DEF WaveInv, CancelSave
<1>1. pc \in {"final", "gate"} /\ (pc = "gate" <=> engine.then = "next" /\ engine.wave < Len(Waves))
  BY <1>0, EngineParts, WaveTypes DEF Stations, At
<1>2. engine' = [engine EXCEPT !.batch = {}, !.pc = pc]
  BY DEF CancelSave
<1>. HIDE DEF pc
<1>3. pc \in PCs /\ {} \in SUBSET Services
  BY <1>1 DEF PCs
<1>4. engine' \in EngineState /\ Reads(engine', pc, engine.wave, engine.waits, engine.seen, {}, engine.todo, engine.then)
  BY <1>0, <1>2, <1>3, BatchToPc
<1>5. /\ row' \in [Services -> Status]
      /\ \A s \in Services : row'[s] = IF s \in engine.batch THEN "CANCELLED" ELSE row[s]
  BY <1>0, CancelsBatch DEF CancelSave
<1>6. EngineLeaves /\ UNCHANGED <<smart, deferred, retried, plan, mishaps>>
  BY DEF CancelSave, EngineLeaves
<1>. QED
  BY <1>1, <1>4, <1>5, <1>6

LEMMA CancelSaveKeeps ==
  ASSUME WaveInv, CancelSave
  PROVE  WaveInv'
<1>0. /\ TypeOK /\ Stations /\ At("cancel_save") /\ engine.then \in {"next", "end"}
      /\ engine.wave \in 0..Len(Waves) /\ engine.wave > 0
  BY EngineParts DEF WaveInv, Stations, At, CancelSave
<1>1. /\ EngineLeaves /\ UNCHANGED <<smart, deferred, retried, plan, mishaps>> /\ engine' \in EngineState
      /\ row' \in [Services -> Status]
      /\ \A s \in Services : row'[s] = IF s \in engine.batch THEN "CANCELLED" ELSE row[s]
  BY CancelSaveForms
<1>2. PICK pc \in {"final", "gate"} :
        /\ Reads(engine', pc, engine.wave, engine.waits, engine.seen, {}, engine.todo, engine.then)
        /\ pc = "gate" <=> engine.then = "next" /\ engine.wave < Len(Waves)
  BY CancelSaveForms
<1>3. /\ Upto(engine.wave) = Upto(engine.wave - 1) \cup Wave(engine.wave)
      /\ Wave(engine.wave) \subseteq Services /\ Later(engine.wave) \subseteq Services
      /\ Upto(engine.wave) \subseteq Services /\ Services = Upto(engine.wave) \cup Later(engine.wave)
      /\ engine.wave = Len(Waves) => Later(engine.wave) = {}
  BY <1>0, WaveParts
<1>4. /\ Passed = engine.wave - 1
      /\ pc = "gate" => Passed' = engine.wave
      /\ pc = "final" => Passed' = engine.wave - 1
  BY <1>0, <1>2 DEF Passed, Releases, At, Reads
<1>5. TypeOK'
  BY <1>0, <1>1, TypeParts, TypeThen DEF EngineLeaves, Messages, Others
<1>6. Stations'
  BY <1>0, <1>2 DEF Stations, Looking, Reads, Releases, At
<1>7. Honest'
  BY <1>1, <1>2 DEF WaveInv, Honest, Reads, EngineLeaves
<1>8. \A s \in Upto(engine.wave) : row'[s] # "QUEUED"
  <2>1. \A s \in Upto(engine.wave) : row[s] # "QUEUED"
    BY <1>0, <1>3, <1>4 DEF WaveInv, Remembered, At
  <2>. QED
    BY <1>1, <1>3, <2>1
<1>9. pc = "final" => \A s \in Services : row'[s] # "QUEUED"
  <2>1. engine.then = "end" => \A s \in Later(engine.wave) : row'[s] # "QUEUED"
    BY <1>0, <1>1, <1>3 DEF WaveInv, Remembered
  <2>2. pc = "final" => engine.then = "end" \/ engine.wave = Len(Waves)
    BY <1>0, <1>2, WaveTypes
  <2>. QED
    BY <1>3, <1>8, <2>1, <2>2
<1>10. Remembered'
  <2>1. \A s \in Upto(Passed)' : row'[s] # "QUEUED"
    BY <1>3, <1>4, <1>8
  <2>. QED
    BY <1>2, <1>9, <2>1 DEF Remembered, At, Reads
<1>11. Vouched'
  <2>1. ASSUME failFast, NEW s \in Later(engine.wave), row'[s] = "QUEUED"
        PROVE  Upto(Passed') \subseteq Reached
    <3>1. row[s] = "QUEUED" /\ s \notin engine.batch
      BY <1>1, <1>3, <2>1
    <3>2. Upto(engine.wave - 1) \subseteq Reached
      BY <1>4, <2>1, <3>1 DEF WaveInv, Vouched
    <3>3. pc = "gate" => Wave(engine.wave) \subseteq Reached
      BY <1>0, <1>2, <2>1, <3>1 DEF WaveInv, Vouched
    <3>. QED
      BY <1>2, <1>3, <1>4, <3>2, <3>3
  <2>. QED
    BY <1>1, <1>2, <2>1 DEF Vouched, Reached, EngineLeaves, At, Reads
<1>. QED
  BY <1>5, <1>6, <1>7, <1>10, <1>11 DEF WaveInv

\* The engine sends itself on: the same wave once more, or the one after it.
LEMMA SendKeeps ==
  ASSUME WaveInv, NEW k \in 0..Len(Waves), NEW n \in 0..MaxWaits, engine' = Send(k, n),
         EngineLeaves, UNCHANGED <<row, retried, plan>>, Messages', mishaps' \in 0..MaxMishaps,
         Upto(k - 1) \subseteq Upto(Passed), Later(k) \subseteq Later(engine.wave)
  PROVE  WaveInv'
<1>1. engine' \in EngineState /\ Reads(engine', "queued", k, n, Nothing, {}, {}, "next")
  BY SendFields
<1>2. TypeOK'
  BY <1>1, TypeParts, TypeThen DEF WaveInv, EngineLeaves, Messages, Others
<1>3. Stations'
  BY <1>1 DEF Stations, Looking, Reads, Releases, At
<1>4. Honest'
  BY <1>1, SeenTypes DEF WaveInv, Honest, Reads, EngineLeaves
<1>5. Passed' = k - 1
  BY <1>1 DEF Passed, Reads, Releases, At
<1>6. Remembered'
  BY <1>1, <1>5 DEF WaveInv, Remembered, Reads, At
<1>7. Vouched'
  BY <1>1, <1>5 DEF WaveInv, Vouched, Reached, Reads, At, EngineLeaves
<1>. QED
  BY <1>2, <1>3, <1>4, <1>6, <1>7 DEF WaveInv

LEMMA GateLowKeeps ==
  ASSUME WaveInv, GateLow
  PROVE  WaveInv'
<1>1. TypeOK /\ engine.wave \in 0..Len(Waves) /\ At("gate") /\ EngineLeaves /\ UNCHANGED <<row, smart, deferred, retried, plan>>
  BY EngineParts DEF WaveInv, GateLow, EngineLeaves
<1>2. engine' = Send(engine.wave, 0) /\ mishaps' \in 0..MaxMishaps /\ 0 \in 0..MaxWaits
  BY <1>1, MishapType, BoundsAssumption DEF GateLow
<1>3. Upto(engine.wave - 1) \subseteq Upto(Passed)
  <2>1. Passed = engine.wave
    BY <1>1 DEF Passed, Releases
  <2>2. engine.wave = 0 \/ engine.wave > 0
    BY <1>1, WaveTypes
  <2>. QED
    BY <1>1, <2>1, <2>2, WaveParts
<1>4. Messages'
  BY <1>1, TypeParts DEF Messages
<1>. QED
  BY <1>1, <1>2, <1>3, <1>4, SendKeeps

LEMMA DispatchedKeeps ==
  ASSUME WaveInv, Dispatched
  PROVE  WaveInv'
<1>1. /\ TypeOK /\ Stations /\ engine.wave \in 0..Len(Waves) /\ engine.waits \in 0..MaxWaits /\ At("dispatch")
      /\ EngineLeaves /\ UNCHANGED <<row, smart, deferred, retried, plan, mishaps>> /\ engine.then \in {"next", "recheck"}
  BY EngineParts DEF WaveInv, Dispatched, EngineLeaves, Stations, At
<1>2. Messages' /\ mishaps' \in 0..MaxMishaps /\ 0 \in 0..MaxWaits
  BY <1>1, TypeParts, BoundsAssumption DEF Messages, Others
<1>3. CASE engine.then = "recheck"
  <2>1. engine' = Send(engine.wave, engine.waits + 1) /\ engine.waits + 1 \in 0..MaxWaits
    BY <1>1, <1>3, BoundsAssumption DEF Dispatched, Stations
  <2>2. Passed = engine.wave - 1
    BY <1>1, <1>3 DEF Passed, Releases, At
  <2>. QED
    BY <1>1, <1>2, <2>1, <2>2, SendKeeps
<1>4. CASE engine.then = "next"
  <2>1. engine' = Send(engine.wave + 1, 0) /\ engine.wave < Len(Waves)
    BY <1>1, <1>4 DEF Dispatched, Stations, Releases
  <2>2. Passed = engine.wave
    BY <1>1, <1>4 DEF Passed, Releases, At
  <2>3. engine.wave + 1 \in 0..Len(Waves) /\ (engine.wave + 1) - 1 = engine.wave
    BY <1>1, <2>1, WaveTypes
  <2>4. Later(engine.wave + 1) \subseteq Later(engine.wave)
    BY <1>1, <2>1, WaveParts
  <2>. QED
    BY <1>1, <1>2, <2>1, <2>2, <2>3, <2>4, SendKeeps
<1>. QED
  BY <1>1, <1>3, <1>4

\* The rows of a wave are about to be dispatched, all or those the early release has found.
LEMMA ReleaseKeeps ==
  ASSUME WaveInv, engine.pc \in {"gate", "early"}, NEW todo \in SUBSET Services, NEW then \in {"next", "recheck"},
         engine' \in EngineState,
         Reads(engine', "dispatch", engine.wave, engine.waits, Nothing, engine.batch, todo, then),
         then = "next" <=> At("gate"),
         todo \subseteq IF engine.wave = Len(Waves) THEN {} ELSE Wave(engine.wave + 1),
         EngineLeaves, UNCHANGED <<row, smart, deferred, retried, plan, mishaps>>
  PROVE  WaveInv'
<1>1. TypeOK'
  BY TypeParts, TypeThen DEF WaveInv, EngineLeaves, Messages, Others
<1>2. Passed' = Passed
  BY DEF Passed, Releases, At, Reads
<1>3. Stations'
  BY DEF WaveInv, Stations, Looking, Reads, Releases, At
<1>4. Honest'
  BY SeenTypes DEF WaveInv, Honest, Reads, EngineLeaves
<1>5. Remembered'
  BY <1>2 DEF WaveInv, Remembered, Reads, At
<1>6. Vouched'
  BY <1>2 DEF WaveInv, Vouched, Reached, Reads, At, EngineLeaves
<1>. QED
  BY <1>1, <1>3, <1>4, <1>5, <1>6 DEF WaveInv

LEMMA GateForms ==
  ASSUME WaveInv, Gate
  PROVE  /\ At("gate") /\ EngineLeaves /\ UNCHANGED <<row, smart, deferred, retried, plan, mishaps>>
         /\ engine.wave \in 0..Len(Waves) /\ engine.wave < Len(Waves) /\ Wave(engine.wave + 1) \subseteq Services
         /\ engine' \in EngineState
         /\ Reads(engine', "dispatch", engine.wave, engine.waits, Nothing, engine.batch, Wave(engine.wave + 1), "next")
<1>1. At("gate") /\ EngineLeaves /\ UNCHANGED <<row, smart, deferred, retried, plan, mishaps>>
  BY DEF Gate, EngineLeaves
<1>2. engine.wave \in 0..Len(Waves) /\ engine.wave < Len(Waves) /\ engine.then = "next"
  BY <1>1, EngineParts DEF WaveInv, Stations, Releases, At
<1>3. Wave(engine.wave + 1) \in SUBSET Services
  BY <1>2, WaveParts
<1>4. /\ engine' \in EngineState
      /\ Reads(engine', "dispatch", engine.wave, engine.waits, Nothing, engine.batch, Wave(engine.wave + 1), engine.then)
  BY <1>3, GateFields, SeenTypes DEF WaveInv, Gate, PCs
<1>. QED
  BY <1>1, <1>2, <1>3, <1>4

LEMMA GateKeeps ==
  ASSUME WaveInv, Gate
  PROVE  WaveInv'
<1>1. engine.wave # Len(Waves)
  BY GateForms, WaveTypes
<1>. QED
  BY <1>1, GateForms, ReleaseKeeps DEF At

LEMMA EarlyForms ==
  ASSUME WaveInv, Early
  PROVE  /\ At("early") /\ EngineLeaves /\ UNCHANGED <<row, smart, deferred, retried, plan, mishaps>>
         /\ \E todo \in SUBSET Services :
              /\ todo \subseteq (IF engine.wave = Len(Waves) THEN {} ELSE Wave(engine.wave + 1))
              /\ \A s \in todo : Eligible(s)
              /\ engine' \in EngineState
              /\ Reads(engine', "dispatch", engine.wave, engine.waits, Nothing, engine.batch, todo, "recheck")
<1>. DEFINE todo == IF engine.wave = Len(Waves) THEN {} ELSE {s \in Wave(engine.wave + 1) : Eligible(s)}
<1>1. At("early") /\ EngineLeaves /\ UNCHANGED <<row, smart, deferred, retried, plan, mishaps>>
  BY DEF Early, EngineLeaves
<1>2. engine.wave \in 0..Len(Waves)
  BY EngineParts DEF WaveInv
<1>3. engine.wave # Len(Waves) => Wave(engine.wave + 1) \subseteq Services
  <2>1. engine.wave # Len(Waves) => engine.wave < Len(Waves)
    BY <1>2, WaveTypes
  <2>. QED
    BY <1>2, <2>1, WaveParts
<1>4. /\ todo \in SUBSET Services /\ \A s \in todo : Eligible(s)
      /\ todo \subseteq (IF engine.wave = Len(Waves) THEN {} ELSE Wave(engine.wave + 1))
  BY <1>3
<1>5. engine' = [engine EXCEPT !.pc = "dispatch", !.seen = Nothing, !.then = "recheck", !.todo = todo]
  BY DEF Early
<1>. HIDE DEF todo
<1>6. /\ engine' \in EngineState
      /\ Reads(engine', "dispatch", engine.wave, engine.waits, Nothing, engine.batch, todo, "recheck")
  BY <1>4, <1>5, EarlyFields, SeenTypes DEF WaveInv, PCs
<1>. QED
  BY <1>1, <1>4, <1>6

LEMMA EarlyKeeps ==
  ASSUME WaveInv, Early
  PROVE  WaveInv'
<1>1. PICK todo \in SUBSET Services :
        /\ todo \subseteq (IF engine.wave = Len(Waves) THEN {} ELSE Wave(engine.wave + 1))
        /\ engine' \in EngineState
        /\ Reads(engine', "dispatch", engine.wave, engine.waits, Nothing, engine.batch, todo, "recheck")
  BY EarlyForms
<1>. QED
  BY <1>1, EarlyForms, ReleaseKeeps DEF At

\* One row, or all of a call, are dispatched, deferred or passed over.
LEMMA DispatchForms ==
  ASSUME TypeOK, Stations, Dispatch \/ DispatchLow
  PROVE  /\ At("dispatch") /\ EngineLeaves /\ UNCHANGED <<retried, plan>> /\ mishaps' \in 0..MaxMishaps
         /\ \E S \in SUBSET Services :
              /\ engine' \in EngineState
              /\ Reads(engine', "dispatch", engine.wave, engine.waits, engine.seen, engine.batch, engine.todo \ S, engine.then)
         /\ row' \in [Services -> Status] /\ Messages'
         /\ \A s \in Services :
              /\ row'[s] = row[s] \/ (row'[s] = "REVIEW" /\ row[s] = "QUEUED" /\ s \in engine.todo)
              /\ smart'[s] > 0 \/ deferred'[s] > 0 =>
                   smart[s] > 0 \/ deferred[s] > 0 \/ (row[s] = "QUEUED" /\ s \in engine.todo)
<1>0. /\ engine.todo \subseteq Services /\ row \in [Services -> Status] /\ mishaps \in 0..MaxMishaps
      /\ smart \in [Services -> 0..MaxPending] /\ deferred \in [Services -> 0..MaxPending]
  BY EngineParts DEF TypeOK
<1>1. CASE Dispatch
  <2>1. PICK s \in engine.todo :
          /\ At("dispatch")
          /\ engine' = [engine EXCEPT !.todo = @ \ {s}]
          /\ \/ row[s] # "QUEUED" /\ UNCHANGED <<row, smart, deferred>>
             \/ row[s] = "QUEUED" /\ deferred' = Add(deferred, s) /\ UNCHANGED <<row, smart>>
             \/ row[s] = "QUEUED" /\ row' = Set({s}, "REVIEW") /\ smart' = Add(smart, s) /\ UNCHANGED deferred
          /\ UNCHANGED <<work, retried, pushed, plan, failFast, served, mishaps>>
    BY <1>1 DEF Dispatch
  <2>2. /\ engine' \in EngineState
        /\ Reads(engine', "dispatch", engine.wave, engine.waits, engine.seen, engine.batch, engine.todo \ {s}, engine.then)
    BY <2>1, TodoFields DEF At
  <2>3. {s} \in SUBSET Services
    BY <1>0
  <2>4. /\ Add(smart, s) \in [Services -> 0..MaxPending] /\ \A r \in Services \ {s} : Add(smart, s)[r] = smart[r]
        /\ Add(deferred, s) \in [Services -> 0..MaxPending] /\ \A r \in Services \ {s} : Add(deferred, s)[r] = deferred[r]
    BY <1>0, AddTypes
  <2>5. /\ row' \in [Services -> Status]
        /\ \A r \in Services : row'[r] = row[r] \/ (row'[r] = "REVIEW" /\ row[r] = "QUEUED" /\ r \in engine.todo)
    <3>1. CASE UNCHANGED row
      BY <1>0, <3>1
    <3>2. CASE row[s] = "QUEUED" /\ row' = Set({s}, "REVIEW")
      BY <1>0, <3>2, SetTypes DEF Status, InProgress
    <3>. QED
      BY <2>1, <3>1, <3>2
  <2>6. Messages'
    BY <1>0, <2>1, <2>4 DEF Messages
  <2>7. \A r \in Services : smart'[r] > 0 \/ deferred'[r] > 0 =>
           smart[r] > 0 \/ deferred[r] > 0 \/ (row[r] = "QUEUED" /\ r \in engine.todo)
    <3>1. ASSUME NEW r \in Services \ {s} PROVE smart'[r] = smart[r] /\ deferred'[r] = deferred[r]
      BY <2>1, <2>4, <3>1
    <3>2. row[s] # "QUEUED" => smart'[s] = smart[s] /\ deferred'[s] = deferred[s]
      BY <2>1
    <3>. QED
      BY <3>1, <3>2
  <2>. QED
    BY <1>0, <2>1, <2>2, <2>3, <2>5, <2>6, <2>7 DEF EngineLeaves
<1>2. CASE DispatchLow
  <2>1. PICK S \in SUBSET engine.todo :
          /\ deferred' = [s \in Services |-> IF s \in S /\ row[s] = "QUEUED" THEN Add(deferred, s)[s] ELSE deferred[s]]
          /\ engine' = [engine EXCEPT !.todo = @ \ S]
    BY <1>2 DEF DispatchLow
  <2>2. /\ At("dispatch") /\ Mishap("memory")
        /\ UNCHANGED <<row, work, smart, retried, pushed, plan, failFast, served>>
    BY <1>2 DEF DispatchLow
  <2>3. /\ engine' \in EngineState
        /\ Reads(engine', "dispatch", engine.wave, engine.waits, engine.seen, engine.batch, engine.todo \ S, engine.then)
    BY <2>1, <2>2, TodoFields DEF At
  <2>4. S \in SUBSET Services /\ mishaps' \in 0..MaxMishaps
    BY <1>0, <2>2, MishapType
  <2>5. \A s \in Services : Add(deferred, s)[s] \in 0..MaxPending
    BY <1>0, AddTypes
  <2>6. Messages'
    BY <1>0, <2>1, <2>2, <2>5 DEF Messages
  <2>7. \A r \in Services : smart'[r] = smart[r]
                            /\ (deferred'[r] = deferred[r] \/ (row[r] = "QUEUED" /\ r \in engine.todo))
    BY <2>1, <2>2
  <2>. QED
    BY <1>0, <2>2, <2>3, <2>4, <2>6, <2>7 DEF EngineLeaves
<1>. QED
  BY <1>1, <1>2

LEMMA DispatchKeeps ==
  ASSUME WaveInv, Dispatch \/ DispatchLow
  PROVE  WaveInv'
<1>0. TypeOK /\ Stations
  BY DEF WaveInv
<1>1. /\ At("dispatch") /\ EngineLeaves /\ UNCHANGED <<retried, plan>> /\ mishaps' \in 0..MaxMishaps
      /\ row' \in [Services -> Status] /\ Messages'
      /\ \A s \in Services : row'[s] = row[s] \/ (row'[s] = "REVIEW" /\ row[s] = "QUEUED" /\ s \in engine.todo)
  BY <1>0, DispatchForms
<1>2. PICK S \in SUBSET Services :
        /\ engine' \in EngineState
        /\ Reads(engine', "dispatch", engine.wave, engine.waits, engine.seen, engine.batch, engine.todo \ S, engine.then)
  BY <1>0, DispatchForms
<1>3. TypeOK'
  BY <1>0, <1>1, <1>2, TypeParts, TypeThen DEF EngineLeaves, Messages, Others
<1>4. Passed' = Passed
  BY <1>1, <1>2 DEF Passed, Releases, At, Reads
<1>5. Stations'
  BY <1>0, <1>1, <1>2 DEF Stations, Looking, Reads, Releases, At
<1>6. Honest'
  BY <1>1, <1>2 DEF WaveInv, Honest, Reads, EngineLeaves
<1>7. Upto(Passed) \subseteq Services /\ Later(engine.wave) \subseteq Services
  <2>1. engine.wave \in 0..Len(Waves) /\ Passed \in {engine.wave, engine.wave - 1}
    BY <1>0, EngineParts DEF Passed
  <2>2. engine.wave = 0 \/ engine.wave > 0
    BY <2>1, WaveTypes
  <2>. QED
    BY <2>1, <2>2, WaveParts
<1>8. Remembered'
  <2>1. \A s \in Upto(Passed)' : row'[s] # "QUEUED"
    BY <1>1, <1>4, <1>7 DEF WaveInv, Remembered
  <2>. QED
    BY <1>1, <1>2, <2>1 DEF Remembered, Reads, At
<1>9. Vouched'
  BY <1>1, <1>2, <1>4, <1>7 DEF WaveInv, Vouched, Reached, Reads, At, EngineLeaves
<1>. QED
  BY <1>3, <1>5, <1>6, <1>8, <1>9 DEF WaveInv

LEMMA EndKeeps ==
  ASSUME WaveInv, NEW pc \in {"done", "lost"}, engine' = Ended(pc), EngineLeaves,
         UNCHANGED <<row, smart, deferred, retried>>, plan' \in {"DEPLOYING", "COMPLETED", "FAILED"},
         mishaps' \in 0..MaxMishaps, pc = "done" => \A s \in Services : row[s] # "QUEUED"
  PROVE  WaveInv'
<1>1. engine' \in EngineState /\ Reads(engine', pc, 0, 0, Nothing, {}, {}, "next")
  BY EndedFields DEF PCs
<1>2. TypeOK'
  BY <1>1, TypeParts, TypeThen DEF WaveInv, EngineLeaves, Messages, Others
<1>3. Stations'
  BY <1>1 DEF Stations, Looking, Reads, Releases, At
<1>4. Honest'
  BY <1>1, SeenTypes DEF WaveInv, Honest, Reads, EngineLeaves
<1>5. Passed' = 0 - 1 /\ Upto(0 - 1) = {}
  <2>1. 0 \in 0..Len(Waves)
    BY WaveTypes
  <2>. QED
    BY <1>1, <2>1, WaveParts DEF Passed, Reads, Releases, At
<1>6. Remembered'
  BY <1>1, <1>5 DEF Remembered, Reads, At
<1>7. Vouched'
  BY <1>1, <1>5 DEF Vouched, Reads, At
<1>. QED
  BY <1>2, <1>3, <1>4, <1>6, <1>7 DEF WaveInv

LEMMA FinalizeKeeps ==
  ASSUME WaveInv, Finalize
  PROVE  WaveInv'
<1>0. /\ TypeOK /\ At("final") /\ EngineLeaves /\ UNCHANGED <<row, smart, deferred, retried, plan, mishaps>>
      /\ plan \in {"DEPLOYING", "COMPLETED", "FAILED"} /\ mishaps \in 0..MaxMishaps
      /\ \A s \in Services : row[s] # "QUEUED"
  BY DEF WaveInv, TypeOK, Finalize, EngineLeaves, Remembered, At
<1>1. CASE \E s \in Services : row[s] \in InProgress
  <2>1. engine' = Ended("done")
    BY <1>1 DEF Finalize
  <2>. QED
    BY <1>0, <2>1, EndKeeps
<1>2. CASE \A s \in Services : row[s] \notin InProgress
  <2>1. engine' = [engine EXCEPT !.pc = "final_save", !.seen = row]
    BY <1>2 DEF Finalize
  <2>2. row \in Seen /\ DOMAIN row = Services
    BY <1>0, SeenTypes DEF TypeOK
  <2>3. engine' \in EngineState /\ Reads(engine', "final_save", engine.wave, engine.waits, row, engine.batch, engine.todo, engine.then)
    BY <1>0, <2>1, <2>2, LookFields DEF PCs
  <2>4. TypeOK'
    BY <1>0, <2>3, TypeParts, TypeThen DEF EngineLeaves, Messages, Others
  <2>5. Passed' = Passed
    BY <1>0, <2>3 DEF Passed, Releases, At, Reads
  <2>6. Stations'
    BY <1>2, <2>2, <2>3 DEF Stations, Looking, Reads, Releases, At
  <2>7. Honest'
    BY <1>0, <2>2, <2>3 DEF WaveInv, Honest, Reads, EngineLeaves
  <2>8. Remembered'
    BY <1>0, <2>3, <2>5 DEF WaveInv, Remembered, Reads, At
  <2>9. Vouched'
    BY <1>0, <2>3, <2>5 DEF WaveInv, Vouched, Reached, Reads, At, EngineLeaves
  <2>. QED
    BY <2>4, <2>6, <2>7, <2>8, <2>9 DEF WaveInv
<1>. QED
  BY <1>1, <1>2

LEMMA FinalizeSaveKeeps ==
  ASSUME WaveInv, FinalizeSave
  PROVE  WaveInv'
<1>1. /\ EngineLeaves /\ UNCHANGED <<row, smart, deferred, retried, mishaps>> /\ engine' = Ended("done")
      /\ plan' \in {"DEPLOYING", "COMPLETED", "FAILED"}
  BY DEF FinalizeSave, EngineLeaves
<1>2. mishaps' \in 0..MaxMishaps /\ \A s \in Services : row[s] # "QUEUED"
  BY <1>1 DEF WaveInv, TypeOK, Remembered, FinalizeSave, At
<1>. QED
  BY <1>1, <1>2, EndKeeps

LEMMA EngineDiesKeeps ==
  ASSUME WaveInv, EngineDies
  PROVE  WaveInv'
<1>1. /\ EngineLeaves /\ UNCHANGED <<row, smart, deferred, retried>> /\ engine' = Ended("lost")
      /\ plan' \in {"DEPLOYING", "COMPLETED", "FAILED"}
  BY DEF EngineDies, EngineLeaves, WaveInv, TypeOK
<1>2. mishaps' \in 0..MaxMishaps
  BY MishapType DEF WaveInv, EngineDies
<1>. QED
  BY <1>1, <1>2, EndKeeps

LEMMA EngineKeeps ==
  ASSUME WaveInv, EngineStep \/ EngineDies
  PROVE  WaveInv'
  BY BeginFirstKeeps, CheckKeeps, RetryKeeps, ExpireKeeps, ExpireSaveKeeps, CancelKeeps, CancelSaveKeeps,
     GateLowKeeps, GateKeeps, EarlyKeeps, DispatchKeeps, DispatchedKeeps, FinalizeKeeps, FinalizeSaveKeeps,
     EngineDiesKeeps DEF EngineStep

---------------------------------------------------------------------------
(* The workers, the beat tasks, users and mishaps *)

\* They put no row back to QUEUED and tell the truth about what was served.
Elsewhere ==
  /\ UNCHANGED <<engine, failFast, retried>>
  /\ served \subseteq served' /\ pushed \subseteq pushed' /\ served' \subseteq Services /\ pushed' \subseteq Services
  /\ row' \in [Services -> Status]
  /\ \A s \in Services : row'[s] # row[s] => /\ row'[s] \notin {"QUEUED", "REVIEW"}
                                             /\ row'[s] = "ACTIVE" => s \in served'
                                             /\ row'[s] = "INACTIVE" => s \in pushed'
  /\ Messages' /\ work' \in [Services -> {"none", "build", "deploy"}]
  /\ plan' \in {"DEPLOYING", "COMPLETED", "FAILED"} /\ mishaps' \in 0..MaxMishaps

LEMMA ElsewhereKeeps ==
  ASSUME WaveInv, Elsewhere
  PROVE  WaveInv'
<1>1. TypeOK'
  BY TypeParts, TypeThen DEF WaveInv, Elsewhere, Others
<1>2. Stations'
  BY DEF WaveInv, Stations, Releases, At, Elsewhere
<1>3. Honest'
  BY DEF WaveInv, Honest, Elsewhere
<1>4. Passed' = Passed /\ Upto(Passed) \subseteq Services /\ Later(engine.wave) \subseteq Services
  <2>1. Passed' = Passed
    BY DEF Passed, Releases, At, Elsewhere
  <2>2. engine.wave \in 0..Len(Waves) /\ Passed \in {engine.wave, engine.wave - 1}
    BY EngineParts DEF WaveInv, Passed
  <2>3. engine.wave = 0 \/ engine.wave > 0
    BY <2>2, WaveTypes
  <2>. QED
    BY <2>1, <2>2, <2>3, WaveParts
<1>5. \A s \in Services : row'[s] = "QUEUED" => row[s] = "QUEUED"
  BY DEF Elsewhere
<1>6. DOMAIN engine.seen \subseteq Services
  BY EngineParts, SeenTypes DEF WaveInv
<1>7. engine.pc \in {"cancel", "cancel_save"} => Wave(engine.wave) \subseteq Services
  <2>1. engine.pc \in {"cancel", "cancel_save"} => engine.wave \in 1..Len(Waves)
    BY EngineParts, WaveTypes DEF WaveInv, Stations, Looking, At
  <2>. QED
    BY <2>1, WaveTypes
<1>8. Remembered'
  BY <1>4, <1>5, <1>6, <1>7 DEF WaveInv, Remembered, At, Elsewhere
<1>9. Vouched'
  BY <1>4, <1>5 DEF WaveInv, Vouched, Reached, At, Elsewhere
<1>. QED
  BY <1>1, <1>2, <1>3, <1>8, <1>9 DEF WaveInv

\* Only a row that was sent, is worked on or was built goes on, and nothing new is sent.
Onward ==
  \A s \in Services :
    /\ row'[s] # row[s] /\ row'[s] # "CANCELLED" =>
         smart[s] > 0 \/ work[s] # "none" \/ row[s] \notin {"QUEUED", "CANCELLED"}
    /\ smart'[s] > 0 \/ deferred'[s] > 0 \/ work'[s] # "none" =>
         smart[s] > 0 \/ deferred[s] > 0 \/ work[s] # "none"

LEMMA TypesOf ==
  ASSUME TypeOK
  PROVE  /\ row \in [Services -> Status] /\ work \in [Services -> {"none", "build", "deploy"}]
         /\ smart \in [Services -> 0..MaxPending] /\ deferred \in [Services -> 0..MaxPending]
         /\ pushed \subseteq Services /\ served \subseteq Services
         /\ plan \in {"DEPLOYING", "COMPLETED", "FAILED"} /\ mishaps \in 0..MaxMishaps
  BY DEF TypeOK

LEMMA SetOne ==
  ASSUME TypeOK, NEW s \in Services, NEW st \in Status, row' = Set({s}, st)
  PROVE  row' \in [Services -> Status] /\ row'[s] = st /\ \A r \in Services \ {s} : row'[r] = row[r]
  BY SetTypes

LEMMA DeferredElsewhere ==
  ASSUME TypeOK, NEW s \in Services, DeferredStep(s)
  PROVE  Elsewhere /\ Onward
<1>0. /\ deferred[s] > 0 /\ UNCHANGED <<work, retried, pushed, plan, failFast, engine, served, mishaps>>
      /\ deferred' = [deferred EXCEPT ![s] = @ - 1]
      /\ UNCHANGED row \/ row' = Set({s}, "CANCELLED")
      /\ UNCHANGED smart \/ smart' = Add(smart, s)
  BY DEF DeferredStep, DeferredSkip, DeferredCancel, DeferredDispatch
<1>1. deferred' \in [Services -> 0..MaxPending] /\ \A r \in Services : deferred'[r] > 0 => deferred[r] > 0
  BY <1>0, MinusTypes, TypesOf
<1>2. smart' \in [Services -> 0..MaxPending] /\ \A r \in Services \ {s} : smart'[r] = smart[r]
  BY <1>0, AddTypes, TypesOf
<1>3. row' \in [Services -> Status] /\ \A r \in Services : row'[r] = row[r] \/ row'[r] = "CANCELLED"
  BY <1>0, SetOne, TypesOf DEF Status, Failed
<1>4. Elsewhere
  BY <1>0, <1>1, <1>2, <1>3, TypesOf DEF Elsewhere, Messages
<1>5. Onward
  BY <1>0, <1>1, <1>2, <1>3 DEF Onward
<1>. QED
  BY <1>4, <1>5

LEMMA WorkerElsewhere ==
  ASSUME TypeOK, NEW s \in Services, WorkerStep(s)
  PROVE  Elsewhere /\ Onward
<1>0. /\ smart[s] > 0 \/ work[s] # "none"
      /\ UNCHANGED <<deferred, retried, pushed, plan, failFast, engine, mishaps>>
      /\ UNCHANGED smart \/ (smart[s] > 0 /\ smart' = [smart EXCEPT ![s] = @ - 1])
      /\ UNCHANGED work \/ \E w \in {"none", "build", "deploy"} : work' = [work EXCEPT ![s] = w]
      /\ \/ UNCHANGED row /\ UNCHANGED served
         \/ \E st \in {"BUILDING", "HEALTH_CHECK", "FAILED"} : row' = Set({s}, st) /\ UNCHANGED served
         \/ row' = Set({s}, "INACTIVE") /\ s \in pushed /\ UNCHANGED served
         \/ row' = Set({s}, "ACTIVE") /\ served' = served \cup {s}
  BY DEF WorkerStep, Take, HandOver, Succeed, Fail
<1>1. smart' \in [Services -> 0..MaxPending] /\ \A r \in Services : smart'[r] > 0 => smart[r] > 0
  BY <1>0, MinusTypes, TypesOf
<1>2. work' \in [Services -> {"none", "build", "deploy"}] /\ \A r \in Services \ {s} : work'[r] = work[r]
  BY <1>0, TypesOf
<1>3. /\ row' \in [Services -> Status] /\ \A r \in Services \ {s} : row'[r] = row[r]
      /\ row'[s] # row[s] => row'[s] \notin {"QUEUED", "REVIEW"}
      /\ row'[s] # row[s] /\ row'[s] = "ACTIVE" => s \in served'
      /\ row'[s] # row[s] /\ row'[s] = "INACTIVE" => s \in pushed
      /\ served \subseteq served' /\ served' \subseteq served \cup {s}
  <2>1. CASE UNCHANGED row /\ UNCHANGED served
    BY <2>1, TypesOf
  <2>2. ASSUME NEW st \in {"BUILDING", "HEALTH_CHECK", "FAILED"}, row' = Set({s}, st), UNCHANGED served
        PROVE  row' \in [Services -> Status] /\ row'[s] = st /\ \A r \in Services \ {s} : row'[r] = row[r]
    BY <2>2, SetOne DEF Status, InProgress, Failed
  <2>3. ASSUME NEW st \in {"ACTIVE", "INACTIVE"}, row' = Set({s}, st)
        PROVE  row' \in [Services -> Status] /\ row'[s] = st /\ \A r \in Services \ {s} : row'[r] = row[r]
    BY <2>3, SetOne DEF Status
  <2>4. CASE \E st \in {"BUILDING", "HEALTH_CHECK", "FAILED"} : row' = Set({s}, st) /\ UNCHANGED served
    BY <2>2, <2>4
  <2>5. CASE row' = Set({s}, "INACTIVE") /\ s \in pushed /\ UNCHANGED served
    BY <2>3, <2>5
  <2>6. CASE row' = Set({s}, "ACTIVE") /\ served' = served \cup {s}
    BY <2>3, <2>6
  <2>. QED
    BY <1>0, <2>1, <2>4, <2>5, <2>6
<1>4. Elsewhere
  BY <1>0, <1>1, <1>2, <1>3, TypesOf DEF Elsewhere, Messages
<1>5. Onward
  BY <1>0, <1>1, <1>2, <1>3 DEF Onward
<1>. QED
  BY <1>4, <1>5

LEMMA MishapElsewhere ==
  ASSUME TypeOK, NEW s \in Services, Sweep(s) \/ MishapStep(s)
  PROVE  Elsewhere /\ Onward
<1>0. /\ UNCHANGED <<deferred, retried, plan, failFast, engine, served>>
      /\ UNCHANGED mishaps \/ \E f : Mishap(f)
      /\ UNCHANGED pushed \/ pushed' = pushed \cup {s}
      /\ UNCHANGED smart \/ (smart[s] > 0 /\ smart' = [smart EXCEPT ![s] = @ - 1])
      /\ UNCHANGED work \/ work' = [work EXCEPT ![s] = "none"]
      /\ \/ UNCHANGED row
         \/ row' = Set({s}, "CANCELLED")
         \/ row[s] = "ACTIVE" /\ row' = Set({s}, "FAILED")
         \/ row[s] = "ACTIVE" /\ s \in pushed /\ UNCHANGED pushed /\ row' = Set({s}, "INACTIVE")
  BY DEF MishapStep, Sweep, WorkerDies, UserCancel, Crash, Push, Demote
<1>1. smart' \in [Services -> 0..MaxPending] /\ \A r \in Services : smart'[r] > 0 => smart[r] > 0
  BY <1>0, MinusTypes, TypesOf
<1>2. work' \in [Services -> {"none", "build", "deploy"}] /\ \A r \in Services : work'[r] # "none" => work[r] # "none"
  BY <1>0, TypesOf
<1>3. mishaps' \in 0..MaxMishaps
  BY <1>0, MishapType, TypesOf
<1>4. /\ row' \in [Services -> Status] /\ \A r \in Services \ {s} : row'[r] = row[r]
      /\ \/ row'[s] = row[s]
         \/ row'[s] = "CANCELLED"
         \/ row[s] = "ACTIVE" /\ (row'[s] = "FAILED" \/ (row'[s] = "INACTIVE" /\ s \in pushed'))
  <2>1. ASSUME NEW st \in {"CANCELLED", "FAILED", "INACTIVE"}, row' = Set({s}, st)
        PROVE  row' \in [Services -> Status] /\ row'[s] = st /\ \A r \in Services \ {s} : row'[r] = row[r]
    BY <2>1, SetOne DEF Status, Failed
  <2>. QED
    BY <1>0, <2>1, TypesOf
<1>5. Elsewhere
  BY <1>0, <1>1, <1>2, <1>3, <1>4, TypesOf DEF Elsewhere, Messages
<1>6. Onward
  BY <1>0, <1>1, <1>2, <1>4 DEF Onward
<1>. QED
  BY <1>5, <1>6

LEMMA ClearElsewhere ==
  ASSUME TypeOK, ClearGhost \/ ClearAlive
  PROVE  Elsewhere /\ Onward
<1>1. /\ UNCHANGED <<row, work, smart, deferred, retried, pushed, failFast, engine, served>> /\ plan' = "FAILED"
      /\ UNCHANGED mishaps \/ Mishap("ghost")
  BY DEF ClearGhost, ClearAlive, ClearPlan
<1>2. mishaps' \in 0..MaxMishaps
  BY <1>1, MishapType, TypesOf
<1>. QED
  BY <1>1, <1>2, TypesOf DEF Elsewhere, Onward, Messages

LEMMA StandStill ==
  ASSUME TypeOK, UNCHANGED vars
  PROVE  Elsewhere /\ Onward
  BY TypesOf DEF Elsewhere, Onward, Messages, vars

LEMMA NextParts ==
  ASSUME TypeOK, [Next]_vars
  PROVE  (EngineStep \/ EngineDies) \/ (Elsewhere /\ Onward)
<1>1. ASSUME NEW s \in Services, DeferredStep(s) \/ WorkerStep(s) \/ Sweep(s) \/ MishapStep(s)
      PROVE  Elsewhere /\ Onward
  BY <1>1, DeferredElsewhere, WorkerElsewhere, MishapElsewhere
<1>. QED
  BY <1>1, ClearElsewhere, StandStill DEF Next

---------------------------------------------------------------------------
(* The theorems about any plan *)

LEMMA InitKeeps == Init => WaveInv
<1>. SUFFICES ASSUME Init PROVE WaveInv
  OBVIOUS
<1>1. 0 \in 0..Len(Waves) /\ 0 \in 0..MaxWaits /\ 0 \in 0..MaxPending /\ 0 \in 0..MaxMishaps
  BY WaveTypes, BoundsAssumption
<1>2. engine \in EngineState /\ Reads(engine, "queued", 0, 0, Nothing, {}, {}, "next")
  BY <1>1, SendFields DEF Init
<1>3. "QUEUED" \in Status
  BY DEF Status, InProgress
<1>4. TypeOK
  BY <1>1, <1>2, <1>3, TypeParts DEF Init, Messages, Others
<1>5. Passed = 0 - 1 /\ Upto(0 - 1) = {}
  BY <1>1, <1>2, WaveParts DEF Passed, Reads, Releases, At
<1>6. Stations
  BY <1>2 DEF Stations, Looking, Reads, Releases, At
<1>7. Honest
  BY <1>2, SeenTypes DEF Honest, Reads, Init
<1>8. Remembered /\ Vouched
  BY <1>2, <1>5 DEF Remembered, Vouched, Reads, At
<1>. QED
  BY <1>4, <1>6, <1>7, <1>8 DEF WaveInv

LEMMA NextKeeps == WaveInv /\ [Next]_vars => WaveInv'
  BY NextParts, EngineKeeps, ElsewhereKeeps DEF WaveInv

LEMMA AlwaysWaveInv == Spec => []WaveInv
  BY InitKeeps, NextKeeps, PTL DEF Spec

\* Every variable of the wave engine stays in its domain.
THEOREM TypeCorrect == Spec => []TypeOK
<1>1. WaveInv => TypeOK
  BY DEF WaveInv
<1>. QED
  BY <1>1, AlwaysWaveInv, PTL

\* When the engine has come to its end no row is left QUEUED, whatever was retried, deferred,
\* cancelled or timed out on the way.
THEOREM NobodyForgotten == Spec => []NoneForgotten
<1>1. WaveInv => NoneForgotten
  BY DEF WaveInv, Remembered, NoneForgotten, At
<1>. QED
  BY <1>1, AlwaysWaveInv, PTL

\* Only the end of the plan reports it as completed.
LEMMA OnlyFinalizeCompletes ==
  ASSUME [Next]_vars, plan' = "COMPLETED", plan # "COMPLETED"
  PROVE  FinalizeSave
<1>1. ASSUME NEW s \in Services, DeferredStep(s) \/ WorkerStep(s) \/ Sweep(s) \/ MishapStep(s)
      PROVE  plan' = plan
  BY <1>1 DEF DeferredStep, DeferredSkip, DeferredCancel, DeferredDispatch, WorkerStep, Take, HandOver, Succeed, Fail,
     Sweep, MishapStep, WorkerDies, UserCancel, Crash, Push, Demote
<1>2. ClearGhost \/ ClearAlive => plan' = "FAILED"
  BY DEF ClearGhost, ClearAlive, ClearPlan
<1>3. EngineDies => plan' = plan
  BY DEF EngineDies
<1>4. EngineStep => FinalizeSave \/ plan' = plan
  BY DEF EngineStep, BeginFirst, Check, Retry, Expire, ExpireSave, Cancel, CancelSave, GateLow, Gate, Early,
     Dispatch, DispatchLow, Dispatched, Finalize
<1>. QED
  BY <1>1, <1>2, <1>3, <1>4 DEF Next, vars

LEMMA CompletionStep ==
  ASSUME WaveInv, [Next]_vars, plan' = "COMPLETED", plan # "COMPLETED"
  PROVE  Services \subseteq served \cup pushed
<1>1. FinalizeSave
  BY OnlyFinalizeCompletes
<1>2. /\ DOMAIN engine.seen = Services /\ \A s \in Services : engine.seen[s] \notin InProgress
      /\ \A s \in Services : engine.seen[s] \notin Failed
  BY <1>1 DEF FinalizeSave, WaveInv, Stations
<1>3. \A s \in Services : engine.seen[s] \in Status
  BY <1>2, EngineParts, SeenTypes DEF WaveInv
<1>4. \A s \in Services : engine.seen[s] = "ACTIVE" \/ engine.seen[s] = "INACTIVE"
  BY <1>2, <1>3 DEF Status
<1>. QED
  BY <1>2, <1>4 DEF WaveInv, Honest

\* A plan that is reported as completed is: each of its services was served by its own
\* deployment, or replaced by a newer one; also when rows changed after the engine read them.
THEOREM CompletedIsTrue == Spec => HonestCompletion
<1>1. WaveInv /\ [Next]_vars => [plan' = "COMPLETED" /\ plan # "COMPLETED" => Services \subseteq served \cup pushed]_vars
  BY CompletionStep
<1>. QED
  BY <1>1, AlwaysWaveInv, PTL DEF Spec, HonestCompletion

\* Only the engine's dispatch moves a waiting row to REVIEW.
LEMMA OnlyDispatchReleases ==
  ASSUME WaveInv, [Next]_vars, NEW s \in Services, row[s] = "QUEUED", row'[s] = "REVIEW"
  PROVE  At("dispatch") /\ s \in engine.todo
<1>1. CASE Elsewhere
  BY <1>1 DEF Elsewhere
<1>2. CASE Dispatch \/ DispatchLow
  BY <1>2, DispatchForms DEF WaveInv
<1>3. CASE Retry
  <2>1. PICK again : row' = Set(again, "QUEUED")
    BY <1>3 DEF Retry
  <2>2. row'[s] # "REVIEW"
    BY <2>1 DEF Set
  <2>. QED
    BY <2>2
<1>4. CASE ExpireSave \/ CancelSave
  <2>1. row' = Set(engine.batch, "CANCELLED")
    BY <1>4 DEF ExpireSave, CancelSave
  <2>. QED
    BY <2>1 DEF Set
<1>5. CASE UNCHANGED row
  BY <1>5
<1>6. EngineStep \/ EngineDies => Dispatch \/ DispatchLow \/ Retry \/ ExpireSave \/ CancelSave \/ UNCHANGED row
  BY DEF EngineStep, EngineDies, BeginFirst, Check, Expire, Cancel, GateLow, Gate, Early, Dispatched, Finalize, FinalizeSave
<1>. QED
  BY <1>1, <1>2, <1>3, <1>4, <1>5, <1>6, NextParts DEF WaveInv

LEMMA FailFastStep ==
  ASSUME WaveInv, [Next]_vars, failFast, engine.then = "next", NEW s \in Services, row[s] = "QUEUED", row'[s] = "REVIEW"
  PROVE  Services \ Later(engine.wave) \subseteq served \cup pushed
<1>1. At("dispatch") /\ s \in engine.todo
  BY OnlyDispatchReleases
<1>2. /\ engine.wave \in 0..Len(Waves) /\ engine.wave < Len(Waves) /\ Passed = engine.wave
      /\ engine.todo \subseteq (IF engine.wave = Len(Waves) THEN {} ELSE Wave(engine.wave + 1))
  BY <1>1, EngineParts DEF WaveInv, Stations, Passed, Releases
<1>3. engine.wave # Len(Waves)
  BY <1>2, WaveTypes
<1>4. s \in Later(engine.wave) /\ Services = Upto(engine.wave) \cup Later(engine.wave)
  BY <1>1, <1>2, <1>3, WaveParts
<1>5. Upto(engine.wave) \subseteq Reached
  BY <1>2, <1>4 DEF WaveInv, Vouched
<1>. QED
  BY <1>4, <1>5 DEF Reached

\* With cancel_others_on_failure no wave is released over a service of an earlier wave that
\* was neither served nor replaced.
THEOREM FailFastIsKept == Spec => FailFastHolds
<1>1. WaveInv /\ [Next]_vars =>
        [failFast /\ engine.then = "next" /\ (\E s \in Services : row[s] = "QUEUED" /\ row'[s] = "REVIEW")
           => Services \ Later(engine.wave) \subseteq served \cup pushed]_vars
  BY FailFastStep
<1>. QED
  BY <1>1, AlwaysWaveInv, PTL DEF Spec, FailFastHolds

---------------------------------------------------------------------------
(* Plans without a cycle: what a row waits for *)

LEMMA PreparedElsewhere ==
  ASSUME WaveInv, Prepared, Elsewhere, Onward
  PROVE  Prepared'
<1>1. \A s : Ready(s) => Ready(s)'
  BY DEF Ready, Reached, Elsewhere
<1>2. \A s \in Services : /\ smart'[s] > 0 \/ deferred'[s] > 0 \/ work'[s] # "none" => Ready(s)
                          /\ row'[s] \notin {"QUEUED", "CANCELLED"} => Ready(s)
  BY DEF Prepared, Onward
<1>3. Passed' = Passed /\ Later(engine.wave) \subseteq Services /\ Reached \subseteq Reached'
  <2>1. Passed' = Passed /\ Reached \subseteq Reached'
    BY DEF Passed, Releases, At, Elsewhere, Reached
  <2>. QED
    BY <2>1, EngineParts, WaveParts DEF WaveInv
<1>4. \A s \in Services : row'[s] = "QUEUED" => row[s] = "QUEUED"
  BY DEF Elsewhere
<1>5. engine' = engine
  BY DEF Elsewhere
<1>6. \A s \in Services : /\ smart'[s] > 0 \/ deferred'[s] > 0 \/ work'[s] # "none" => Ready(s)'
                          /\ row'[s] \notin {"QUEUED", "CANCELLED"} => Ready(s)'
  BY <1>1, <1>2
<1>7. \A s \in DOMAIN engine'.seen : engine'.seen[s] \notin {"QUEUED", "CANCELLED"} => Ready(s)'
  BY <1>1, <1>5 DEF Prepared
<1>8. At("dispatch")' /\ engine'.then = "recheck" => \A s \in engine'.todo : Ready(s)'
  BY <1>1, <1>5 DEF Prepared, At
<1>9. \A s \in Later(engine'.wave) : row'[s] = "QUEUED" => Deps[s] \cap Upto(Passed') \subseteq Reached'
  BY <1>3, <1>4, <1>5 DEF Prepared
<1>10. At("cancel_save")' /\ engine'.then = "next" =>
         \A s \in Later(engine'.wave) :
           row'[s] = "QUEUED" => s \in engine'.batch \/ Deps[s] \cap Wave(engine'.wave) \subseteq Reached'
  BY <1>3, <1>4, <1>5 DEF Prepared, At
<1>. QED
  BY <1>6, <1>7, <1>8, <1>9, <1>10 DEF Prepared

\* A step of the engine changes neither what was served nor what a service waits for.
LEMMA EngineReady ==
  ASSUME EngineLeaves
  PROVE  Reached' = Reached /\ \A s : Ready(s)' <=> Ready(s)
  BY DEF EngineLeaves, Ready, Reached

\* The steps that change no row and send nothing: what the new record has to satisfy.
LEMMA PreparedLook ==
  ASSUME Prepared, EngineLeaves, UNCHANGED <<row, smart, deferred>>,
         NEW pc, NEW k, NEW n, NEW seen, NEW batch, NEW todo, NEW then,
         Reads(engine', pc, k, n, seen, batch, todo, then),
         \A s \in DOMAIN seen : seen[s] \notin {"QUEUED", "CANCELLED"} => Ready(s),
         pc = "dispatch" /\ then = "recheck" => \A s \in todo : Ready(s),
         \A s \in Later(k) : row[s] = "QUEUED" => Deps[s] \cap Upto(Passed') \subseteq Reached,
         pc = "cancel_save" /\ then = "next" =>
           \A s \in Later(k) : row[s] = "QUEUED" => s \in batch \/ Deps[s] \cap Wave(k) \subseteq Reached
  PROVE  Prepared'
<1>1. Reached' = Reached /\ \A s : Ready(s)' <=> Ready(s)
  BY EngineReady
<1>2. \A s \in Services : /\ smart'[s] > 0 \/ deferred'[s] > 0 \/ work'[s] # "none" => Ready(s)'
                          /\ row'[s] \notin {"QUEUED", "CANCELLED"} => Ready(s)'
  BY <1>1 DEF Prepared, EngineLeaves
<1>3. \A s \in DOMAIN engine'.seen : engine'.seen[s] \notin {"QUEUED", "CANCELLED"} => Ready(s)'
  BY <1>1 DEF Reads
<1>4. At("dispatch")' /\ engine'.then = "recheck" => \A s \in engine'.todo : Ready(s)'
  BY <1>1 DEF Reads, At
<1>5. \A s \in Later(engine'.wave) : row'[s] = "QUEUED" => Deps[s] \cap Upto(Passed') \subseteq Reached'
  BY <1>1 DEF Reads
<1>6. At("cancel_save")' /\ engine'.then = "next" =>
         \A s \in Later(engine'.wave) :
           row'[s] = "QUEUED" => s \in engine'.batch \/ Deps[s] \cap Wave(engine'.wave) \subseteq Reached'
  BY <1>1 DEF Reads, At
<1>. QED
  BY <1>2, <1>3, <1>4, <1>5, <1>6 DEF Prepared

LEMMA BeginFirstPrepares ==
  ASSUME WaveInv, Prepared, BeginFirst
  PROVE  Prepared'
<1>1. Reads(engine', "gate", 0, engine.waits, engine.seen, engine.batch, engine.todo, engine.then)
  BY GotoFields DEF WaveInv, BeginFirst, PCs
<1>2. Upto(0) = {} /\ Passed' = 0
  <2>1. 0 \in 0..Len(Waves)
    BY WaveTypes
  <2>. QED
    BY <1>1, <2>1, WaveParts DEF Passed, Releases, At, Reads
<1>3. EngineLeaves /\ UNCHANGED <<row, smart, deferred>>
  BY DEF BeginFirst, EngineLeaves
<1>4. \A s \in DOMAIN engine.seen : engine.seen[s] \notin {"QUEUED", "CANCELLED"} => Ready(s)
  BY DEF Prepared
<1>. QED
  BY <1>1, <1>2, <1>3, <1>4, PreparedLook

\* The statuses the engine reads belong to rows that are ready.
LEMMA LookPrepares ==
  ASSUME WaveInv, Prepared, Check \/ Finalize, engine' # Ended("done")
  PROVE  Prepared'
<1>. DEFINE f == IF At("queued") THEN [s \in Wave(engine.wave) |-> row[s]] ELSE row
            pc == IF At("queued") THEN "retry" ELSE "final_save"
<1>0. /\ TypeOK /\ engine.wave \in 0..Len(Waves) /\ EngineLeaves /\ UNCHANGED <<row, smart, deferred>>
      /\ At("queued") => Check /\ engine.wave \in 1..Len(Waves)
      /\ ~At("queued") => Finalize /\ At("final")
  BY EngineParts, WaveTypes DEF WaveInv, Check, Finalize, EngineLeaves, At
<1>1. f \in Seen /\ DOMAIN f \subseteq Services /\ \A s \in DOMAIN f : f[s] = row[s]
  <2>1. At("queued") => Wave(engine.wave) \subseteq Services
    BY <1>0, WaveTypes
  <2>2. f \in [(IF At("queued") THEN Wave(engine.wave) ELSE Services) -> Status]
    BY <1>0, <2>1 DEF TypeOK
  <2>3. f \in Seen
    BY <2>1, <2>2, SeenTypes
  <2>. QED
    BY <2>1, <2>2, <2>3
<1>2. engine' = [engine EXCEPT !.pc = pc, !.seen = f]
  BY <1>0 DEF Check, Finalize
<1>3. pc \in PCs /\ pc \in {"retry", "final_save"}
  BY DEF PCs
<1>. HIDE DEF f, pc
<1>4. Reads(engine', pc, engine.wave, engine.waits, f, engine.batch, engine.todo, engine.then)
  BY <1>0, <1>1, <1>2, <1>3, LookFields
<1>5. Passed' = Passed
  BY <1>0, <1>3, <1>4 DEF Passed, Releases, At, Reads
<1>6. \A s \in DOMAIN f : f[s] \notin {"QUEUED", "CANCELLED"} => Ready(s)
  BY <1>1 DEF Prepared
<1>7. \A s \in Later(engine.wave) : row[s] = "QUEUED" => Deps[s] \cap Upto(Passed') \subseteq Reached
  BY <1>5 DEF Prepared
<1>. QED
  BY <1>0, <1>3, <1>4, <1>6, <1>7, PreparedLook

LEMMA RetryPrepares ==
  ASSUME WaveInv, Prepared, Retry
  PROVE  Prepared'
<1>0. /\ TypeOK /\ At("retry") /\ engine.wave \in 0..Len(Waves) /\ engine.wave > 0 /\ engine.waits \in 0..MaxWaits
      /\ DOMAIN engine.seen = Wave(engine.wave) /\ EngineLeaves /\ UNCHANGED deferred
      /\ smart \in [Services -> 0..MaxPending]
  BY EngineParts, TypesOf DEF WaveInv, Stations, Looking, At, Retry, EngineLeaves
<1>1. PICK again \in SUBSET (DOMAIN engine.seen), f \in Seen, pc \in PCs :
           /\ \A s \in again : engine.seen[s] = "FAILED"
           /\ DOMAIN f = DOMAIN engine.seen
           /\ \A s \in DOMAIN f : f[s] = IF s \in again THEN "QUEUED" ELSE engine.seen[s]
           /\ pc \in Verdicts(f, engine.waits)
           /\ engine' = [engine EXCEPT !.pc = pc, !.seen = f]
           /\ row' = Set(again, "QUEUED") /\ retried' = retried \cup again
           /\ smart' = [s \in Services |-> IF s \in again THEN Add(smart, s)[s] ELSE smart[s]]
  BY <1>0, RetryForms
<1>2. pc \in {"early", "expire", "cancel"}
  BY <1>0, <1>1, VerdictsAre
<1>3. Reads(engine', pc, engine.wave, engine.waits, f, engine.batch, engine.todo, engine.then)
  BY <1>0, <1>1, LookFields
<1>4. \A s \in Services : row'[s] = IF s \in again THEN "QUEUED" ELSE row[s]
  BY <1>0, <1>1, SetTypes DEF Status, InProgress
<1>5. Reached' = Reached /\ \A s : Ready(s)' <=> Ready(s)
  BY <1>0, EngineReady
<1>6. Passed' = Passed
  BY <1>0, <1>2, <1>3 DEF Passed, Releases, At, Reads
<1>7. Wave(engine.wave) \cap Later(engine.wave) = {} /\ Later(engine.wave) \subseteq Services /\ Wave(engine.wave) \subseteq Services
  BY <1>0, WaveParts
<1>8. \A s \in again : Ready(s)
  BY <1>1 DEF Prepared
<1>9. \A s \in Services : /\ smart'[s] > 0 \/ deferred'[s] > 0 \/ work'[s] # "none" => Ready(s)'
                          /\ row'[s] \notin {"QUEUED", "CANCELLED"} => Ready(s)'
  BY <1>0, <1>1, <1>4, <1>5, <1>8 DEF Prepared, EngineLeaves
<1>10. \A s \in DOMAIN engine'.seen : engine'.seen[s] \notin {"QUEUED", "CANCELLED"} => Ready(s)'
  BY <1>1, <1>3, <1>5 DEF Prepared, Reads
<1>11. ~At("dispatch")' /\ ~At("cancel_save")'
  BY <1>2, <1>3 DEF At, Reads
<1>12. \A s \in Later(engine'.wave) : row'[s] = "QUEUED" => Deps[s] \cap Upto(Passed') \subseteq Reached'
  <2>1. \A s \in Later(engine.wave) : row'[s] = row[s]
    BY <1>0, <1>1, <1>4, <1>7
  <2>. QED
    BY <1>3, <1>5, <1>6, <2>1 DEF Prepared, Reads
<1>. QED
  BY <1>9, <1>10, <1>11, <1>12 DEF Prepared

LEMMA ExpirePrepares ==
  ASSUME WaveInv, Prepared, Expire
  PROVE  Prepared'
<1>. DEFINE late == {s \in DOMAIN engine.seen : engine.seen[s] \in InProgress /\ row[s] \in InProgress}
<1>0. TypeOK /\ At("expire") /\ EngineLeaves /\ UNCHANGED <<row, smart, deferred>> /\ engine.seen \in Seen
  BY EngineParts DEF WaveInv, At, Expire, EngineLeaves
<1>1. late \in SUBSET Services
  BY <1>0, SeenTypes
<1>. HIDE DEF late
<1>2. Reads(engine', "expire_save", engine.wave, engine.waits, engine.seen, late, engine.todo, "end")
  BY <1>0, <1>1, ExpireFields DEF Expire, PCs, late
<1>3. Passed' = Passed
  BY <1>0, <1>2 DEF Passed, Releases, At, Reads
<1>4. \A s \in DOMAIN engine.seen : engine.seen[s] \notin {"QUEUED", "CANCELLED"} => Ready(s)
  BY DEF Prepared
<1>5. \A s \in Later(engine.wave) : row[s] = "QUEUED" => Deps[s] \cap Upto(Passed') \subseteq Reached
  BY <1>3 DEF Prepared
<1>. QED
  BY <1>0, <1>2, <1>4, <1>5, PreparedLook

\* A bulk update leaves fewer rows waiting; what still waits is not in the batch.
LEMMA SavePrepares ==
  ASSUME WaveInv, Prepared, EngineLeaves, UNCHANGED <<smart, deferred>>,
         \A s \in Services : row'[s] = IF s \in engine.batch THEN "CANCELLED" ELSE row[s],
         NEW pc \in {"cancel", "final", "gate"},
         Reads(engine', pc, engine.wave, engine.waits, engine.seen, {}, engine.todo, engine.then),
         \A s \in Later(engine.wave) :
           row[s] = "QUEUED" /\ s \notin engine.batch => Deps[s] \cap Upto(Passed') \subseteq Reached
  PROVE  Prepared'
<1>1. Reached' = Reached /\ \A s : Ready(s)' <=> Ready(s)
  BY EngineReady
<1>2. Later(engine.wave) \subseteq Services
  BY EngineParts, WaveParts DEF WaveInv
<1>3. \A s \in Services : /\ smart'[s] > 0 \/ deferred'[s] > 0 \/ work'[s] # "none" => Ready(s)'
                          /\ row'[s] \notin {"QUEUED", "CANCELLED"} => Ready(s)'
  BY <1>1 DEF Prepared, EngineLeaves
<1>4. \A s \in DOMAIN engine'.seen : engine'.seen[s] \notin {"QUEUED", "CANCELLED"} => Ready(s)'
  BY <1>1 DEF Prepared, Reads
<1>5. ~At("dispatch")' /\ ~At("cancel_save")'
  BY DEF At, Reads
<1>6. \A s \in Later(engine'.wave) : row'[s] = "QUEUED" => Deps[s] \cap Upto(Passed') \subseteq Reached'
  BY <1>1, <1>2 DEF Reads
<1>. QED
  BY <1>3, <1>4, <1>5, <1>6 DEF Prepared

LEMMA ExpireSavePrepares ==
  ASSUME WaveInv, Prepared, ExpireSave
  PROVE  Prepared'
<1>0. TypeOK /\ At("expire_save") /\ EngineLeaves /\ UNCHANGED <<smart, deferred>>
  BY DEF WaveInv, ExpireSave, EngineLeaves
<1>1. Reads(engine', "cancel", engine.wave, engine.waits, engine.seen, {}, engine.todo, engine.then)
  BY <1>0, BatchFields DEF ExpireSave, PCs
<1>2. \A s \in Services : row'[s] = IF s \in engine.batch THEN "CANCELLED" ELSE row[s]
  BY <1>0, CancelsBatch DEF ExpireSave
<1>3. Passed' = Passed
  BY <1>0, <1>1 DEF Passed, Releases, At, Reads
<1>4. \A s \in Later(engine.wave) :
        row[s] = "QUEUED" /\ s \notin engine.batch => Deps[s] \cap Upto(Passed') \subseteq Reached
  BY <1>3 DEF Prepared
<1>. QED
  BY <1>0, <1>1, <1>2, <1>4, SavePrepares

LEMMA CancelPrepares ==
  ASSUME WaveInv, Prepared, Cancel
  PROVE  Prepared'
<1>0. /\ TypeOK /\ Stations /\ At("cancel") /\ engine.then \in {"next", "end"}
      /\ DOMAIN engine.seen = Wave(engine.wave) /\ engine.wave \in 0..Len(Waves) /\ engine.wave > 0
      /\ EngineLeaves /\ UNCHANGED <<row, smart, deferred>>
  BY EngineParts, CancelForms DEF WaveInv, Stations, Looking, At, Cancel
<1>1. PICK batch \in SUBSET Services :
        /\ Reads(engine', "cancel_save", engine.wave, engine.waits, engine.seen, batch, engine.todo, engine.then)
        /\ batch = {s \in Doomed : row[s] = "QUEUED"}
  BY CancelForms
<1>2. Passed' = Passed
  BY <1>0, <1>1 DEF Passed, Releases, At, Reads
<1>3. Later(engine.wave) \subseteq Services /\ Wave(engine.wave) \cap Later(engine.wave) = {}
  BY <1>0, WaveParts
<1>4. ASSUME engine.then = "next", NEW s \in Later(engine.wave), row[s] = "QUEUED", s \notin batch,
             NEW d \in Deps[s] \cap Wave(engine.wave)
      PROVE  d \in Reached
  <2>1. s \notin Doomed /\ s \in Services \ DOMAIN engine.seen /\ d \in DOMAIN engine.seen
    BY <1>0, <1>1, <1>3, <1>4
  <2>2. engine.seen[d] \notin Failed
    <3>1. CASE failFast
      BY <1>0, <1>4, <2>1, <3>1, DoomedAre
    <3>2. CASE ~failFast
      BY <1>0, <1>4, <2>1, <3>2, DoomedAre
    <3>. QED
      BY <3>1, <3>2
  <2>. QED
    BY <1>0, <1>4, <2>1, <2>2, JudgedAre
<1>5. \A s \in DOMAIN engine.seen : engine.seen[s] \notin {"QUEUED", "CANCELLED"} => Ready(s)
  BY DEF Prepared
<1>6. \A s \in Later(engine.wave) : row[s] = "QUEUED" => Deps[s] \cap Upto(Passed') \subseteq Reached
  BY <1>2 DEF Prepared
<1>7. engine.then = "next" =>
        \A s \in Later(engine.wave) : row[s] = "QUEUED" => s \in batch \/ Deps[s] \cap Wave(engine.wave) \subseteq Reached
  BY <1>4
<1>. QED
  BY <1>0, <1>1, <1>5, <1>6, <1>7, PreparedLook

LEMMA CancelSavePrepares ==
  ASSUME WaveInv, Prepared, CancelSave
  PROVE  Prepared'
<1>0. /\ TypeOK /\ At("cancel_save") /\ engine.wave \in 0..Len(Waves) /\ engine.wave > 0
      /\ EngineLeaves /\ UNCHANGED <<smart, deferred>>
      /\ \A s \in Services : row'[s] = IF s \in engine.batch THEN "CANCELLED" ELSE row[s]
  BY EngineParts, CancelSaveForms DEF WaveInv, Stations, At, CancelSave
<1>1. PICK pc \in {"final", "gate"} :
        /\ Reads(engine', pc, engine.wave, engine.waits, engine.seen, {}, engine.todo, engine.then)
        /\ pc = "gate" <=> engine.then = "next" /\ engine.wave < Len(Waves)
  BY CancelSaveForms
<1>2. /\ Passed = engine.wave - 1
      /\ pc = "gate" => Passed' = engine.wave
      /\ pc = "final" => Passed' = engine.wave - 1
  BY <1>0, <1>1 DEF Passed, Releases, At, Reads
<1>3. Upto(engine.wave) = Upto(engine.wave - 1) \cup Wave(engine.wave)
  BY <1>0, WaveParts
<1>4. ASSUME NEW s \in Later(engine.wave), row[s] = "QUEUED", s \notin engine.batch
      PROVE  Deps[s] \cap Upto(Passed') \subseteq Reached
  <2>1. Deps[s] \cap Upto(engine.wave - 1) \subseteq Reached
    BY <1>2, <1>4 DEF Prepared
  <2>2. pc = "gate" => Deps[s] \cap Wave(engine.wave) \subseteq Reached
    BY <1>0, <1>1, <1>4 DEF Prepared
  <2>. QED
    BY <1>1, <1>2, <1>3, <2>1, <2>2
<1>. QED
  BY <1>0, <1>1, <1>4, SavePrepares

LEMMA GatePrepares ==
  ASSUME WaveInv, Prepared, Gate
  PROVE  Prepared'
<1>1. /\ Reads(engine', "dispatch", engine.wave, engine.waits, Nothing, engine.batch, Wave(engine.wave + 1), "next")
      /\ At("gate") /\ EngineLeaves /\ UNCHANGED <<row, smart, deferred>>
  BY GateForms
<1>2. Passed' = Passed
  BY <1>1 DEF Passed, Releases, At, Reads
<1>3. \A s \in Later(engine.wave) : row[s] = "QUEUED" => Deps[s] \cap Upto(Passed') \subseteq Reached
  BY <1>2 DEF Prepared
<1>. QED
  BY <1>1, <1>3, SeenTypes, PreparedLook

\* A row is released early only when all it depends on serves.
LEMMA EarlyPrepares ==
  ASSUME WaveInv, Prepared, Early
  PROVE  Prepared'
<1>1. At("early") /\ EngineLeaves /\ UNCHANGED <<row, smart, deferred>>
  BY EarlyForms
<1>2. PICK todo \in SUBSET Services :
        /\ \A s \in todo : Eligible(s)
        /\ Reads(engine', "dispatch", engine.wave, engine.waits, Nothing, engine.batch, todo, "recheck")
  BY EarlyForms
<1>3. Passed' = Passed
  BY <1>1, <1>2 DEF Passed, Releases, At, Reads
<1>4. \A s \in todo : Ready(s)
  <2>1. \A s \in Services : Deps[s] \subseteq Services
    BY PlanAssumption
  <2>. QED
    BY <1>2, <2>1 DEF Eligible, Ready, Reached, WaveInv, Honest
<1>5. \A s \in Later(engine.wave) : row[s] = "QUEUED" => Deps[s] \cap Upto(Passed') \subseteq Reached
  BY <1>3 DEF Prepared
<1>. QED
  BY <1>1, <1>2, <1>4, <1>5, SeenTypes, PreparedLook

LEMMA DispatchPrepares ==
  ASSUME Ordered, WaveInv, Prepared, Dispatch \/ DispatchLow
  PROVE  Prepared'
<1>0. TypeOK /\ Stations /\ engine.wave \in 0..Len(Waves) /\ engine.todo \subseteq Services
  BY EngineParts DEF WaveInv
<1>1. /\ At("dispatch") /\ EngineLeaves
      /\ \A s \in Services :
           /\ row'[s] = row[s] \/ (row'[s] = "REVIEW" /\ row[s] = "QUEUED" /\ s \in engine.todo)
           /\ smart'[s] > 0 \/ deferred'[s] > 0 =>
                smart[s] > 0 \/ deferred[s] > 0 \/ (row[s] = "QUEUED" /\ s \in engine.todo)
  BY <1>0, DispatchForms
<1>2. PICK S \in SUBSET Services :
        Reads(engine', "dispatch", engine.wave, engine.waits, engine.seen, engine.batch, engine.todo \ S, engine.then)
  BY <1>0, DispatchForms
<1>3. Passed' = Passed
  BY <1>1, <1>2 DEF Passed, Releases, At, Reads
<1>4. ASSUME NEW s \in engine.todo, row[s] = "QUEUED" PROVE Ready(s)
  <2>1. CASE engine.then = "recheck"
    BY <1>1, <2>1 DEF Prepared
  <2>2. CASE engine.then = "next"
    <3>1. engine.wave < Len(Waves) /\ Passed = engine.wave /\ s \in Wave(engine.wave + 1)
      <4>1. engine.wave < Len(Waves) /\ Passed = engine.wave
        BY <1>0, <1>1, <2>2 DEF Stations, Releases, Passed
      <4>2. engine.wave # Len(Waves)
        BY <1>0, <4>1, WaveTypes
      <4>. QED
        BY <1>0, <1>1, <4>1, <4>2 DEF Stations
    <3>2. s \in Later(engine.wave)
      BY <1>0, <3>1, WaveParts
    <3>3. Deps[s] \cap Upto(engine.wave) \subseteq Reached
      BY <1>4, <3>1, <3>2 DEF Prepared
    <3>4. engine.wave + 1 \in DOMAIN Waves /\ (engine.wave + 1) - 1 = engine.wave
      BY <1>0, <3>1, WaveTypes
    <3>5. Deps[s] \subseteq Upto(engine.wave)
      BY <3>1, <3>4 DEF Ordered
    <3>. QED
      BY <3>3, <3>5 DEF Ready
  <2>. QED
    BY <1>0, <1>1, <2>1, <2>2, EngineParts DEF Stations
<1>5. Reached' = Reached /\ \A s : Ready(s)' <=> Ready(s)
  BY <1>1, EngineReady
<1>6. \A s \in Services : /\ smart'[s] > 0 \/ deferred'[s] > 0 \/ work'[s] # "none" => Ready(s)'
                          /\ row'[s] \notin {"QUEUED", "CANCELLED"} => Ready(s)'
  BY <1>1, <1>4, <1>5 DEF Prepared, EngineLeaves
<1>7. \A s \in DOMAIN engine'.seen : engine'.seen[s] \notin {"QUEUED", "CANCELLED"} => Ready(s)'
  BY <1>2, <1>5 DEF Prepared, Reads
<1>8. At("dispatch")' /\ engine'.then = "recheck" => \A s \in engine'.todo : Ready(s)'
  BY <1>1, <1>2, <1>5 DEF Prepared, Reads, At
<1>9. \A s \in Later(engine'.wave) : row'[s] = "QUEUED" => Deps[s] \cap Upto(Passed') \subseteq Reached'
  <2>1. Later(engine.wave) \subseteq Services
    BY <1>0, WaveParts
  <2>. QED
    BY <1>1, <1>2, <1>3, <1>5, <2>1 DEF Prepared, Reads
<1>10. ~At("cancel_save")'
  BY <1>2 DEF At, Reads
<1>. QED
  BY <1>6, <1>7, <1>8, <1>9, <1>10 DEF Prepared

\* The engine sends its next task, which may look back no further than it has come.
LEMMA SendPrepares ==
  ASSUME Prepared, NEW k \in 0..Len(Waves), NEW n \in 0..MaxWaits, engine' = Send(k, n),
         EngineLeaves, UNCHANGED <<row, smart, deferred>>,
         Upto(k - 1) \subseteq Upto(Passed), Later(k) \subseteq Later(engine.wave)
  PROVE  Prepared'
<1>1. Reads(engine', "queued", k, n, Nothing, {}, {}, "next")
  BY SendFields
<1>2. Passed' = k - 1
  BY <1>1 DEF Passed, Releases, At, Reads
<1>3. \A s \in Later(k) : row[s] = "QUEUED" => Deps[s] \cap Upto(Passed') \subseteq Reached
  BY <1>2 DEF Prepared
<1>. QED
  BY <1>1, <1>3, SeenTypes, PreparedLook

LEMMA GateLowPrepares ==
  ASSUME WaveInv, Prepared, GateLow
  PROVE  Prepared'
<1>1. /\ engine' = Send(engine.wave, 0) /\ At("gate") /\ EngineLeaves /\ UNCHANGED <<row, smart, deferred>>
      /\ engine.wave \in 0..Len(Waves) /\ 0 \in 0..MaxWaits
  BY EngineParts, BoundsAssumption DEF GateLow, EngineLeaves, WaveInv
<1>2. Passed = engine.wave
  BY <1>1 DEF Passed, Releases, At
<1>3. Upto(engine.wave - 1) \subseteq Upto(engine.wave)
  <2>1. engine.wave > 0 \/ engine.wave = 0
    BY <1>1, WaveTypes
  <2>. QED
    BY <1>1, <2>1, WaveParts
<1>. QED
  BY <1>1, <1>2, <1>3, SendPrepares

LEMMA DispatchedPrepares ==
  ASSUME WaveInv, Prepared, Dispatched
  PROVE  Prepared'
<1>1. /\ TypeOK /\ Stations /\ engine.wave \in 0..Len(Waves) /\ engine.waits \in 0..MaxWaits /\ At("dispatch")
      /\ EngineLeaves /\ UNCHANGED <<row, smart, deferred>> /\ engine.then \in {"next", "recheck"} /\ 0 \in 0..MaxWaits
  BY EngineParts, BoundsAssumption DEF WaveInv, Dispatched, EngineLeaves, Stations, At
<1>2. CASE engine.then = "recheck"
  <2>1. engine' = Send(engine.wave, engine.waits + 1) /\ engine.waits + 1 \in 0..MaxWaits
    BY <1>1, <1>2, BoundsAssumption DEF Dispatched, Stations
  <2>2. Passed = engine.wave - 1
    BY <1>1, <1>2 DEF Passed, Releases, At
  <2>. QED
    BY <1>1, <2>1, <2>2, SendPrepares
<1>3. CASE engine.then = "next"
  <2>1. engine' = Send(engine.wave + 1, 0) /\ engine.wave < Len(Waves)
    BY <1>1, <1>3 DEF Dispatched, Stations, Releases
  <2>2. Passed = engine.wave
    BY <1>1, <1>3 DEF Passed, Releases, At
  <2>3. engine.wave + 1 \in 0..Len(Waves) /\ (engine.wave + 1) - 1 = engine.wave
    BY <1>1, <2>1, WaveTypes
  <2>4. Later(engine.wave + 1) \subseteq Later(engine.wave)
    BY <1>1, <2>1, WaveParts
  <2>. QED
    BY <1>1, <2>1, <2>2, <2>3, <2>4, SendPrepares
<1>. QED
  BY <1>1, <1>2, <1>3

LEMMA EndPrepares ==
  ASSUME Prepared, NEW pc \in {"done", "lost"}, engine' = Ended(pc), EngineLeaves, UNCHANGED <<row, smart, deferred>>
  PROVE  Prepared'
<1>1. Reads(engine', pc, 0, 0, Nothing, {}, {}, "next")
  BY EndedFields DEF PCs
<1>2. Upto(Passed') = {}
  <2>1. 0 \in 0..Len(Waves)
    BY WaveTypes
  <2>. QED
    BY <1>1, <2>1, WaveParts DEF Passed, Reads, Releases, At
<1>. QED
  BY <1>1, <1>2, SeenTypes, PreparedLook

LEMMA EnginePrepares ==
  ASSUME Ordered, WaveInv, Prepared, EngineStep \/ EngineDies
  PROVE  Prepared'
<1>1. CASE EngineDies \/ FinalizeSave \/ (Finalize /\ engine' = Ended("done"))
  <2>1. /\ engine' = Ended("lost") \/ engine' = Ended("done")
        /\ EngineLeaves /\ UNCHANGED <<row, smart, deferred>>
    BY <1>1 DEF EngineDies, FinalizeSave, Finalize, EngineLeaves
  <2>. QED
    BY <2>1, EndPrepares
<1>2. CASE Check
  <2>1. engine'.pc = "retry"
    BY <1>2, EngineParts DEF Check, WaveInv, EngineState
  <2>2. Ended("done").pc = "done"
    BY EndedFields DEF PCs, Reads
  <2>. QED
    BY <1>2, <2>1, <2>2, LookPrepares
<1>3. CASE Finalize /\ engine' # Ended("done")
  BY <1>3, LookPrepares
<1>. QED
  BY <1>1, <1>2, <1>3, BeginFirstPrepares, RetryPrepares, ExpirePrepares, ExpireSavePrepares, CancelPrepares,
     CancelSavePrepares, GateLowPrepares, GatePrepares, EarlyPrepares, DispatchPrepares, DispatchedPrepares DEF EngineStep

LEMMA InitPrepares == Init => Prepared
<1>. SUFFICES ASSUME Init PROVE Prepared
  OBVIOUS
<1>1. Reads(engine, "queued", 0, 0, Nothing, {}, {}, "next")
  BY WaveTypes, BoundsAssumption, SendFields DEF Init
<1>2. Upto(Passed) = {}
  <2>1. 0 \in 0..Len(Waves)
    BY WaveTypes
  <2>. QED
    BY <1>1, <2>1, WaveParts DEF Passed, Reads, Releases, At
<1>3. \A s \in Services : smart[s] = 0 /\ deferred[s] = 0 /\ work[s] = "none" /\ row[s] = "QUEUED"
  BY DEF Init
<1>. QED
  BY <1>1, <1>2, <1>3, SeenTypes DEF Prepared, Reads, At

LEMMA NextPrepares == Ordered /\ WaveInv /\ Prepared /\ [Next]_vars => Prepared'
  BY NextParts, EnginePrepares, PreparedElsewhere DEF WaveInv

\* Only a message starts a build.
LEMMA OnlyMessagesBuild ==
  ASSUME [Next]_vars, NEW s \in Services, TypeOK, work[s] = "none", work'[s] = "build"
  PROVE  smart[s] > 0
<1>0. work \in [Services -> {"none", "build", "deploy"}] /\ smart \in [Services -> 0..MaxPending]
  BY TypesOf
<1>1. CASE work' = work
  BY <1>1
<1>2. ASSUME NEW r \in Services, DeferredStep(r) \/ WorkerStep(r) \/ Sweep(r) \/ MishapStep(r)
      PROVE  work' = work \/ (Take(r) /\ work' = [work EXCEPT ![r] = "build"])
             \/ \E st \in {"none", "deploy"} : work' = [work EXCEPT ![r] = st]
  BY <1>2 DEF DeferredStep, DeferredSkip, DeferredCancel, DeferredDispatch, WorkerStep, Take, HandOver, Succeed, Fail,
     Sweep, MishapStep, WorkerDies, UserCancel, Crash, Push, Demote
<1>3. EngineStep \/ EngineDies \/ ClearGhost \/ ClearAlive \/ UNCHANGED vars => work' = work
  BY DEF EngineStep, EngineDies, BeginFirst, Check, Retry, Expire, ExpireSave, Cancel, CancelSave, GateLow, Gate, Early,
     Dispatch, DispatchLow, Dispatched, Finalize, FinalizeSave, ClearGhost, ClearAlive, ClearPlan, vars
<1>4. CASE \E r \in Services : DeferredStep(r) \/ WorkerStep(r) \/ Sweep(r) \/ MishapStep(r)
  <2>1. PICK r \in Services : DeferredStep(r) \/ WorkerStep(r) \/ Sweep(r) \/ MishapStep(r)
    BY <1>4
  <2>2. CASE Take(r) /\ work' = [work EXCEPT ![r] = "build"]
    <3>1. r = s
      BY <1>0, <2>2
    <3>. QED
      BY <2>2, <3>1 DEF Take
  <2>3. CASE \E st \in {"none", "deploy"} : work' = [work EXCEPT ![r] = st]
    BY <1>0, <2>3
  <2>. QED
    BY <1>1, <1>2, <2>1, <2>2, <2>3
<1>. QED
  BY <1>1, <1>3, <1>4 DEF Next

\* In a plan without a cycle no row is built before each service it depends on was served or
\* replaced: not by the wave, the early release, a deferred task, a second attempt or a late message.
THEOREM DependenciesComeFirst == Ordered => (Spec => DependenciesFirst)
<1>. SUFFICES ASSUME Ordered PROVE Spec => DependenciesFirst
  OBVIOUS
<1>1. Init => WaveInv /\ Prepared
  BY InitKeeps, InitPrepares
<1>2. WaveInv /\ Prepared /\ [Next]_vars => WaveInv' /\ Prepared'
  BY NextKeeps, NextPrepares
<1>3. WaveInv /\ Prepared /\ [Next]_vars =>
        [\A s \in Services : work[s] = "none" /\ work'[s] = "build" => Deps[s] \subseteq served \cup pushed]_vars
  <2>. SUFFICES ASSUME WaveInv, Prepared, [Next]_vars, NEW s \in Services, work[s] = "none", work'[s] = "build"
                PROVE  Deps[s] \subseteq served \cup pushed
    OBVIOUS
  <2>1. smart[s] > 0
    BY OnlyMessagesBuild DEF WaveInv
  <2>. QED
    BY <2>1 DEF Prepared, Ready, Reached
<1>. QED
  BY <1>1, <1>2, <1>3, PTL DEF Spec, DependenciesFirst

=============================================================================
