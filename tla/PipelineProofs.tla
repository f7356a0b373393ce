--------------------------- MODULE PipelineProofs ---------------------------
(***************************************************************************)
(* The pipeline and the workers of its stages, for every number of stages, *)
(* invocations, launches and faults, any kinds of process and any          *)
(* configurations: types, who supervises at a time, what a monitor may     *)
(* spend, and what a stage leaves behind.                                  *)
(***************************************************************************)
EXTENDS Pipeline, TLAPS

\* What the invocations up to r may have counted.
Spend(r) == MaxLaunches * r

\* A worker belongs to an invocation there has been, for one of its stages; one
\* that nobody watches has lost its controller.
WorkerShape ==
  \A r \in Runs :
    LET w == worker[r]
    IN /\ w.phase = "none" => w = NoWorker
       /\ w.phase # "none" => r <= runs /\ w.stage \in Stages
       /\ w.phase = "spawning" => w.launches < MaxLaunches
       /\ w.phase = "spawned" => w.launches > 0
       /\ Alive(r) /\ ~Watched(r) => r \in killed

Saving == pc \in {"archive", "latest"}

\* A stage is about to be launched, or its worker about to load state.json.
Launching ==
  \/ pc = "launch"
  \/ Saving /\ next = "launch"
  \/ ~Idle /\ worker[run].phase = "boot"

\* The loop over the stages is about to look at stage idx.
Coming == pc = "stage" \/ (Saving /\ next = "stage")

\* What the controller holds in memory and where its worker is.
ControlShape ==
  /\ Idle <=> mem = None
  /\ ~Idle => runs > 0 /\ mem.id = runs
  /\ pc \in {"launch", "watch", "grace", "outcome", "advance"} => idx <= N
  /\ Saving /\ next = "launch" => idx <= N
  /\ pc \in {"archive", "latest", "stage", "launch", "advance", "finish"} =>
       worker[run] = NoWorker
  /\ pc \in {"watch", "grace"} => worker[run].phase # "none" /\ worker[run].stage = idx
  /\ pc = "outcome" => ~Alive(run)

\* What the parent reads when the worker it watches ends, and once it has forced
\* the end.
ToldShape ==
  /\ pc = "watch" =>
       /\ told = NoMessage
       /\ ~worker[run].termed
       /\ pipe.result \notin {124, 143}
       /\ worker[run].phase \in {"boot", "up", "spawning", "spawned"} =>
            pipe.result = None /\ ~pipe.crash /\ strays = {}
       /\ kind = "local" /\ strays # {} => pipe.crash \/ pipe.result = None
  /\ pc = "grace" =>
       /\ told.result # None
       /\ told.crash \/ told.result \in {124, 143}

\* A monitor begins with what earlier invocations counted at most, and counts one
\* restart for each launch of its own after the first.
SpendShape ==
  /\ sj <= Spend(runs)
  /\ (Launching \/ Coming) /\ idx <= N => sj <= Spend(runs - 1)
  /\ \A r \in Runs :
       LET w == worker[r]
       IN /\ w.restarts <= Spend(r - 1) + w.launches
          /\ w.phase \in {"up", "spawned"} /\ w.launches > 0 =>
               w.restarts + 1 <= Spend(r - 1) + w.launches

\* Stages that follow are complete only in a run that resumes, and while nobody was
\* killed a counter that was cleared stays so until the monitor has read it.
FreshShape ==
  /\ ~Idle /\ ~cleared =>
       \A i \in Stages : Complete(mem, i) => i < idx \/ (i = idx /\ pc = "advance")
  /\ killed = {} =>
       /\ Launching => sj = 0
       /\ Coming /\ ~cleared /\ idx \in 2 .. N => sj = 0
       /\ \A r \in Runs :
            worker[r].phase = "up" /\ worker[r].launches = 0 => worker[r].restarts = 0

PipelineInv ==
  TypeOK /\ WorkerShape /\ ControlShape /\ ToldShape /\ SpendShape /\ FreshShape

USE DEF vars, workerVars, fileVars, controlVars, ghostVars, run, Idle

-----------------------------------------------------------------------------
(* Helpers *)

LEMMA SpendFacts ==
  /\ \A r \in Nat : Spend(r) \in Nat /\ Spend(r + 1) = Spend(r) + MaxLaunches
  /\ \A r, s \in Nat : r <= s => Spend(r) <= Spend(s)
  /\ Spend(0) = 0 /\ MaxLaunches \in Nat \ {0}
<1>1. MaxLaunches \in Nat \ {0}
  BY WorkerAssumption DEF WorkerAssumption
<1>2. \A r \in Nat : Spend(r) \in Nat /\ Spend(r + 1) = Spend(r) + MaxLaunches
  BY <1>1 DEF Spend
<1>3. ASSUME NEW r \in Nat, NEW s \in Nat, r <= s
      PROVE  Spend(r) <= Spend(s)
  <2>1. PICK d \in Nat : s = r + d
    <3>1. s - r \in Nat /\ s = r + (s - r)
      BY <1>3
    <3>. QED  BY <3>1
  <2>2. Spend(s) = Spend(r) + MaxLaunches * d /\ MaxLaunches * d \in Nat
    BY <1>1, <2>1 DEF Spend
  <2>. QED  BY <1>2, <2>2
<1>4. Spend(0) = 0
  BY <1>1 DEF Spend
<1>. QED  BY <1>1, <1>2, <1>3, <1>4

LEMMA SpendMonotone ==
  ASSUME NEW r \in Nat, NEW s \in Nat, r <= s
  PROVE  Spend(r) \in Nat /\ Spend(s) \in Nat /\ Spend(r) <= Spend(s)
BY SpendFacts

\* One worker changes, the others do not.
LEMMA BecomesFacts ==
  ASSUME WorkersType, NEW r \in Runs, NEW w \in Workers, Becomes(r, w)
  PROVE  /\ worker' \in [Runs -> Workers]
         /\ worker'[r] = w
         /\ \A s \in Runs : s # r => worker'[s] = worker[s]
BY DEF WorkersType, Becomes

LEMMA NoneTypes ==
  /\ NoWorker \in Workers /\ NoWorker.phase = "none" /\ NoWorker.stage = 0
  /\ NoWorker.launches = 0 /\ NoWorker.restarts = 0
  /\ NoMessage \in Messages /\ NoMessage.child = 0
  /\ NoMessage.result = None /\ NoMessage.crash = FALSE
<1>1. N \in Nat \ {0} /\ MaxLaunches \in Nat \ {0} /\ MaxLaunches * MaxRuns \in Nat
  BY WorkerAssumption DEF WorkerAssumption
<1>. QED  BY <1>1 DEF NoWorker, NoMessage, Workers, Messages, Codes

\* What a worker is, field by field.
LEMMA WorkerFields ==
  ASSUME WorkersType, NEW r \in Runs
  PROVE  /\ worker[r] \in Workers
         /\ worker[r].stage \in 0 .. N
         /\ worker[r].child \in 0 .. MaxLaunches
         /\ worker[r].launches \in 0 .. MaxLaunches
         /\ worker[r].restarts \in 0 .. MaxLaunches * MaxRuns
         /\ worker[r].termed \in BOOLEAN
         /\ Orphan(r) \in SUBSET (1 .. MaxLaunches)
BY WorkerAssumption DEF WorkerAssumption, WorkersType, Workers, Orphan

LEMMA RunsInNat == Runs \subseteq Nat /\ (\A r \in Runs : r - 1 \in Nat /\ (r - 1) + 1 = r)
BY WorkerAssumption DEF WorkerAssumption, Runs

-----------------------------------------------------------------------------
(* The steps of a worker, and what they may do to what the parent knows *)

\* What any step of worker r does: it becomes w, or nothing is left of it.
WorkerMoves(r, w) ==
  /\ w \in Workers /\ Becomes(r, w)
  /\ Alive(r)
  /\ w.phase = "none" => w = NoWorker /\ ~Watched(r)
  /\ w.phase # "none" => w.stage = worker[r].stage /\ w.termed = worker[r].termed
  /\ w.phase # "boot"
  /\ w.phase = "spawning" => w.launches < MaxLaunches
  /\ w.phase = "spawned" => w.launches > 0

\* What it may count, and save.
WorkerCounts(r, w) ==
  /\ w.restarts <= Spend(r - 1) + w.launches
  /\ w.phase \in {"up", "spawned"} /\ w.launches > 0 =>
       w.restarts + 1 <= Spend(r - 1) + w.launches
  /\ killed = {} /\ w.phase = "up" /\ w.launches = 0 => w.restarts = 0
  /\ sj' # sj => worker[r].phase = "up" /\ sj' \in 0 .. Spend(r)

\* What it may say, and leave behind.
WorkerSays(r, w) ==
  /\ pipe' \in Messages /\ strays' \in SUBSET (1 .. MaxLaunches)
  /\ ~Watched(r) => UNCHANGED <<pipe, strays>>
  /\ Watched(r) /\ pc = "watch" =>
       /\ pipe'.result \notin {124, 143}
       /\ w.phase \in {"up", "spawning", "spawned"} =>
            pipe'.result = None /\ ~pipe'.crash /\ strays' = {}
       /\ kind = "local" /\ strays' # {} => pipe'.crash \/ pipe'.result = None
  /\ UNCHANGED <<kind, told>> /\ faults' \in Nat

WorkerFrame(r) == \E w \in Workers :
  WorkerMoves(r, w) /\ WorkerCounts(r, w) /\ WorkerSays(r, w)

\* What is known of the worker before its step.
LEMMA WorkerFacts ==
  ASSUME PipelineInv, NEW r \in Runs
  PROVE  LET w == worker[r]
         IN /\ WorkersType /\ w \in Workers
            /\ r \in Nat /\ runs \in Nat /\ MaxLaunches \in Nat \ {0}
            /\ Spend(r - 1) \in Nat /\ Spend(r) = Spend(r - 1) + MaxLaunches
            /\ w.launches \in 0 .. MaxLaunches /\ w.child \in 0 .. MaxLaunches
            /\ w.restarts \in 0 .. MaxLaunches * MaxRuns
            /\ Orphan(r) \in SUBSET (1 .. MaxLaunches)
            /\ strays \in SUBSET (1 .. MaxLaunches)
            /\ pipe \in Messages /\ told \in Messages /\ faults \in Nat
            /\ w.restarts <= Spend(r - 1) + w.launches
            /\ w.phase \in {"up", "spawned"} /\ w.launches > 0 =>
                 w.restarts + 1 <= Spend(r - 1) + w.launches
            /\ killed = {} /\ w.phase = "up" /\ w.launches = 0 => w.restarts = 0
            /\ w.phase = "spawning" => w.launches < MaxLaunches
            /\ w.phase = "spawned" => w.launches > 0
            /\ Watched(r) => pc \in {"watch", "grace"} \/ ~Alive(r)
<1>1. WorkersType /\ WorkerShape /\ SpendShape /\ FreshShape /\ ControlShape /\ ControlType
  BY DEF PipelineInv, TypeOK
<1>2. /\ worker[r] \in Workers
      /\ worker[r].launches \in 0 .. MaxLaunches /\ worker[r].child \in 0 .. MaxLaunches
      /\ worker[r].restarts \in 0 .. MaxLaunches * MaxRuns
      /\ Orphan(r) \in SUBSET (1 .. MaxLaunches)
  BY <1>1, WorkerFields
<1>3. r \in Nat /\ r - 1 \in Nat /\ (r - 1) + 1 = r
  BY RunsInNat
<1>4. runs \in Nat
  BY <1>1, WorkerAssumption DEF WorkerAssumption, ControlType
<1>5. /\ strays \in SUBSET (1 .. MaxLaunches) /\ pipe \in Messages /\ told \in Messages
      /\ faults \in Nat
  BY <1>1 DEF WorkersType
<1>6. Spend(r - 1) \in Nat /\ Spend(r) = Spend(r - 1) + MaxLaunches /\ MaxLaunches \in Nat \ {0}
  BY <1>3, SpendFacts
<1>7. Watched(r) => pc \in {"watch", "grace"} \/ ~Alive(r)
  BY <1>1, NoneTypes DEF ControlShape, ControlType, Watched, Alive
<1>8. /\ worker[r].phase = "spawning" => worker[r].launches < MaxLaunches
      /\ worker[r].phase = "spawned" => worker[r].launches > 0
  BY <1>1 DEF WorkerShape
<1>9. /\ worker[r].restarts <= Spend(r - 1) + worker[r].launches
      /\ worker[r].phase \in {"up", "spawned"} /\ worker[r].launches > 0 =>
           worker[r].restarts + 1 <= Spend(r - 1) + worker[r].launches
      /\ killed = {} /\ worker[r].phase = "up" /\ worker[r].launches = 0 =>
           worker[r].restarts = 0
  BY <1>1 DEF SpendShape, FreshShape
<1>. QED  BY <1>1, <1>2, <1>3, <1>4, <1>5, <1>6, <1>7, <1>8, <1>9

LEMMA EndedRecord ==
  ASSUME PipelineInv, NEW r \in Runs, NEW p \in {"gone", "exiting"}
  PROVE  LET w == [worker[r] EXCEPT !.phase = p, !.child = 0]
         IN /\ w \in Workers /\ w.phase = p /\ w.stage = worker[r].stage
            /\ w.termed = worker[r].termed /\ w.launches = worker[r].launches
            /\ w.restarts = worker[r].restarts
<1>. DEFINE w == [worker[r] EXCEPT !.phase = p, !.child = 0]
            u == [worker[r] EXCEPT !.phase = p]
<1>1. worker[r] \in Workers /\ MaxLaunches \in Nat
  BY WorkerFacts
<1>2. /\ u \in Workers /\ u.phase = p /\ u.stage = worker[r].stage
      /\ u.termed = worker[r].termed /\ u.launches = worker[r].launches
      /\ u.restarts = worker[r].restarts
  BY <1>1 DEF Workers
<1>3. w = [u EXCEPT !.child = 0]
  OBVIOUS
<1>. HIDE DEF u
<1>. QED  BY <1>1, <1>2, <1>3 DEF Workers

\* A worker that is over is gone for its parent, and nothing for anybody else.
LEMMA LeavesFrame ==
  ASSUME PipelineInv, NEW r \in Runs, Alive(r), Leaves(r, Watched(r))
  PROVE  \E w \in Workers : WorkerMoves(r, w) /\ w.phase \in {"none", "gone"}
           /\ w.restarts <= Spend(r - 1) + w.launches
<1>. DEFINE v == [worker[r] EXCEPT !.phase = "gone", !.child = 0]
            w == IF Watched(r) THEN v ELSE NoWorker
<1>1. /\ worker[r] \in Workers /\ Spend(r - 1) \in Nat
      /\ worker[r].restarts <= Spend(r - 1) + worker[r].launches
  BY WorkerFacts
<1>2. /\ v \in Workers /\ v.phase = "gone" /\ v.stage = worker[r].stage
      /\ v.termed = worker[r].termed /\ v.launches = worker[r].launches
      /\ v.restarts = worker[r].restarts
  BY EndedRecord
<1>3. Becomes(r, w)
  BY DEF Leaves
<1>. HIDE DEF v
<1>4. w \in Workers /\ WorkerMoves(r, w) /\ w.phase \in {"none", "gone"}
  BY <1>2, <1>3, NoneTypes DEF WorkerMoves
<1>5. w.restarts <= Spend(r - 1) + w.launches
  BY <1>1, <1>2, NoneTypes
<1>. QED  BY <1>4, <1>5

LEMMA ReadyFrame ==
  ASSUME PipelineInv, NEW r \in Runs, WorkerReady(r, Watched(r))
  PROVE  WorkerFrame(r)
<1>. USE WorkerFacts
<1>1. Alive(r) /\ UNCHANGED <<kind, pipe, told, strays, sj, faults>>
  BY DEF WorkerReady, Alive
<1>2. CASE Watched(r)
  <2>. DEFINE w == [worker[r] EXCEPT !.phase = "up", !.restarts = sj]
  <2>1. /\ w \in Workers /\ w.phase = "up" /\ w.stage = worker[r].stage
        /\ w.termed = worker[r].termed /\ w.launches = worker[r].launches
        /\ w.restarts = sj
    BY DEF WorkersType, Workers
  <2>2. Becomes(r, w)
    BY <1>2 DEF WorkerReady
  <2>. HIDE DEF w
  <2>3. WorkerMoves(r, w)
    BY <1>1, <2>1, <2>2 DEF WorkerMoves
  <2>4. sj <= Spend(r - 1) /\ (killed = {} => sj = 0) /\ sj \in Nat
    <3>1. Launching /\ idx <= N /\ r = run
      BY <1>1, <1>2 DEF Launching, WorkerReady, Watched, PipelineInv, ControlShape
    <3>2. sj \in Nat
      BY WorkerAssumption DEF WorkerAssumption, WorkersType
    <3>. QED  BY <3>1, <3>2 DEF PipelineInv, SpendShape, FreshShape
  <2>5. WorkerCounts(r, w)
    BY <1>1, <2>1, <2>4 DEF WorkerCounts
  <2>6. WorkerSays(r, w)
    BY <1>1, <1>2, <2>1 DEF WorkerSays, WorkerReady, PipelineInv, ToldShape, Watched
  <2>. QED  BY <2>1, <2>3, <2>5, <2>6 DEF WorkerFrame
<1>3. CASE ~Watched(r)
  <2>1. PICK w \in Workers : WorkerMoves(r, w) /\ w.phase \in {"none", "gone"}
           /\ w.restarts <= Spend(r - 1) + w.launches
    BY <1>1, <1>3, LeavesFrame DEF WorkerReady, Leaves
  <2>2. WorkerCounts(r, w) /\ WorkerSays(r, w)
    BY <1>1, <1>3, <2>1 DEF WorkerCounts, WorkerSays
  <2>. QED  BY <2>1, <2>2 DEF WorkerFrame
<1>. QED  BY <1>2, <1>3

LEMMA ReservesFrame ==
  ASSUME PipelineInv, NEW r \in Runs, WorkerReserves(r, Watched(r))
  PROVE  WorkerFrame(r)
<1>. USE WorkerFacts
<1>. DEFINE n == worker[r].restarts + (IF worker[r].launches > 0 THEN 1 ELSE 0)
            w == [worker[r] EXCEPT !.phase = "spawning", !.restarts = n]
<1>1. /\ Alive(r) /\ worker[r].phase = "up" /\ worker[r].launches < MaxLaunches
      /\ UNCHANGED <<kind, told, strays, faults>> /\ Becomes(r, w) /\ sj' = n
  BY DEF WorkerReserves, Alive
<1>2. n \in Nat /\ n <= Spend(r - 1) + worker[r].launches /\ n <= Spend(r)
  BY <1>1
<1>3. n \in 0 .. MaxLaunches * MaxRuns
  <2>1. Spend(r) <= Spend(MaxRuns) /\ Spend(MaxRuns) \in Nat
    BY SpendFacts, WorkerAssumption DEF WorkerAssumption, Runs
  <2>. QED  BY <1>2, <2>1 DEF Spend
<1>. HIDE DEF n
<1>4. /\ w \in Workers /\ w.phase = "spawning" /\ w.stage = worker[r].stage
      /\ w.termed = worker[r].termed /\ w.launches = worker[r].launches
      /\ w.restarts = n
  BY <1>3 DEF Workers
<1>. HIDE DEF w
<1>5. WorkerMoves(r, w)
  BY <1>1, <1>4 DEF WorkerMoves
<1>6. WorkerCounts(r, w)
  BY <1>1, <1>2, <1>4 DEF WorkerCounts
<1>7. WorkerSays(r, w)
  <2>1. pipe' \in Messages /\ pipe'.result = pipe.result /\ pipe'.crash = pipe.crash
        /\ (~Watched(r) => pipe' = pipe)
    BY <1>1 DEF WorkerReserves, Messages
  <2>. QED  BY <1>1, <1>4, <2>1 DEF WorkerSays, PipelineInv, ToldShape, Watched
<1>. QED  BY <1>4, <1>5, <1>6, <1>7 DEF WorkerFrame

LEMMA SpawnsFrame ==
  ASSUME PipelineInv, NEW r \in Runs, WorkerSpawns(r)
  PROVE  WorkerFrame(r)
<1>. USE WorkerFacts
<1>. DEFINE n == worker[r].launches + 1
            w == [worker[r] EXCEPT !.child = n, !.launches = n,
                    !.phase = IF kind = "docker" THEN "up" ELSE "spawned"]
<1>1. /\ Alive(r) /\ worker[r].phase = "spawning" /\ n \in 1 .. MaxLaunches
      /\ UNCHANGED <<kind, pipe, told, strays, sj, faults>> /\ Becomes(r, w)
  BY DEF WorkerSpawns, Alive
<1>. HIDE DEF n
<1>2. /\ w \in Workers /\ w.phase \in {"up", "spawned"} /\ w.stage = worker[r].stage
      /\ w.termed = worker[r].termed /\ w.launches = n
      /\ w.restarts = worker[r].restarts
  <2>. DEFINE u == [worker[r] EXCEPT !.child = n, !.launches = n]
              p == IF kind = "docker" THEN "up" ELSE "spawned"
  <2>1. /\ u \in Workers /\ u.stage = worker[r].stage /\ u.termed = worker[r].termed
        /\ u.launches = n /\ u.restarts = worker[r].restarts
    <3>. DEFINE x == [worker[r] EXCEPT !.child = n]
    <3>1. /\ x \in Workers /\ x.stage = worker[r].stage /\ x.termed = worker[r].termed
          /\ x.restarts = worker[r].restarts
      BY <1>1 DEF Workers
    <3>2. u = [x EXCEPT !.launches = n]
      OBVIOUS
    <3>. HIDE DEF x
    <3>. QED  BY <1>1, <3>1, <3>2 DEF Workers
  <2>2. w = [u EXCEPT !.phase = p] /\ p \in {"up", "spawned"}
    OBVIOUS
  <2>. HIDE DEF u, p
  <2>. QED  BY <2>1, <2>2 DEF Workers
<1>. HIDE DEF w
<1>3. WorkerMoves(r, w)
  BY <1>1, <1>2 DEF WorkerMoves
<1>4. WorkerCounts(r, w)
  BY <1>1, <1>2 DEF WorkerCounts, n
<1>5. WorkerSays(r, w)
  BY <1>1, <1>2 DEF WorkerSays, PipelineInv, ToldShape, Watched
<1>. QED  BY <1>2, <1>3, <1>4, <1>5 DEF WorkerFrame

\* A worker that is over, without a word.
LEMMA LeftFrame ==
  ASSUME PipelineInv, NEW r \in Runs, Alive(r), Leaves(r, Watched(r)),
         sj' # sj => worker[r].phase = "up" /\ sj' = worker[r].restarts,
         pipe' = pipe, UNCHANGED <<kind, told>>, faults' \in Nat,
         strays' \in SUBSET (1 .. MaxLaunches),
         ~Watched(r) => strays' = strays,
         strays' = strays \/ (Watched(r) /\ pc = "watch" => pipe.result = None)
  PROVE  WorkerFrame(r)
<1>. USE WorkerFacts
<1>1. PICK w \in Workers : WorkerMoves(r, w) /\ w.phase \in {"none", "gone"}
         /\ w.restarts <= Spend(r - 1) + w.launches
  BY LeavesFrame
<1>2. WorkerCounts(r, w)
  BY <1>1 DEF WorkerCounts
<1>3. WorkerSays(r, w)
  BY <1>1 DEF WorkerSays, PipelineInv, ToldShape, Watched
<1>. QED  BY <1>1, <1>2, <1>3 DEF WorkerFrame

LEMMA TellsFrame ==
  ASSUME PipelineInv, NEW r \in Runs, WorkerTells(r, Watched(r))
  PROVE  WorkerFrame(r)
<1>. USE WorkerFacts
<1>1. /\ Alive(r) /\ worker[r].phase = "spawned"
      /\ UNCHANGED <<kind, told, strays, sj, faults>>
  BY DEF WorkerTells, Alive
<1>2. CASE Watched(r)
  <2>. DEFINE w == [worker[r] EXCEPT !.phase = "up"]
  <2>1. /\ w \in Workers /\ w.phase = "up" /\ w.stage = worker[r].stage
        /\ w.termed = worker[r].termed /\ w.launches = worker[r].launches
        /\ w.restarts = worker[r].restarts
    BY DEF Workers
  <2>2. Becomes(r, w)
    BY <1>2 DEF WorkerTells
  <2>. HIDE DEF w
  <2>3. WorkerMoves(r, w) /\ WorkerCounts(r, w)
    BY <1>1, <2>1, <2>2 DEF WorkerMoves, WorkerCounts
  <2>4. pipe' \in Messages /\ pipe'.result = pipe.result /\ pipe'.crash = pipe.crash
    BY <1>2 DEF WorkerTells, Messages
  <2>5. WorkerSays(r, w)
    BY <1>1, <1>2, <2>1, <2>4 DEF WorkerSays, PipelineInv, ToldShape, Watched
  <2>. QED  BY <2>1, <2>3, <2>5 DEF WorkerFrame
<1>3. CASE ~Watched(r)
  BY <1>1, <1>3, LeftFrame DEF WorkerTells, Leaves
<1>. QED  BY <1>2, <1>3

LEMMA EndsFrame ==
  ASSUME PipelineInv, NEW r \in Runs, WorkloadEnds(r)
  PROVE  WorkerFrame(r)
<1>. USE WorkerFacts
<1>. DEFINE w == [worker[r] EXCEPT !.child = 0]
<1>1. /\ Alive(r) /\ worker[r].phase = "up"
      /\ UNCHANGED <<kind, pipe, told, strays, sj, faults>> /\ Becomes(r, w)
  BY DEF WorkloadEnds, Alive
<1>2. /\ w \in Workers /\ w.phase = "up" /\ w.stage = worker[r].stage
      /\ w.termed = worker[r].termed /\ w.launches = worker[r].launches
      /\ w.restarts = worker[r].restarts
  BY <1>1 DEF Workers
<1>. HIDE DEF w
<1>3. WorkerMoves(r, w) /\ WorkerCounts(r, w)
  BY <1>1, <1>2 DEF WorkerMoves, WorkerCounts
<1>4. WorkerSays(r, w)
  BY <1>1, <1>2 DEF WorkerSays, PipelineInv, ToldShape, Watched
<1>. QED  BY <1>2, <1>3, <1>4 DEF WorkerFrame

LEMMA SavesFrame ==
  ASSUME PipelineInv, NEW r \in Runs, WorkerSaves(r)
  PROVE  WorkerFrame(r)
<1>. USE WorkerFacts
<1>. DEFINE w == worker[r]
<1>1. /\ Alive(r) /\ w.phase = "up" /\ sj' = w.restarts
      /\ UNCHANGED <<kind, worker, pipe, told, strays, faults>>
  BY DEF WorkerSaves, Alive
<1>2. w \in Workers /\ Becomes(r, w)
  BY <1>1 DEF Becomes, WorkersType
<1>. HIDE DEF w
<1>3. WorkerMoves(r, w)
  BY <1>1, <1>2 DEF WorkerMoves, w
<1>4. WorkerCounts(r, w)
  BY <1>1 DEF WorkerCounts, w
<1>5. WorkerSays(r, w)
  BY <1>1 DEF WorkerSays, PipelineInv, ToldShape, Watched, w
<1>. QED  BY <1>2, <1>3, <1>4, <1>5 DEF WorkerFrame

\* A worker that reports to its parent and ends: with a code, or by an exception.
LEMMA ExitingFrame ==
  ASSUME PipelineInv, NEW r \in Runs, Watched(r),
         worker[r].phase \in {"up", "spawning", "spawned"},
         Becomes(r, [worker[r] EXCEPT !.phase = "exiting", !.child = 0]),
         sj' # sj => worker[r].phase = "up" /\ sj' = worker[r].restarts,
         UNCHANGED <<kind, told>>, faults' \in Nat,
         pipe' \in Messages, pc = "watch" => pipe'.result \notin {124, 143},
         strays' \in SUBSET (1 .. MaxLaunches),
         kind = "local" => strays' = strays \/ pipe'.crash
  PROVE  WorkerFrame(r)
<1>. USE WorkerFacts
<1>. DEFINE w == [worker[r] EXCEPT !.phase = "exiting", !.child = 0]
<1>1. /\ w \in Workers /\ w.phase = "exiting" /\ w.stage = worker[r].stage
      /\ w.termed = worker[r].termed /\ w.launches = worker[r].launches
      /\ w.restarts = worker[r].restarts
  BY EndedRecord
<1>. HIDE DEF w
<1>2. Becomes(r, w) /\ Alive(r)
  BY DEF w, Alive
<1>3. WorkerMoves(r, w) /\ WorkerCounts(r, w)
  BY <1>1, <1>2 DEF WorkerMoves, WorkerCounts
<1>4. pc = "watch" => strays = {}
  BY DEF PipelineInv, ToldShape, Watched
<1>5. WorkerSays(r, w)
  BY <1>1, <1>4 DEF WorkerSays
<1>. QED  BY <1>1, <1>3, <1>5 DEF WorkerFrame

LEMMA FinishesFrame ==
  ASSUME PipelineInv, NEW r \in Runs, NEW code \in {0, 1, 143},
         WorkerFinishes(r, code, Watched(r))
  PROVE  WorkerFrame(r)
<1>. USE WorkerFacts
<1>1. /\ Alive(r) /\ worker[r].phase = "up" /\ sj' = worker[r].restarts
      /\ UNCHANGED <<kind, told, faults>> /\ (code = 143 <=> worker[r].termed)
  BY DEF WorkerFinishes, Alive
<1>2. CASE Watched(r)
  <2>1. /\ Becomes(r, [worker[r] EXCEPT !.phase = "exiting", !.child = 0])
        /\ pipe' = [pipe EXCEPT !.result = code]
        /\ strays' = strays \/ (kind # "local" /\ strays' = strays \cup Orphan(r))
    BY <1>2 DEF WorkerFinishes
  <2>2. pipe' \in Messages /\ pipe'.result = code
    BY <2>1 DEF Messages, Codes
  <2>3. pc = "watch" => code # 143
    BY <1>1, <1>2 DEF PipelineInv, ToldShape, Watched
  <2>4. strays' \in SUBSET (1 .. MaxLaunches)
    BY <2>1
  <2>5. /\ pc = "watch" => pipe'.result \notin {124, 143}
        /\ kind = "local" => strays' = strays \/ pipe'.crash
        /\ worker[r].phase \in {"up", "spawning", "spawned"} /\ faults' \in Nat
    BY <1>1, <2>1, <2>2, <2>3
  <2>. QED  BY <1>1, <1>2, <2>1, <2>2, <2>4, <2>5, ExitingFrame, Zenon
<1>3. CASE ~Watched(r)
  <2>1. Leaves(r, FALSE) /\ pipe' = pipe /\ strays' = strays
    BY <1>3 DEF WorkerFinishes
  <2>. QED  BY <1>1, <1>3, <2>1, LeftFrame DEF Leaves
<1>. QED  BY <1>2, <1>3

LEMMA RaisesFrame ==
  ASSUME PipelineInv, NEW r \in Runs, WorkerRaises(r, Watched(r))
  PROVE  WorkerFrame(r)
<1>. USE WorkerFacts
<1>1. /\ Alive(r) /\ worker[r].phase \in {"up", "spawning", "spawned"}
      /\ UNCHANGED <<kind, told, sj>> /\ faults' \in Nat
  BY DEF WorkerRaises, Alive
<1>2. CASE Watched(r)
  <2>1. /\ Becomes(r, [worker[r] EXCEPT !.phase = "exiting", !.child = 0])
        /\ pipe' = [pipe EXCEPT !.result = 1, !.crash = TRUE]
        /\ strays' \in {strays, strays \cup Orphan(r)}
    BY <1>2 DEF WorkerRaises
  <2>2. pipe' \in Messages /\ pipe'.result = 1 /\ pipe'.crash
    BY <2>1 DEF Messages, Codes
  <2>3. strays' \in SUBSET (1 .. MaxLaunches)
    BY <2>1
  <2>4. /\ pc = "watch" => pipe'.result \notin {124, 143}
        /\ kind = "local" => strays' = strays \/ pipe'.crash
    BY <2>2
  <2>. QED  BY <1>1, <1>2, <2>1, <2>2, <2>3, <2>4, ExitingFrame, Zenon
<1>3. CASE ~Watched(r)
  <2>1. Leaves(r, FALSE) /\ pipe' = pipe /\ strays' = strays
    BY <1>3 DEF WorkerRaises
  <2>. QED  BY <1>1, <1>3, <2>1, LeftFrame DEF Leaves
<1>. QED  BY <1>2, <1>3

LEMMA ExitsFrame ==
  ASSUME PipelineInv, NEW r \in Runs, WorkerExits(r, Watched(r))
  PROVE  WorkerFrame(r)
BY WorkerFacts, LeftFrame DEF WorkerExits, Alive

LEMMA DiesFrame ==
  ASSUME PipelineInv, NEW r \in Runs, WorkerDies(r, Watched(r))
  PROVE  WorkerFrame(r)
<1>. USE WorkerFacts
<1>1. /\ Alive(r) /\ Leaves(r, Watched(r)) /\ UNCHANGED <<kind, pipe, told, sj>>
      /\ faults' \in Nat
      /\ worker[r].phase \in {"boot", "up", "spawning", "spawned"}
      /\ strays' = IF Watched(r) THEN strays \cup Orphan(r) ELSE strays
  BY DEF WorkerDies, Alive
<1>2. Watched(r) /\ pc = "watch" => pipe.result = None
  BY <1>1 DEF PipelineInv, ToldShape, Watched
<1>3. strays' \in SUBSET (1 .. MaxLaunches) /\ (~Watched(r) => strays' = strays)
  BY <1>1
<1>. QED  BY <1>1, <1>2, <1>3, LeftFrame

\* Every step of a worker is one of the kind.
LEMMA WorkerFramed ==
  ASSUME PipelineInv, NEW r \in Runs, WorkerStep(r)
  PROVE  WorkerFrame(r) /\ passed \subseteq passed'
<1>1. CASE \E code \in {0, 1, 143} : Reports(r, code)
  BY <1>1, FinishesFrame DEF Reports
<1>2. CASE UNCHANGED passed /\ ~(\E code \in {0, 1, 143} : Reports(r, code))
  BY <1>2, ReadyFrame, ReservesFrame, SpawnsFrame, TellsFrame, EndsFrame, SavesFrame,
     RaisesFrame, ExitsFrame, DiesFrame DEF WorkerStep
<1>. QED  BY <1>1, <1>2 DEF WorkerStep

\* What a worker reports is a stage of the run under the configuration in memory.
LEMMA PassedType ==
  ASSUME PipelineInv, NEW r \in Runs, WorkerStep(r)
  PROVE  passed' \in SUBSET [layout : Layouts, run : Runs, stage : Stages, print : Prints]
<1>1. passed \in SUBSET [layout : Layouts, run : Runs, stage : Stages, print : Prints]
  BY DEF PipelineInv, TypeOK, FilesType
<1>2. ASSUME NEW code \in {0, 1, 143}, Reports(r, code), code = 0, Watched(r)
      PROVE  [layout |-> mem.layout, run |-> r, stage |-> worker[r].stage,
              print |-> mem.stages[worker[r].stage].print]
                \in [layout : Layouts, run : Runs, stage : Stages, print : Prints]
  <2>1. worker[r].stage \in Stages
    BY <1>2, NoneTypes DEF Reports, WorkerFinishes, PipelineInv, WorkerShape
  <2>2. mem \in States
    BY <1>2 DEF Watched, PipelineInv, TypeOK, ControlType, ControlShape
  <2>. QED  BY <2>1, <2>2 DEF States, Results
<1>. QED  BY <1>1, <1>2 DEF WorkerStep, Reports

\* Such a step keeps the invariant.
LEMMA WorkerKeeps ==
  ASSUME PipelineInv, NEW r \in Runs, WorkerStep(r),
         UNCHANGED <<config, edits, fileVars, controlVars, killed>>
  PROVE  PipelineInv'
<1>. USE RunsInNat
<1>1. PICK w \in Workers : WorkerMoves(r, w) /\ WorkerCounts(r, w) /\ WorkerSays(r, w)
  BY WorkerFramed DEF WorkerFrame
<1>2. /\ WorkersType /\ WorkerShape /\ ControlShape /\ ToldShape /\ SpendShape /\ FreshShape
      /\ FilesType /\ ControlType
  BY DEF PipelineInv, TypeOK
<1>3. /\ worker' \in [Runs -> Workers] /\ worker'[r] = w
      /\ \A s \in Runs : s # r => worker'[s] = worker[s]
  BY <1>1, <1>2, BecomesFacts DEF WorkerMoves
<1>4. r <= runs /\ runs \in Nat /\ runs \in 0 .. MaxRuns /\ run \in Runs
  <2>1. r <= runs /\ runs \in 0 .. MaxRuns /\ MaxRuns \in Nat
    BY <1>1, <1>2, WorkerAssumption
    DEF WorkerAssumption, WorkerMoves, Alive, WorkerShape, ControlType
  <2>. QED  BY <2>1 DEF Runs
<1>5. sj' \in Nat /\ sj' <= Spend(runs)
  <2>1. sj \in Nat /\ sj <= Spend(runs) /\ Spend(r) <= Spend(runs) /\ Spend(r) \in Nat
        /\ Spend(runs) \in Nat
    BY <1>2, <1>4, SpendFacts, WorkerAssumption
    DEF WorkerAssumption, WorkersType, SpendShape
  <2>. QED  BY <1>1, <2>1 DEF WorkerCounts
<1>6. TypeOK'
  <2>1. sj' \in 0 .. MaxLaunches * MaxRuns
    <3>1. runs <= MaxRuns /\ MaxRuns \in Nat
      BY <1>4, WorkerAssumption DEF WorkerAssumption
    <3>2. Spend(runs) <= Spend(MaxRuns) /\ Spend(runs) \in Nat /\ Spend(MaxRuns) \in Nat
      BY <1>4, <3>1, SpendMonotone
    <3>. QED  BY <1>5, <3>2 DEF Spend
  <2>2. WorkersType'
    BY <1>1, <1>2, <1>3, <2>1 DEF WorkersType, WorkerSays
  <2>3. FilesType'
    BY <1>2, PassedType DEF FilesType
  <2>4. ControlType'
    BY <1>2 DEF ControlType
  <2>. QED  BY <2>2, <2>3, <2>4 DEF TypeOK
<1>7. WorkerShape'
  <2>. SUFFICES ASSUME NEW s \in Runs
       PROVE  /\ worker'[s].phase = "none" => worker'[s] = NoWorker
              /\ worker'[s].phase # "none" => s <= runs /\ worker'[s].stage \in Stages
              /\ worker'[s].phase = "spawning" => worker'[s].launches < MaxLaunches
              /\ worker'[s].phase = "spawned" => worker'[s].launches > 0
              /\ worker'[s].phase \notin {"none", "gone"} /\ ~Watched(s) => s \in killed
    BY DEF WorkerShape, Alive, Watched
  <2>1. CASE s # r
    BY <1>2, <1>3, <2>1 DEF WorkerShape, Alive
  <2>2. CASE s = r
    BY <1>1, <1>2, <1>3, <1>4, <2>2 DEF WorkerMoves, WorkerShape, Alive
  <2>. QED  BY <2>1, <2>2
<1>8. ControlShape'
  <2>1. pc \in {"archive", "latest", "stage", "launch", "advance", "finish"} =>
          r # run /\ worker'[run] = NoWorker
    BY <1>1, <1>2, <1>3, <1>4, NoneTypes DEF ControlShape, WorkerMoves, Alive
  <2>2. pc \in {"watch", "grace"} => worker'[run].phase # "none" /\ worker'[run].stage = idx
    BY <1>1, <1>2, <1>3, <1>4 DEF ControlShape, WorkerMoves, Alive, Watched
  <2>3. pc = "outcome" => worker'[run].phase \in {"none", "gone"}
    BY <1>1, <1>2, <1>3, <1>4 DEF ControlShape, WorkerMoves, Alive
  <2>. QED  BY <1>2, <2>1, <2>2, <2>3 DEF ControlShape, Alive, Saving
<1>9. ToldShape'
  <2>1. CASE r = run
    BY <1>1, <1>2, <1>3, <1>4, <2>1 DEF ToldShape, WorkerMoves, WorkerSays, Watched
  <2>2. CASE r # run
    BY <1>1, <1>2, <1>3, <1>4, <2>2 DEF ToldShape, WorkerSays, Watched
  <2>. QED  BY <2>1, <2>2
<1>10. Launching' => Launching /\ (r = run => ~Alive(run) \/ worker[run].phase = "boot")
  BY <1>1, <1>2, <1>3, <1>4, NoneTypes
  DEF Launching, Saving, WorkerMoves, ControlShape, Alive
<1>11. Coming' => Coming /\ (r = run => ~Alive(run))
  BY <1>2, NoneTypes DEF Coming, Saving, ControlShape, Alive
<1>12. (Launching \/ Coming)' /\ sj' # sj => r < runs
  BY <1>1, <1>4, <1>10, <1>11 DEF WorkerCounts, Alive
<1>13. SpendShape'
  <2>1. (Launching \/ Coming)' /\ idx <= N => sj' <= Spend(runs - 1)
    <3>1. CASE sj' = sj
      BY <1>2, <1>10, <1>11, <3>1 DEF SpendShape
    <3>2. CASE sj' # sj /\ (Launching \/ Coming)'
      <4>1. r \in Nat /\ runs - 1 \in Nat /\ r <= runs - 1
        BY <1>4, <1>12, <3>2
      <4>2. Spend(r) <= Spend(runs - 1) /\ Spend(r) \in Nat /\ Spend(runs - 1) \in Nat
        BY <4>1, SpendMonotone
      <4>. QED  BY <1>1, <3>2, <4>2 DEF WorkerCounts
    <3>. QED  BY <3>1, <3>2
  <2>2. ASSUME NEW s \in Runs
        PROVE  /\ worker'[s].restarts <= Spend(s - 1) + worker'[s].launches
               /\ worker'[s].phase \in {"up", "spawned"} /\ worker'[s].launches > 0 =>
                    worker'[s].restarts + 1 <= Spend(s - 1) + worker'[s].launches
    <3>1. CASE s # r
      BY <1>2, <1>3, <3>1 DEF SpendShape
    <3>2. CASE s = r
      BY <1>1, <1>3, <3>2 DEF WorkerCounts
    <3>. QED  BY <3>1, <3>2
  <2>. QED  BY <1>5, <2>1, <2>2 DEF SpendShape, Spend
<1>14. FreshShape'
  <2>1. killed = {} => Watched(r)
    BY <1>1, <1>2 DEF WorkerShape, WorkerMoves
  <2>2. killed = {} /\ (Launching \/ Coming)' => sj' = sj
    BY <1>4, <1>12, <2>1 DEF Watched
  <2>3. ASSUME killed = {}, NEW s \in Runs, worker'[s].phase = "up", worker'[s].launches = 0
        PROVE  worker'[s].restarts = 0
    <3>1. CASE s # r
      BY <1>2, <1>3, <2>3, <3>1 DEF FreshShape
    <3>2. CASE s = r
      BY <1>1, <1>3, <2>3, <3>2 DEF WorkerCounts
    <3>. QED  BY <3>1, <3>2
  <2>4. killed = {} /\ Launching' => sj' = 0
    BY <1>2, <1>10, <2>2 DEF FreshShape
  <2>5. killed = {} /\ Coming' /\ ~cleared /\ idx \in 2 .. N => sj' = 0
    BY <1>2, <1>11, <2>2 DEF FreshShape
  <2>. QED  BY <1>2, <2>3, <2>4, <2>5 DEF FreshShape, Complete
<1>. QED  BY <1>6, <1>7, <1>8, <1>9, <1>13, <1>14 DEF PipelineInv

-----------------------------------------------------------------------------
(* The steps of the controller *)

LEMMA PipelineInit == Init => PipelineInv
<1>. SUFFICES ASSUME Init PROVE PipelineInv
  OBVIOUS
<1>1. /\ N \in Nat \ {0} /\ MaxRuns \in Nat \ {0} /\ MaxLaunches \in Nat \ {0}
      /\ Prints # {} /\ Layouts # {}
  BY WorkerAssumption, PipelineAssumption DEF WorkerAssumption, PipelineAssumption
<1>2. /\ FirstLayout \in Layouts /\ FirstPrint \in Prints
  BY <1>1 DEF FirstLayout, FirstPrint
<1>3. /\ worker = [r \in Runs |-> NoWorker] /\ sj = 0 /\ runs = 0 /\ pc = "idle"
      /\ mem = None /\ pipe = NoMessage /\ told = NoMessage
  BY DEF Init, WorkerInit
<1>4. WorkersType
  <2>1. MaxLaunches * MaxRuns \in Nat
    BY <1>1
  <2>. QED  BY <1>3, <2>1, NoneTypes DEF Init, WorkerInit, WorkersType
<1>5. FilesType
  <2>1. config \in Configs
    BY <1>2 DEF Init, Configs
  <2>. QED  BY <2>1 DEF Init, FilesType
<1>6. ControlType
  <2>1. /\ next = "stage" /\ idx = 1 /\ ~cleared /\ ~signal /\ ~errors /\ outcome = 0
        /\ cleared \in BOOLEAN /\ signal \in BOOLEAN /\ errors \in BOOLEAN
        /\ edits = 0 /\ killed = {}
    BY DEF Init
  <2>. QED  BY <1>1, <1>3, <2>1 DEF ControlType, Codes
<1>7. WorkerShape /\ ControlShape /\ ToldShape
  BY <1>3, NoneTypes DEF WorkerShape, ControlShape, ToldShape, Alive, Saving
<1>8. SpendShape
  <2>1. \A r \in Runs : Spend(r - 1) \in Nat
    BY RunsInNat, SpendFacts
  <2>2. ~Launching /\ ~Coming /\ sj <= Spend(runs)
    BY <1>3, SpendFacts DEF Launching, Coming, Saving
  <2>3. \A r \in Runs : worker[r] = NoWorker
    BY <1>3
  <2>. QED  BY <2>1, <2>2, <2>3, NoneTypes DEF SpendShape
<1>9. FreshShape
  BY <1>3, NoneTypes DEF FreshShape, Launching, Coming, Saving
<1>. QED  BY <1>4, <1>5, <1>6, <1>7, <1>8, <1>9 DEF PipelineInv, TypeOK

\* The parts of the invariant, for the steps of the controller.
LEMMA InvParts ==
  ASSUME PipelineInv
  PROVE  /\ WorkersType /\ FilesType /\ ControlType
         /\ WorkerShape /\ ControlShape /\ ToldShape /\ SpendShape /\ FreshShape
         /\ runs \in Nat /\ N \in Nat \ {0} /\ MaxRuns \in Nat /\ idx \in Nat
         /\ ~Idle => mem \in States /\ run \in Runs
<1>1. /\ WorkersType /\ FilesType /\ ControlType
      /\ WorkerShape /\ ControlShape /\ ToldShape /\ SpendShape /\ FreshShape
  BY DEF PipelineInv, TypeOK
<1>2. runs \in Nat /\ N \in Nat \ {0} /\ MaxRuns \in Nat /\ idx \in Nat
  BY <1>1, WorkerAssumption DEF WorkerAssumption, ControlType
<1>3. ~Idle => mem \in States /\ run \in Runs
  BY <1>1, <1>2 DEF ControlType, ControlShape, Runs
<1>. QED  BY <1>1, <1>2, <1>3

LEMMA SameWorkers == WorkersType /\ UNCHANGED workerVars => WorkersType'
BY DEF WorkersType

\* A state of the pipeline is one with its stages replaced.
LEMMA StateFields ==
  ASSUME NEW p \in States
  PROVE  /\ p.id \in Runs /\ p.layout \in Layouts
         /\ p.stages \in [Stages -> Results]
         /\ \A i \in Stages : /\ p.stages[i].status \in Statuses
                              /\ p.stages[i].print \in Prints
                              /\ p.stages[i].evidence \in 0 .. MaxRuns
BY DEF States, Results

LEMMA InitialStateType ==
  ASSUME PipelineInv, runs < MaxRuns, NEW start, NEW resuming \in BOOLEAN,
         resuming => MayStartAt(start), ~resuming => start = 1
  PROVE  /\ InitialState(start) \in States
         /\ InitialState(start).id = runs + 1
         /\ InitialState(start).layout = config.layout
         /\ InitialState(start).stages =
              [i \in Stages |-> IF i < start THEN latest.stages[i] ELSE Fresh(i)]
<1>1. config \in Configs /\ runs + 1 \in Runs
  BY InvParts DEF FilesType, Runs
<1>2. \A i \in Stages : Fresh(i) \in Results
  BY <1>1, InvParts DEF Fresh, Configs, Results, Statuses
<1>3. \A i \in Stages : i < start => latest.stages[i] \in Results
  <2>1. CASE resuming
    <3>1. latest \in States
      BY <2>1, InvParts DEF MayStartAt, FilesType
    <3>. QED  BY <3>1 DEF States
  <2>2. CASE ~resuming
    BY <2>2, InvParts DEF Stages
  <2>. QED  BY <2>1, <2>2
<1>4. [i \in Stages |-> IF i < start THEN latest.stages[i] ELSE Fresh(i)]
        \in [Stages -> Results]
  BY <1>2, <1>3
<1>. QED  BY <1>1, <1>4 DEF InitialState, States, Configs

LEMMA StartKeeps ==
  ASSUME PipelineInv, NEW start, NEW resuming \in BOOLEAN, StartRun(start, resuming)
  PROVE  PipelineInv'
<1>. USE InvParts, RunsInNat
<1>. DEFINE p == InitialState(start)
<1>1. /\ mem' = p /\ runs' = runs + 1 /\ runs < MaxRuns /\ Idle
      /\ idx' = 1 /\ pc' = "archive" /\ next' = "stage"
      /\ cleared' = resuming /\ signal' = FALSE /\ errors' = FALSE /\ outcome' = 0
      /\ UNCHANGED <<workerVars, config, edits, fileVars, ghostVars>>
  BY DEF StartRun
<1>2. /\ p \in States /\ p # None /\ p.id = runs + 1
      /\ p.stages = [i \in Stages |-> IF i < start THEN latest.stages[i] ELSE Fresh(i)]
  BY <1>1, InitialStateType, NoneAssumption DEF StartRun, NoneAssumption
<1>3. ~resuming => \A i \in Stages : p.stages[i].status = "pending"
  BY <1>2 DEF StartRun, Stages, Fresh
<1>. HIDE DEF p
<1>4. TypeOK'
  <2>1. ControlType'
    <3>1. /\ cleared' \in BOOLEAN /\ signal' \in BOOLEAN /\ errors' \in BOOLEAN
          /\ killed' \in SUBSET Runs /\ edits' \in Nat
      BY <1>1 DEF ControlType
    <3>2. runs' \in 0 .. MaxRuns
      BY <1>1
    <3>. QED  BY <1>1, <1>2, <3>1, <3>2 DEF ControlType, Codes
  <2>2. WorkersType' /\ FilesType'
    BY <1>1, SameWorkers DEF FilesType
  <2>. QED  BY <2>1, <2>2 DEF TypeOK
<1>5. worker'[runs'] = NoWorker /\ runs' \in Runs
  BY <1>1, NoneTypes DEF WorkerShape, Runs
<1>6. WorkerShape'
  BY <1>1, NoneTypes DEF WorkerShape, Alive, Watched
<1>7. ControlShape' /\ ToldShape'
  BY <1>1, <1>2, <1>5 DEF ControlShape, ToldShape, Saving
<1>8. SpendShape'
  <2>1. sj <= Spend(runs) /\ Spend(runs) \in Nat /\ Spend(runs) <= Spend(runs + 1) /\ sj \in Nat
    BY SpendFacts, WorkerAssumption DEF WorkerAssumption, SpendShape, WorkersType
  <2>2. runs' - 1 = runs
    BY <1>1
  <2>3. sj' <= Spend(runs') /\ sj' <= Spend(runs' - 1)
    <3>1. Spend(runs') = Spend(runs + 1) /\ Spend(runs' - 1) = Spend(runs) /\ sj' = sj
      BY <1>1, <2>2, Zenon
    <3>2. Spend(runs + 1) = Spend(runs) + MaxLaunches /\ MaxLaunches \in Nat
      BY SpendFacts
    <3>. QED  BY <2>1, <3>1, <3>2
  <2>4. \A r \in Runs :
          /\ worker'[r].restarts <= Spend(r - 1) + worker'[r].launches
          /\ worker'[r].phase \in {"up", "spawned"} /\ worker'[r].launches > 0 =>
               worker'[r].restarts + 1 <= Spend(r - 1) + worker'[r].launches
    <3>1. worker' = worker
      BY <1>1
    <3>. QED  BY <3>1 DEF SpendShape
  <2>. QED  BY <2>3, <2>4 DEF SpendShape, Spend
<1>9. FreshShape'
  BY <1>1, <1>2, <1>3, <1>5, NoneTypes
  DEF FreshShape, Launching, Coming, Saving, Complete
<1>. QED  BY <1>4, <1>6, <1>7, <1>8, <1>9 DEF PipelineInv

\* Steps between two invocations, or none of the controller's.
LEMMA OutsideKeeps ==
  ASSUME PipelineInv, EditConfig \/ SendSignal
  PROVE  PipelineInv'
<1>. USE InvParts
<1>1. /\ UNCHANGED <<workerVars, fileVars, ghostVars, pc, next, mem, idx, cleared, outcome,
                     errors, runs>>
      /\ signal' \in BOOLEAN /\ edits' \in Nat
  <2>1. CASE EditConfig
    BY <2>1 DEF EditConfig, ControlType
  <2>2. CASE SendSignal
    BY <2>2 DEF SendSignal, ControlType
  <2>. QED  BY <2>1, <2>2
<1>2. config' \in Configs
  BY DEF EditConfig, SendSignal, FilesType, Configs
<1>3. TypeOK'
  <2>1. WorkersType' /\ FilesType'
    BY <1>1, <1>2, SameWorkers DEF FilesType
  <2>2. ControlType'
    BY <1>1 DEF ControlType
  <2>. QED  BY <2>1, <2>2 DEF TypeOK
<1>4. WorkerShape' /\ ControlShape' /\ ToldShape'
  BY <1>1 DEF WorkerShape, ControlShape, ToldShape, Alive, Watched, Saving
<1>5. SpendShape' /\ FreshShape'
  BY <1>1 DEF SpendShape, FreshShape, Launching, Coming, Saving, Complete, Spend
<1>. QED  BY <1>3, <1>4, <1>5 DEF PipelineInv

\* The controller forgets: at its end, or killed.
LEMMA ForgetsKeeps ==
  ASSUME PipelineInv, Finish \/ ControllerDies
  PROVE  PipelineInv'
<1>. USE InvParts, RunsInNat
<1>1. /\ Forgets /\ ~Idle /\ UNCHANGED <<kind, worker, sj, passed, runs, config, edits, fileVars>>
      /\ pc' = "idle" /\ mem' = None
      /\ killed' = killed \/ killed' = killed \cup {run}
      /\ Alive(run) => killed' = killed \cup {run}
  BY NoneTypes DEF Finish, ControllerDies, Forgets, ControlShape, Alive
<1>2. TypeOK'
  <2>1. WorkersType'
    BY <1>1, NoneTypes DEF Finish, ControllerDies, Forgets, WorkersType
  <2>2. FilesType'
    BY <1>1 DEF FilesType
  <2>3. ControlType'
    <3>1. /\ pc' = "idle" /\ next' = "stage" /\ mem' = None /\ idx' = 1 /\ outcome' = 0
          /\ cleared' \in BOOLEAN /\ signal' \in BOOLEAN /\ errors' \in BOOLEAN
          /\ killed' \in SUBSET Runs /\ runs' = runs /\ edits' = edits
      BY <1>1 DEF Forgets, ControlType
    <3>. QED  BY <3>1 DEF ControlType, Codes
  <2>. QED  BY <2>1, <2>2, <2>3 DEF TypeOK
<1>3. WorkerShape'
  BY <1>1 DEF WorkerShape, Alive, Watched
<1>4. ControlShape' /\ ToldShape'
  BY <1>1 DEF ControlShape, ToldShape, Saving
<1>5. ~Launching' /\ ~Coming'
  BY <1>1 DEF Launching, Coming, Saving
<1>6. SpendShape'
  BY <1>1, <1>5 DEF SpendShape, Spend
<1>7. FreshShape'
  BY <1>1, <1>5 DEF FreshShape
<1>. QED  BY <1>2, <1>3, <1>4, <1>6, <1>7 DEF PipelineInv

\* The controller works on its files while no worker of its own is there.
DeskStep ==
  /\ pc \in {"archive", "latest", "stage", "launch", "advance"}
  /\ UNCHANGED <<kind, worker, pipe, told, strays, faults, passed, config, edits>>
  /\ UNCHANGED <<runs, killed, cleared, signal>>
  /\ sj' = sj \/ sj' = 0
  /\ (Launching \/ Coming)' /\ idx' <= N =>
       sj' = 0 \/ (sj' = sj /\ idx <= N /\ (Launching \/ Coming))
  /\ mem' \in States /\ mem'.id = run

LEMMA DeskKeeps ==
  ASSUME PipelineInv, DeskStep, FilesType', ControlType',
         pc' \in {"archive", "latest", "stage", "launch", "outcome", "finish"},
         pc' \in {"launch", "outcome"} \/ (Saving' /\ next' = "launch") => idx' <= N,
         ~cleared => \A i \in Stages : mem'.stages[i].status = "complete" => i < idx',
         killed = {} /\ Launching' => sj' = 0,
         killed = {} /\ Coming' /\ ~cleared /\ idx' \in 2 .. N => sj' = 0
  PROVE  PipelineInv'
<1>. USE InvParts
<1>1. /\ worker' = worker /\ runs' = runs /\ killed' = killed /\ cleared' = cleared
      /\ ~Idle /\ pc' # "idle" /\ mem' # None
  BY NoneAssumption DEF DeskStep, NoneAssumption
<1>2. worker[run] = NoWorker
  BY DEF DeskStep, ControlShape
<1>3. sj \in Nat /\ sj' \in Nat /\ sj' <= sj
  BY WorkerAssumption DEF WorkerAssumption, WorkersType, DeskStep
<1>4. TypeOK'
  <2>1. sj' \in 0 .. MaxLaunches * MaxRuns
    BY WorkerAssumption DEF WorkerAssumption, WorkersType, DeskStep
  <2>2. WorkersType'
    BY <2>1 DEF WorkersType, DeskStep
  <2>. QED  BY <2>2 DEF TypeOK
<1>5. WorkerShape'
  BY <1>1 DEF WorkerShape, Alive, Watched
<1>6. ControlShape'
  BY <1>1, <1>2, NoneTypes DEF ControlShape, Alive, Saving, DeskStep
<1>7. ToldShape'
  BY DEF ToldShape
<1>8. SpendShape'
  <2>1. sj' <= Spend(runs)
    BY <1>3, SpendFacts DEF SpendShape
  <2>2. (Launching \/ Coming)' /\ idx' <= N => sj' <= Spend(runs - 1)
    <3>1. runs - 1 \in Nat /\ runs - 1 <= runs - 1
      BY <1>1 DEF ControlShape
    <3>2. Spend(runs - 1) \in Nat
      BY <3>1, SpendMonotone
    <3>. QED  BY <1>1, <1>3, <3>2 DEF DeskStep, SpendShape
  <2>. QED  BY <1>1, <2>1, <2>2 DEF SpendShape, Spend
<1>9. FreshShape'
  BY <1>1 DEF FreshShape, Complete
<1>. QED  BY <1>4, <1>5, <1>6, <1>7, <1>8, <1>9 DEF PipelineInv

LEMMA SavesKeep ==
  ASSUME PipelineInv, SaveArchive \/ SaveLatest
  PROVE  PipelineInv'
<1>. USE InvParts
<1>1. /\ Saving /\ ~Idle /\ UNCHANGED <<workerVars, config, edits, passed, journal, killed>>
      /\ UNCHANGED <<next, mem, idx, outcome, errors, cleared, signal, runs>>
      /\ pc' = "latest" \/ pc' = next
      /\ mem \in States /\ mem.id = run /\ mem # None
      /\ latest' \in {latest, mem} /\ archive' \in {archive, mem}
  BY DEF SaveArchive, SaveLatest, Control, Saving, ControlShape
<1>2. pc' \in {"latest", "stage", "launch", "finish"}
  BY <1>1 DEF ControlType
<1>3. FilesType' /\ ControlType'
  BY <1>1, <1>2 DEF FilesType, ControlType
<1>4. (Launching' => Launching) /\ (Coming' => Coming)
  BY <1>1, <1>2 DEF Launching, Coming, Saving
<1>5. DeskStep
  BY <1>1, <1>4 DEF DeskStep, Saving
<1>6. pc' \in {"launch", "outcome"} \/ (Saving' /\ next' = "launch") => idx' <= N
  BY <1>1, <1>2 DEF ControlShape, Saving
<1>7. ~cleared => \A i \in Stages : mem'.stages[i].status = "complete" => i < idx'
  BY <1>1 DEF FreshShape, Complete, Saving
<1>8. /\ killed = {} /\ Launching' => sj' = 0
      /\ killed = {} /\ Coming' /\ ~cleared /\ idx' \in 2 .. N => sj' = 0
  BY <1>1, <1>4 DEF FreshShape
<1>. QED  BY <1>2, <1>3, <1>5, <1>6, <1>7, <1>8, DeskKeeps

\* The state p with stage i begun by run e, or with another status.
Begun(p, i, e)      == [p EXCEPT !.stages[i].status = "running", !.stages[i].evidence = e]
Marked(p, i, status) == [p EXCEPT !.stages[i].status = status]

LEMMA BegunFields ==
  ASSUME NEW p \in States, NEW i \in Stages, NEW e \in 0 .. MaxRuns
  PROVE  LET q == Begun(p, i, e)
         IN /\ q \in States /\ q.id = p.id /\ q.layout = p.layout /\ q.status = p.status
            /\ q.stages[i].status = "running" /\ q.stages[i].print = p.stages[i].print
            /\ q.stages[i].evidence = e
            /\ \A j \in Stages : j # i => q.stages[j] = p.stages[j]
BY DEF Begun, States, Results, Statuses

LEMMA MarkedFields ==
  ASSUME NEW p \in States, NEW i \in Stages, NEW status \in Statuses
  PROVE  LET q == Marked(p, i, status)
         IN /\ q \in States /\ q.id = p.id /\ q.layout = p.layout /\ q.status = p.status
            /\ q.stages[i].status = status /\ q.stages[i].print = p.stages[i].print
            /\ q.stages[i].evidence = p.stages[i].evidence
            /\ \A j \in Stages : j # i => q.stages[j] = p.stages[j]
BY DEF Marked, States, Results

LEMMA ReusedKeeps ==
  ASSUME PipelineInv, StageReused
  PROVE  PipelineInv'
<1>. USE InvParts
<1>1. /\ pc = "stage" /\ pc' = "stage" /\ idx <= N /\ idx' = idx + 1 /\ ~Idle
      /\ Complete(mem, idx) /\ idx \in Stages
      /\ UNCHANGED <<workerVars, fileVars, passed, config, edits, killed>>
      /\ UNCHANGED <<next, mem, outcome, errors, cleared, signal, runs>>
      /\ mem \in States /\ mem.id = run
  BY DEF StageReused, Control, ControlShape, ControlType, Complete, Stages
<1>2. FilesType' /\ ControlType'
  BY <1>1 DEF FilesType, ControlType
<1>3. cleared
  BY <1>1 DEF FreshShape
<1>4. DeskStep
  BY <1>1 DEF DeskStep, Launching, Coming, Saving
<1>5. ~Launching'
  <2>1. worker[run] = NoWorker /\ worker' = worker
    BY <1>1 DEF ControlShape
  <2>. QED  BY <1>1, <2>1, NoneTypes DEF Launching, Saving
<1>. QED  BY <1>1, <1>2, <1>3, <1>4, <1>5, DeskKeeps DEF Saving

LEMMA BeginsKeeps ==
  ASSUME PipelineInv, StageBegins
  PROVE  PipelineInv'
<1>. USE InvParts
<1>. DEFINE q == Begun(mem, idx, run)
<1>1. /\ pc = "stage" /\ pc' = "archive" /\ next' = "launch" /\ idx <= N /\ ~Idle
      /\ idx \in Stages /\ mem' = q /\ sj' = IF ClearsBudget THEN 0 ELSE sj
      /\ UNCHANGED <<kind, worker, pipe, told, strays, faults, fileVars, passed, config, edits,
                     killed>>
      /\ UNCHANGED <<idx, outcome, errors, cleared, signal, runs>>
      /\ mem \in States /\ mem.id = run /\ run \in 0 .. MaxRuns
      /\ mem.stages[idx].status # "complete"
  BY DEF StageBegins, Control, ControlShape, ControlType, Stages, Begun
<1>2. /\ q \in States /\ q.id = mem.id /\ q.stages[idx].status = "running"
      /\ \A j \in Stages : j # idx => q.stages[j] = mem.stages[j]
  BY <1>1, BegunFields
<1>. HIDE DEF q
<1>3. FilesType' /\ ControlType'
  BY <1>1, <1>2 DEF FilesType, ControlType
<1>4. DeskStep
  BY <1>1, <1>2 DEF DeskStep, Launching, Coming, Saving
<1>5. ~cleared => \A i \in Stages : mem'.stages[i].status = "complete" => i < idx'
  BY <1>1, <1>2, NoneAssumption DEF FreshShape, Complete, NoneAssumption
<1>6. killed = {} => sj' = 0
  <2>1. CASE ClearsBudget
    BY <1>1, <2>1
  <2>2. CASE ~ClearsBudget
    <3>1. ~cleared /\ idx \in 2 .. N
      BY <1>1, <2>2 DEF ClearsBudget, Stages
    <3>2. sj' = sj /\ Coming
      BY <1>1, <2>2 DEF Coming
    <3>. QED  BY <3>1, <3>2 DEF FreshShape
  <2>. QED  BY <2>1, <2>2
<1>. QED  BY <1>1, <1>3, <1>4, <1>5, <1>6, DeskKeeps DEF Saving

LEMMA RefusedKeeps ==
  ASSUME PipelineInv, StageRefused
  PROVE  PipelineInv'
<1>. USE InvParts
<1>1. /\ pc = "launch" /\ pc' = "outcome" /\ idx <= N /\ ~Idle
      /\ UNCHANGED <<workerVars, fileVars, passed, config, edits, killed>>
      /\ UNCHANGED <<next, mem, idx, cleared, signal, runs>>
      /\ mem \in States /\ mem.id = run /\ mem # None
      /\ outcome' \in Codes /\ errors' \in BOOLEAN
  BY DEF StageRefused, Control, ControlShape, Codes
<1>2. FilesType' /\ ControlType'
  BY <1>1 DEF FilesType, ControlType
<1>3. ~Launching' /\ ~Coming'
  <2>1. worker[run] = NoWorker /\ worker' = worker
    BY <1>1 DEF ControlShape
  <2>. QED  BY <1>1, <2>1, NoneTypes DEF Launching, Coming, Saving
<1>4. DeskStep
  BY <1>1, <1>3 DEF DeskStep
<1>5. ~cleared => \A i \in Stages : mem'.stages[i].status = "complete" => i < idx'
  BY <1>1 DEF FreshShape, Complete
<1>. QED  BY <1>1, <1>2, <1>3, <1>4, <1>5, DeskKeeps DEF Saving

LEMMA DoneKeeps ==
  ASSUME PipelineInv, AllStagesDone
  PROVE  PipelineInv'
<1>. USE InvParts
<1>. DEFINE q == [mem EXCEPT !.status = "complete"]
<1>1. /\ pc = "stage" /\ pc' = "archive" /\ next' = "finish" /\ idx = N + 1 /\ ~Idle
      /\ UNCHANGED <<workerVars, fileVars, passed, config, edits, killed>>
      /\ UNCHANGED <<idx, outcome, errors, cleared, signal, runs>>
      /\ mem' = q /\ mem \in States /\ mem.id = run
  BY DEF AllStagesDone, Control, ControlShape
<1>2. q \in States /\ q.id = mem.id /\ q.stages = mem.stages
  BY <1>1 DEF States
<1>. HIDE DEF q
<1>3. FilesType' /\ ControlType'
  BY <1>1, <1>2 DEF FilesType, ControlType
<1>4. ~Launching' /\ ~Coming'
  <2>1. worker[run] = NoWorker /\ worker' = worker
    BY <1>1 DEF ControlShape
  <2>. QED  BY <1>1, <2>1, NoneTypes DEF Launching, Coming, Saving
<1>5. DeskStep
  BY <1>1, <1>2, <1>4 DEF DeskStep
<1>6. \A i \in Stages : i < idx'
  BY <1>1 DEF Stages
<1>. QED  BY <1>1, <1>3, <1>4, <1>5, <1>6, DeskKeeps DEF Saving

LEMMA AdvancesKeeps ==
  ASSUME PipelineInv, StageAdvances
  PROVE  PipelineInv'
<1>. USE InvParts
<1>1. /\ pc = "advance" /\ pc' = "archive" /\ next' = "stage" /\ idx <= N /\ ~Idle
      /\ idx' = idx + 1 /\ sj' = IF idx < N THEN 0 ELSE sj
      /\ UNCHANGED <<kind, worker, pipe, told, strays, faults, fileVars, passed, config, edits,
                     killed>>
      /\ UNCHANGED <<mem, outcome, errors, cleared, signal, runs>>
      /\ mem \in States /\ mem.id = run /\ mem # None
  BY DEF StageAdvances, Control, ControlShape
<1>2. FilesType' /\ ControlType'
  BY <1>1 DEF FilesType, ControlType
<1>3. ~Launching' /\ (idx' <= N => sj' = 0)
  <2>1. worker[run] = NoWorker /\ worker' = worker
    BY <1>1 DEF ControlShape
  <2>. QED  BY <1>1, <2>1, NoneTypes DEF Launching, Saving
<1>4. DeskStep
  BY <1>1, <1>3 DEF DeskStep
<1>5. ~cleared => \A i \in Stages : mem'.stages[i].status = "complete" => i < idx'
  BY <1>1 DEF FreshShape, Complete, Stages
<1>. QED  BY <1>1, <1>2, <1>3, <1>4, <1>5, DeskKeeps DEF Saving

\* The parent starts its worker, forces its end, or is done with it.
ParentStep(w) ==
  /\ w \in Workers /\ Becomes(run, w)
  /\ ~Idle /\ pc' # "idle"
  /\ UNCHANGED <<kind, sj, faults, runs, killed, cleared>>
  /\ pipe' \in Messages /\ told' \in Messages /\ strays' \in SUBSET (1 .. MaxLaunches)
  /\ w.phase = "none" => w = NoWorker
  /\ w.phase # "none" => w.stage \in Stages
  /\ \/ w.phase \in {"none", "boot"} /\ w.launches = 0 /\ w.restarts = 0
     \/ /\ w.phase \in {worker[run].phase, "gone"}
        /\ w.launches = worker[run].launches /\ w.restarts = worker[run].restarts

LEMMA ParentKeeps ==
  ASSUME PipelineInv, NEW w, ParentStep(w),
         FilesType', ControlType', ControlShape', ToldShape',
         (Launching \/ Coming)' => Launching' /\ ~Coming' /\ Launching /\ idx <= N,
         ~cleared => \A i \in Stages :
           Complete(mem, i)' => i < idx' \/ (i = idx' /\ pc' = "advance")
  PROVE  PipelineInv'
<1>. USE InvParts, RunsInNat
<1>1. /\ worker' \in [Runs -> Workers] /\ worker'[run] = w
      /\ \A s \in Runs : s # run => worker'[s] = worker[s]
      /\ run \in Runs /\ w \in Workers
  BY BecomesFacts DEF ParentStep
<1>2. /\ runs' = runs /\ killed' = killed /\ cleared' = cleared /\ sj' = sj
      /\ ~Idle /\ ~Idle'
  BY DEF ParentStep
<1>3. TypeOK'
  BY <1>1 DEF TypeOK, WorkersType, ParentStep
<1>4. WorkerShape'
  <2>. SUFFICES ASSUME NEW s \in Runs
       PROVE  /\ worker'[s].phase = "none" => worker'[s] = NoWorker
              /\ worker'[s].phase # "none" => s <= runs /\ worker'[s].stage \in Stages
              /\ worker'[s].phase = "spawning" => worker'[s].launches < MaxLaunches
              /\ worker'[s].phase = "spawned" => worker'[s].launches > 0
              /\ worker'[s].phase \notin {"none", "gone"} /\ s # runs => s \in killed
    BY <1>2 DEF WorkerShape, Alive, Watched
  <2>1. CASE s # run
    BY <1>1, <2>1 DEF WorkerShape, Alive, Watched
  <2>2. CASE s = run
    <3>1. /\ w.phase = "spawning" => w.launches < MaxLaunches
          /\ w.phase = "spawned" => w.launches > 0
      BY <1>1 DEF ParentStep, WorkerShape
    <3>. QED  BY <1>1, <2>2, <3>1 DEF ParentStep, WorkerShape
  <2>. QED  BY <2>1, <2>2
<1>5. SpendShape'
  <2>1. ASSUME NEW s \in Runs
        PROVE  /\ worker'[s].restarts <= Spend(s - 1) + worker'[s].launches
               /\ worker'[s].phase \in {"up", "spawned"} /\ worker'[s].launches > 0 =>
                    worker'[s].restarts + 1 <= Spend(s - 1) + worker'[s].launches
    <3>1. CASE s # run
      BY <1>1, <3>1 DEF SpendShape
    <3>2. CASE s = run
      <4>1. s - 1 \in Nat /\ Spend(s - 1) \in Nat
        BY SpendMonotone
      <4>2. CASE w.phase \in {"none", "boot"} /\ w.launches = 0 /\ w.restarts = 0
        BY <1>1, <3>2, <4>1, <4>2
      <4>3. CASE /\ w.phase \in {worker[run].phase, "gone"}
                 /\ w.launches = worker[run].launches /\ w.restarts = worker[run].restarts
        BY <1>1, <3>2, <4>3 DEF SpendShape
      <4>. QED  BY <4>2, <4>3 DEF ParentStep
    <3>. QED  BY <3>1, <3>2
  <2>2. (Launching \/ Coming)' => sj' <= Spend(runs' - 1)
    BY <1>2, Zenon DEF SpendShape
  <2>3. sj' <= Spend(runs')
    BY <1>2, Zenon DEF SpendShape
  <2>. QED  BY <2>1, <2>2, <2>3 DEF SpendShape, Spend
<1>6. FreshShape'
  <2>1. ASSUME killed = {}, NEW s \in Runs, worker'[s].phase = "up", worker'[s].launches = 0
        PROVE  worker'[s].restarts = 0
    BY <1>1, <2>1 DEF FreshShape, ParentStep
  <2>2. killed = {} /\ Launching' => sj' = 0
    BY <1>2 DEF FreshShape
  <2>3. ~(killed = {} /\ Coming' /\ ~cleared)
    OBVIOUS
  <2>. QED  BY <1>2, <2>1, <2>2, <2>3 DEF FreshShape
<1>. QED  BY <1>3, <1>4, <1>5, <1>6 DEF PipelineInv

\* What is left of a reading is a message.
LEMMA DrainedType ==
  ASSUME WorkersType, NEW keep \in Codes \cup {None}
  PROVE  /\ Drained(keep) \in Messages
         /\ keep # None => Drained(keep).result = keep
         /\ keep # None => Drained(keep).crash = told.crash
BY DEF WorkersType, Drained, Messages

LEMMA LaunchedKeeps ==
  ASSUME PipelineInv, StageLaunched
  PROVE  PipelineInv'
<1>. USE InvParts
<1>. DEFINE w == [NoWorker EXCEPT !.phase = "boot", !.stage = idx]
<1>1. /\ pc = "launch" /\ pc' = "watch" /\ idx <= N /\ ~Idle /\ idx \in Stages
      /\ Becomes(run, w) /\ pipe' = NoMessage /\ told' = NoMessage /\ strays' = {}
      /\ UNCHANGED <<kind, sj, faults, fileVars, passed, config, edits, killed>>
      /\ UNCHANGED <<next, mem, idx, outcome, errors, cleared, signal, runs>>
      /\ mem # None
  BY DEF StageLaunched, StartWorker, Control, ControlShape, ControlType, Stages
<1>2. /\ w \in Workers /\ w.phase = "boot" /\ w.stage = idx /\ w.launches = 0
      /\ w.restarts = 0 /\ w.termed = FALSE
  <2>1. N \in Nat /\ MaxLaunches \in Nat /\ MaxLaunches * MaxRuns \in Nat
    BY WorkerAssumption DEF WorkerAssumption
  <2>. DEFINE u == [NoWorker EXCEPT !.phase = "boot"]
  <2>2. /\ u \in Workers /\ u.phase = "boot" /\ u.launches = 0 /\ u.restarts = 0
        /\ u.termed = FALSE
    <3>1. NoWorker.termed = FALSE
      BY DEF NoWorker
    <3>. QED  BY <3>1, NoneTypes DEF Workers
  <2>3. w = [u EXCEPT !.stage = idx]
    OBVIOUS
  <2>4. idx \in 0 .. N
    BY <1>1 DEF Stages
  <2>. HIDE DEF u, w
  <2>. QED  BY <2>2, <2>3, <2>4 DEF Workers
<1>. HIDE DEF w
<1>3. worker'[run] = w
  BY <1>1, <1>2, BecomesFacts
<1>4. FilesType' /\ ControlType'
  BY <1>1 DEF FilesType, ControlType
<1>5. ControlShape' /\ ToldShape'
  <2>1. ControlShape'
    BY <1>1, <1>2, <1>3 DEF ControlShape, Saving
  <2>2. ToldShape'
    BY <1>1, <1>2, <1>3, NoneTypes, WorkerAssumption
    DEF WorkerAssumption, ToldShape
  <2>. QED  BY <2>1, <2>2
<1>6. ParentStep(w)
  BY <1>1, <1>2, NoneTypes DEF ParentStep
<1>7. (Launching \/ Coming)' => Launching' /\ ~Coming' /\ Launching /\ idx <= N
  BY <1>1 DEF Launching, Coming, Saving
<1>8. ~cleared => \A i \in Stages :
        Complete(mem, i)' => i < idx' \/ (i = idx' /\ pc' = "advance")
  BY <1>1 DEF FreshShape, Complete
<1>. QED  BY <1>4, <1>5, <1>6, <1>7, <1>8, ParentKeeps

\* The parent ends the watch, with what it has read.
WatchStep(w) ==
  /\ pc \in {"watch", "grace"} /\ pc' \in {"grace", "outcome"}
  /\ Becomes(run, w) /\ w \in Workers /\ w.phase \in {worker[run].phase, "gone"}
  /\ w.phase # "boot" /\ w.stage = worker[run].stage
  /\ w.launches = worker[run].launches /\ w.restarts = worker[run].restarts
  /\ pipe' = NoMessage /\ told' \in Messages /\ strays' \in SUBSET (1 .. MaxLaunches)
  /\ UNCHANGED <<kind, sj, faults, fileVars, passed, config, edits, killed>>
  /\ UNCHANGED <<next, mem, idx, cleared, signal, runs>>
  /\ outcome' \in Codes /\ errors' \in BOOLEAN
  /\ pc' = "grace" => told'.result # None /\ (told'.crash \/ told'.result \in {124, 143})
  /\ pc' = "outcome" => w.phase \in {"none", "gone"}

LEMMA WatchKeeps ==
  ASSUME PipelineInv, NEW w, WatchStep(w)
  PROVE  PipelineInv'
<1>. USE InvParts DEF WatchStep
<1>1. /\ idx <= N /\ ~Idle /\ idx \in Stages /\ w.phase # "none" /\ w.stage = idx /\ mem # None
      /\ run \in Runs
  BY DEF ControlShape, ControlType, Stages
<1>2. worker'[run] = w
  BY <1>1, BecomesFacts
<1>3. FilesType' /\ ControlType'
  <2>1. FilesType'
    BY DEF FilesType
  <2>2. ControlType'
    BY DEF ControlType
  <2>. QED  BY <2>1, <2>2
<1>4. ControlShape'
  BY <1>1, <1>2 DEF ControlShape, Saving, Alive
<1>5. ToldShape'
  BY DEF ToldShape
<1>6. ParentStep(w)
  BY <1>1, NoneTypes DEF ParentStep
<1>7. ~(Launching \/ Coming)'
  BY <1>2 DEF Launching, Coming, Saving
<1>8. ~cleared => \A i \in Stages :
        Complete(mem, i)' => i < idx' \/ (i = idx' /\ pc' = "advance")
  BY <1>1 DEF FreshShape, Complete
<1>. QED  BY <1>3, <1>4, <1>5, <1>6, <1>7, <1>8, ParentKeeps

LEMMA ForcedKeeps ==
  ASSUME PipelineInv, StageSignal \/ StageDeadline
  PROVE  PipelineInv'
<1>. USE InvParts
<1>1. PICK code \in {124, 143} : ForceEnd(run, code)
  BY DEF StageSignal, StageDeadline, WatchSignal, WatchDeadline
<1>2. /\ pc = "watch" /\ pc' = "grace" /\ ~Idle /\ run \in Runs
      /\ UNCHANGED <<fileVars, passed, config, edits, killed>>
      /\ UNCHANGED <<next, mem, idx, outcome, errors, cleared, signal, runs>>
      /\ outcome' \in Codes /\ errors' \in BOOLEAN
  BY DEF StageSignal, StageDeadline, Watching, Control, ControlType
<1>3. /\ Alive(run) /\ told' = Drained(code) /\ pipe' = NoMessage
      /\ UNCHANGED <<kind, strays, sj, faults>>
  BY <1>1 DEF ForceEnd
<1>4. told' \in Messages /\ told'.result = code /\ told'.result # None
  <2>1. code \in Codes /\ code # None /\ code \in Codes \cup {None}
    BY WorkerAssumption DEF WorkerAssumption, Codes
  <2>. QED  BY <1>3, <2>1, DrainedType
<1>5. PICK hit \in BOOLEAN :
        Becomes(run,
          IF worker[run].phase = "boot"
            THEN [worker[run] EXCEPT !.phase = "gone", !.termed = TRUE]
            ELSE [worker[run] EXCEPT !.termed = TRUE, !.child = IF hit THEN 0 ELSE @])
  BY <1>1 DEF ForceEnd
<1>. DEFINE u == [worker[run] EXCEPT !.termed = TRUE]
            v == [u EXCEPT !.phase = "gone"]
            x == [u EXCEPT !.child = IF hit THEN 0 ELSE worker[run].child]
            w == IF worker[run].phase = "boot" THEN v ELSE x
<1>6. Becomes(run, w)
  <2>1. /\ v = [worker[run] EXCEPT !.phase = "gone", !.termed = TRUE]
        /\ x = [worker[run] EXCEPT !.termed = TRUE, !.child = IF hit THEN 0 ELSE @]
    BY <1>2, WorkerFields DEF Workers
  <2>. QED  BY <1>5, <2>1
<1>7. /\ u \in Workers /\ u.phase = worker[run].phase /\ u.stage = worker[run].stage
      /\ u.launches = worker[run].launches /\ u.restarts = worker[run].restarts
  <2>1. worker[run] \in Workers
    BY <1>2, WorkerFields
  <2>. QED  BY <2>1 DEF Workers
<1>8. (IF hit THEN 0 ELSE worker[run].child) \in 0 .. MaxLaunches
  BY <1>2, WorkerFields, WorkerAssumption DEF WorkerAssumption
<1>. HIDE DEF u
<1>9. /\ v \in Workers /\ v.phase = "gone" /\ v.stage = u.stage
      /\ v.launches = u.launches /\ v.restarts = u.restarts
  BY <1>7 DEF Workers
<1>10. /\ x \in Workers /\ x.phase = u.phase /\ x.stage = u.stage
       /\ x.launches = u.launches /\ x.restarts = u.restarts
  BY <1>7, <1>8 DEF Workers
<1>. HIDE DEF v, x
<1>11. WatchStep(w)
  <2>1. strays' \in SUBSET (1 .. MaxLaunches)
    BY <1>3 DEF WorkersType
  <2>. QED  BY <1>2, <1>3, <1>4, <1>6, <1>7, <1>9, <1>10, <2>1 DEF WatchStep
<1>. QED  BY <1>11, WatchKeeps

LEMMA EndedKeeps ==
  ASSUME PipelineInv, StageWorkerFails \/ StageWorkerEnds
  PROVE  PipelineInv'
<1>. USE InvParts
<1>1. /\ pc = "watch" /\ ~Idle /\ run \in Runs /\ WatchEnds(run)
      /\ UNCHANGED <<fileVars, passed, config, edits, killed>>
      /\ UNCHANGED <<next, mem, idx, cleared, signal, runs>>
      /\ \/ pc' = "grace" /\ told'.crash /\ outcome' = outcome /\ errors' = errors
         \/ pc' = "outcome" /\ outcome' = told'.result /\ errors' = FALSE
  <2>1. CASE StageWorkerFails
    BY <2>1 DEF StageWorkerFails, Watching, Control
  <2>2. CASE StageWorkerEnds
    BY <2>2 DEF StageWorkerEnds, Control
  <2>. QED  BY <2>1, <2>2
<1>2. /\ ~Alive(run) /\ pipe' = NoMessage /\ UNCHANGED <<kind, worker, strays, sj, faults>>
      /\ told' = IF Drained(None).result = None
                   THEN [Drained(None) EXCEPT !.result = 1, !.crash = TRUE]
                   ELSE Drained(None)
  BY <1>1 DEF WatchEnds
<1>3. told' \in Messages /\ told'.result # None /\ told'.result \in Codes
  <2>1. Drained(None) \in Messages
    BY DrainedType
  <2>2. 1 # None
    BY WorkerAssumption DEF WorkerAssumption
  <2>. QED  BY <1>2, <2>1, <2>2 DEF Messages, Codes
<1>4. Becomes(run, worker[run]) /\ worker[run] \in Workers
  BY <1>1, <1>2 DEF Becomes, WorkersType
<1>5. worker[run].phase \in {"none", "gone"}
  BY <1>2 DEF Alive
<1>6. /\ strays' \in SUBSET (1 .. MaxLaunches)
      /\ outcome' \in Codes /\ errors' \in BOOLEAN
  <2>1. strays' \in SUBSET (1 .. MaxLaunches)
    BY <1>2 DEF WorkersType
  <2>2. CASE outcome' = outcome /\ errors' = errors
    BY <2>1, <2>2 DEF ControlType
  <2>3. CASE outcome' = told'.result /\ errors' = FALSE
    BY <1>3, <2>1, <2>3
  <2>. QED  BY <1>1, <2>2, <2>3
<1>7. WatchStep(worker[run])
  BY <1>1, <1>2, <1>3, <1>4, <1>5, <1>6 DEF WatchStep
<1>. QED  BY <1>7, WatchKeeps

LEMMA ReapedKeeps ==
  ASSUME PipelineInv, StageReaped
  PROVE  PipelineInv'
<1>. USE InvParts
<1>. DEFINE w == [worker[run] EXCEPT !.phase = "gone", !.child = 0]
<1>1. /\ pc = "grace" /\ pc' = "outcome" /\ ~Idle /\ run \in Runs
      /\ UNCHANGED <<fileVars, passed, config, edits, killed>>
      /\ UNCHANGED <<next, mem, idx, cleared, signal, runs>>
      /\ outcome' = told'.result /\ errors' \in BOOLEAN
      /\ UNCHANGED <<kind, sj, faults>> /\ Becomes(run, w)
      /\ pipe' = NoMessage /\ told' = Drained(told.result)
      /\ strays' \subseteq strays \cup Orphan(run)
  BY DEF StageReaped, Control, Reap
<1>2. told.result # None /\ told.result \in Codes \cup {None}
  BY <1>1 DEF ToldShape, WorkersType, Messages
<1>3. told' \in Messages /\ told'.result = told.result /\ outcome' \in Codes
  BY <1>1, <1>2, DrainedType
<1>4. /\ w \in Workers /\ w.phase = "gone" /\ w.stage = worker[run].stage
      /\ w.launches = worker[run].launches /\ w.restarts = worker[run].restarts
  BY <1>1, EndedRecord
<1>. HIDE DEF w
<1>5. strays' \in SUBSET (1 .. MaxLaunches)
  BY <1>1, WorkerFacts
<1>6. WatchStep(w)
  BY <1>1, <1>3, <1>4, <1>5 DEF WatchStep
<1>. QED  BY <1>6, WatchKeeps

\* The state once the stage it is at has failed.
Failed(p, i) ==
  [p EXCEPT !.status = "failed",
     !.stages = [j \in Stages |->
        IF j = i THEN [@[j] EXCEPT !.status = "failed"]
        ELSE IF j > i THEN [@[j] EXCEPT !.status = "skipped"]
        ELSE @[j]]]

LEMMA FailedFields ==
  ASSUME NEW p \in States, NEW i \in Stages
  PROVE  LET q == Failed(p, i)
         IN /\ q \in States /\ q.id = p.id /\ q.layout = p.layout
            /\ \A j \in Stages : /\ q.stages[j].print = p.stages[j].print
                                 /\ q.stages[j].evidence = p.stages[j].evidence
                                 /\ j < i => q.stages[j] = p.stages[j]
                                 /\ j >= i => q.stages[j].status \in {"failed", "skipped"}
<1>. DEFINE S == [j \in Stages |->
                    IF j = i THEN [p.stages[j] EXCEPT !.status = "failed"]
                    ELSE IF j > i THEN [p.stages[j] EXCEPT !.status = "skipped"]
                    ELSE p.stages[j]]
            q == Failed(p, i)
<1>1. \A j \in Stages : p.stages[j] \in Results
  BY DEF States
<1>2. \A j \in Stages :
        /\ S[j] \in Results /\ S[j].print = p.stages[j].print
        /\ S[j].evidence = p.stages[j].evidence
        /\ j < i => S[j] = p.stages[j]
        /\ j >= i => S[j].status \in {"failed", "skipped"}
  BY <1>1 DEF Results, Statuses, Stages
<1>3. S \in [Stages -> Results]
  BY <1>2
<1>4. q = [p EXCEPT !.status = "failed", !.stages = S]
  BY DEF Failed
<1>. HIDE DEF S, q
<1>5. q \in States /\ q.id = p.id /\ q.layout = p.layout /\ q.stages = S
  <2>. DEFINE o == [p EXCEPT !.status = "failed"]
  <2>1. o \in States /\ o.id = p.id /\ o.layout = p.layout
    BY DEF States
  <2>2. q = [o EXCEPT !.stages = S]
    BY <1>4
  <2>. HIDE DEF o
  <2>. QED  BY <1>3, <2>1, <2>2 DEF States
<1>. QED  BY <1>2, <1>5 DEF q

LEMMA EndsKeeps ==
  ASSUME PipelineInv, StageEnds
  PROVE  PipelineInv'
<1>. USE InvParts
<1>1. /\ pc = "outcome" /\ ~Idle /\ idx <= N /\ idx \in Stages /\ run \in Runs
      /\ ~Alive(run) /\ Forget(run) /\ outcome' = 0 /\ errors' = FALSE
      /\ UNCHANGED <<latest, archive, passed, config, edits, killed>>
      /\ UNCHANGED <<idx, cleared, signal, runs>>
      /\ mem \in States /\ mem.id = run
  BY DEF StageEnds, Control, ControlShape, ControlType, Stages
<1>2. Becomes(run, NoWorker) /\ worker'[run] = NoWorker
  BY <1>1, NoneTypes, BecomesFacts DEF Forget
<1>3. /\ pc' = "advance" \/ (pc' = "archive" /\ next' = "finish")
      /\ next' \in {"stage", "launch", "finish"}
      /\ journal' \in SUBSET Events
      /\ mem' \in States /\ mem'.id = mem.id
      /\ \A i \in Stages : mem'.stages[i].status = "complete" =>
           \/ mem.stages[i].status = "complete" /\ i # idx
           \/ i = idx /\ pc' = "advance"
  <2>1. CASE outcome = 0
    <3>1. /\ mem' = Marked(mem, idx, "complete") /\ pc' = "advance" /\ next' = next
          /\ journal' = journal \cup {[run |-> run, stage |-> idx]}
      BY <2>1 DEF StageEnds, Log, Control, Marked
    <3>2. "complete" \in Statuses
      BY DEF Statuses
    <3>3. /\ mem' \in States /\ mem'.id = mem.id
          /\ \A i \in Stages : i # idx => mem'.stages[i] = mem.stages[i]
      BY <1>1, <3>1, <3>2, MarkedFields
    <3>4. journal' \in SUBSET Events /\ next' \in {"stage", "launch", "finish"}
      BY <1>1, <3>1 DEF FilesType, ControlType, Events
    <3>. QED  BY <3>1, <3>3, <3>4
  <2>2. CASE outcome # 0
    <3>1. /\ mem' = Failed(mem, idx) /\ pc' = "archive" /\ next' = "finish"
          /\ journal' = journal
      BY <2>2 DEF StageEnds, Control, Failed
    <3>2. /\ mem' \in States /\ mem'.id = mem.id
          /\ \A i \in Stages : /\ i < idx => mem'.stages[i] = mem.stages[i]
                               /\ i >= idx => mem'.stages[i].status \in {"failed", "skipped"}
      BY <1>1, <3>1, FailedFields
    <3>. QED  BY <1>1, <3>1, <3>2 DEF FilesType, Stages
  <2>. QED  BY <2>1, <2>2
<1>4. FilesType' /\ ControlType'
  <2>1. FilesType'
    BY <1>1, <1>3 DEF FilesType
  <2>2. ControlType'
    BY <1>1, <1>3 DEF ControlType, Codes
  <2>. QED  BY <2>1, <2>2
<1>5. mem' # None
  BY <1>3, NoneAssumption DEF NoneAssumption
<1>6. ControlShape' /\ ToldShape'
  BY <1>1, <1>2, <1>3, <1>5 DEF ControlShape, ToldShape, Saving
<1>7. ParentStep(NoWorker)
  BY <1>1, <1>2, <1>3, NoneTypes DEF ParentStep, Forget
<1>8. ~(Launching \/ Coming)'
  BY <1>1, <1>2, <1>3, NoneTypes DEF Launching, Coming, Saving
<1>9. ~cleared => \A i \in Stages :
        Complete(mem, i)' => i < idx' \/ (i = idx' /\ pc' = "advance")
  BY <1>1, <1>3, NoneAssumption DEF FreshShape, Complete, NoneAssumption
<1>. QED  BY <1>4, <1>6, <1>7, <1>8, <1>9, ParentKeeps

-----------------------------------------------------------------------------
(* The theorems *)

LEMMA StutterKeeps == PipelineInv /\ UNCHANGED vars => PipelineInv'
<1>. SUFFICES ASSUME PipelineInv, UNCHANGED vars PROVE PipelineInv'
  OBVIOUS
<1>1. TypeOK'
  <2>1. WorkersType' /\ FilesType'
    BY SameWorkers, InvParts DEF FilesType
  <2>2. ControlType'
    BY InvParts DEF ControlType
  <2>. QED  BY <2>1, <2>2 DEF TypeOK
<1>2. WorkerShape' /\ ControlShape' /\ ToldShape'
  BY InvParts DEF WorkerShape, ControlShape, ToldShape, Alive, Watched, Saving
<1>3. SpendShape' /\ FreshShape'
  BY InvParts DEF SpendShape, FreshShape, Launching, Coming, Saving, Complete, Spend
<1>. QED  BY <1>1, <1>2, <1>3 DEF PipelineInv

LEMMA PipelineStep == PipelineInv /\ [Next]_vars => PipelineInv'
<1>. SUFFICES ASSUME PipelineInv, [Next]_vars PROVE PipelineInv'
  OBVIOUS
<1>1. CASE RunFresh \/ RunFromStage \/ RunResume
  BY <1>1, StartKeeps DEF RunFresh, RunFromStage, RunResume
<1>2. CASE EditConfig \/ SendSignal
  BY <1>2, OutsideKeeps
<1>3. CASE ControllerDies
  BY <1>3, ForgetsKeeps
<1>4. CASE Controller
  BY <1>4, SavesKeep, ReusedKeeps, BeginsKeeps, RefusedKeeps, LaunchedKeeps, ForcedKeeps,
     EndedKeeps, ReapedKeeps, EndsKeeps, AdvancesKeeps, DoneKeeps, ForgetsKeeps
  DEF Controller
<1>5. CASE \E r \in Runs :
             WorkerStep(r) /\ UNCHANGED <<config, edits, fileVars, controlVars, killed>>
  BY <1>5, WorkerKeeps
<1>6. CASE UNCHANGED vars
  BY <1>6, StutterKeeps
<1>. QED  BY <1>1, <1>2, <1>3, <1>4, <1>5, <1>6 DEF Next

\* The controller and its workers agree on where the stage is, what the pipe says and
\* what state.json counts, at every step of either (run_stage, _worker).
THEOREM PipelineInvariant == Spec => []PipelineInv
<1>. QED  BY PipelineInit, PipelineStep, PTL DEF Spec

\* The variables hold what pipeline.json, state.json, the journal and the pipe of a
\* worker may hold; the counter of restarts in state.json never passes what the
\* invocations so far may have launched.
THEOREM PipelineTypes == Spec => []TypeOK
<1>1. PipelineInv => TypeOK
  BY DEF PipelineInv
<1>. QED  BY <1>1, PipelineInvariant, PTL

\* Two monitors supervise stages of one project at a time only when a controller was
\* killed.
THEOREM OneWorkerAtATime == Spec => []OneWorkerUnlessKilled
<1>1. PipelineInv => OneWorkerUnlessKilled
  <2>. SUFFICES ASSUME PipelineInv, NEW r \in Runs, NEW s \in Runs, r < s, Alive(r), Alive(s)
       PROVE  r \in killed
    BY DEF OneWorkerUnlessKilled
  <2>1. s <= runs /\ runs \in Nat
    BY InvParts DEF WorkerShape, Alive
  <2>2. ~Watched(r)
    BY <2>1, RunsInNat DEF Watched
  <2>. QED  BY <2>2, InvParts DEF WorkerShape
<1>. QED  BY <1>1, PipelineInvariant, PTL

\* A stage's monitor begins with a budget nobody has spent, unless a controller was
\* killed: record_reset between stages and the reset of a resumed run reach it.
THEOREM BudgetIsFresh == Spec => []FreshBudget
<1>1. PipelineInv => FreshBudget
  BY DEF PipelineInv, FreshShape, FreshBudget
<1>. QED  BY <1>1, PipelineInvariant, PTL

\* How the controller comes to the outcome of a stage, and what may happen there.
LEMMA OutcomeReached ==
  ASSUME PipelineInv, [Next]_vars, pc' = "outcome"
  PROVE  \/ /\ pc = "outcome" /\ worker'[run] = worker[run]
            /\ UNCHANGED <<kind, told, strays, outcome, errors, idx, runs>>
         \/ StageRefused \/ StageWorkerEnds \/ StageReaped
<1>. USE InvParts
<1>1. CASE Controller
  <2>1. ~SaveLatest
    BY DEF SaveLatest, Control, ControlType
  <2>. QED  BY <1>1, <2>1
    DEF Controller, SaveArchive, StageReused, StageBegins, StageLaunched, StageSignal,
        StageDeadline, StageWorkerFails, StageEnds, StageAdvances, AllStagesDone, Finish,
        Forgets, Watching, Control
<1>2. CASE \E r \in Runs :
             WorkerStep(r) /\ UNCHANGED <<config, edits, fileVars, controlVars, killed>>
  <2>1. PICK r \in Runs : WorkerStep(r) /\ UNCHANGED <<controlVars, killed>>
    BY <1>2
  <2>2. PICK w \in Workers : WorkerMoves(r, w) /\ WorkerSays(r, w)
    BY <2>1, WorkerFramed DEF WorkerFrame
  <2>3. pc = "outcome" /\ ~Alive(run) /\ Alive(r) /\ r # run
    BY <2>1, <2>2 DEF ControlShape, WorkerMoves
  <2>4. run \in Runs /\ worker'[run] = worker[run]
    BY <2>2, <2>3, BecomesFacts DEF WorkerMoves
  <2>. QED  BY <2>1, <2>2, <2>3, <2>4 DEF WorkerSays, Watched
<1>3. CASE UNCHANGED vars
  BY <1>3
<1>4. ~RunFresh /\ ~RunFromStage /\ ~RunResume /\ ~EditConfig /\ ~SendSignal /\ ~ControllerDies
  BY DEF RunFresh, RunFromStage, RunResume, StartRun, EditConfig, SendSignal, ControllerDies,
         Forgets
<1>. QED  BY <1>1, <1>2, <1>3, <1>4 DEF Next

\* What is killed in the end is what the parent was told of.
LEMMA ReapedLeavesNothing ==
  ASSUME PipelineInv, StageReaped
  PROVE  NothingLeftBehind'
<1>. USE InvParts
<1>1. PICK fails \in BOOLEAN : Reap(run, fails) /\ errors' = fails
  BY DEF StageReaped
<1>. DEFINE d    == Drained(told.result)
            left == strays \cup Orphan(run)
            hit  == {s \in left : d.child # 0 /\ SameResource(s, d.child)}
<1>2. /\ pc = "grace" /\ ~Idle /\ run \in Runs /\ runs' = runs /\ kind' = kind
      /\ outcome' = told'.result /\ told' = d
      /\ strays' = IF fails THEN left ELSE left \ hit
      /\ Becomes(run, [worker[run] EXCEPT !.phase = "gone", !.child = 0])
  BY <1>1 DEF StageReaped, Control, Reap
<1>3. left \in SUBSET (1 .. MaxLaunches) /\ MaxLaunches \in Nat
  BY <1>2, WorkerFacts
<1>4. told.result # None /\ told.result \in Codes \cup {None}
      /\ (told.crash \/ told.result \in {124, 143})
  BY <1>2 DEF ToldShape, WorkersType, Messages
<1>5. d \in Messages /\ d.result = told.result /\ d.crash = told.crash
  BY <1>4, DrainedType
<1>. HIDE DEF d, hit, left
<1>6. Forced'
  BY <1>2, <1>4, <1>5 DEF Forced
<1>7. ~Alive(run)'
  BY <1>2, EndedRecord, BecomesFacts DEF Alive
<1>8. ASSUME ~errors', NEW s \in strays'
      PROVE  ~SameResource(s, told.child)'
  <2>1. s \in left /\ s \notin hit /\ s > 0
    BY <1>1, <1>2, <1>3, <1>8
  <2>2. ~(d.child # 0 /\ SameResource(s, d.child))
    BY <2>1 DEF hit
  <2>3. d.child = 0 => ~SameResource(s, d.child)
    BY <1>3, <2>1 DEF SameResource
  <2>4. ~SameResource(s, d.child)
    BY <2>2, <2>3
  <2>. QED  BY <1>2, <2>4 DEF SameResource
<1>. QED  BY <1>6, <1>7, <1>8 DEF NothingLeftBehind

\* A local workload is gone with the monitor that ended by itself.
LEMMA EndedLeavesNothing ==
  ASSUME PipelineInv, StageWorkerEnds
  PROVE  NothingLeftBehind'
<1>. USE InvParts
<1>. DEFINE d == Drained(None)
<1>1. /\ pc = "watch" /\ ~Alive(run) /\ UNCHANGED <<kind, strays, worker, runs>>
      /\ told' = (IF d.result = None THEN [d EXCEPT !.result = 1, !.crash = TRUE] ELSE d)
      /\ ~told'.crash /\ outcome' = told'.result
  BY DEF StageWorkerEnds, WatchEnds, Control
<1>2. d \in Messages
  BY DrainedType
<1>3. told = NoMessage /\ pipe.result \notin {124, 143} /\ pipe \in Messages
  BY <1>1 DEF ToldShape, WorkersType
<1>4. /\ d.result = pipe.result
      /\ d.crash <=> pipe.crash
  BY <1>3, NoneTypes DEF Drained, Messages
<1>. HIDE DEF d
<1>5. d.result # None /\ told' = d
  BY <1>1, <1>2 DEF Messages
<1>6. ~Forced'
  BY <1>1, <1>3, <1>4, <1>5 DEF Forced
<1>7. kind = "local" => strays = {}
  BY <1>1, <1>4, <1>5 DEF ToldShape
<1>. QED  BY <1>1, <1>6, <1>7 DEF NothingLeftBehind

\* A stage leaves no workload behind: forced to its end, its monitor is gone and what
\* the monitor had told of is dead, or a failed cleanup is on record; a local one that
\* ended by itself has taken its workload with it.
THEOREM StageLeavesNothing == Spec => []NothingLeftBehind
<1>1. Init => NothingLeftBehind
  BY DEF Init, NothingLeftBehind
<1>2. NothingLeftBehind /\ PipelineInv /\ [Next]_vars => NothingLeftBehind'
  <2>. SUFFICES ASSUME NothingLeftBehind, PipelineInv, [Next]_vars, pc' = "outcome"
       PROVE  NothingLeftBehind'
    BY DEF NothingLeftBehind
  <2>1. CASE /\ pc = "outcome" /\ worker'[run] = worker[run]
             /\ UNCHANGED <<kind, told, strays, outcome, errors, idx, runs>>
    BY <2>1 DEF NothingLeftBehind, Forced, Alive, SameResource
  <2>2. CASE StageRefused
    <3>1. worker'[run'] = NoWorker /\ idx' = idx /\ idx # 0
      BY <2>2, InvParts DEF StageRefused, Control, ControlShape, ControlType
    <3>. QED  BY <3>1, NoneTypes DEF NothingLeftBehind
  <2>. QED  BY <2>1, <2>2, OutcomeReached, EndedLeavesNothing, ReapedLeavesNothing
<1>. QED  BY <1>1, <1>2, PipelineInvariant, PTL DEF Spec

=============================================================================
