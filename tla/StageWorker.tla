---------------------------- MODULE StageWorker ----------------------------
(***************************************************************************)
(* One stage of a pipeline (src/autosentry/stage_worker.py): a worker      *)
(* process that runs a Monitor over the stage's workload, and the parent   *)
(* that watches it, over a pipe, with a deadline and an ear for signals.   *)
(*                                                                         *)
(* Each invocation of the pipeline (a run) has at most one worker at a     *)
(* time, so workers are indexed by the run.  A worker whose parent was     *)
(* killed lives on.  The monitor inside is reduced to what the parent and  *)
(* state.json see of it: it launches its workload, tells who it is,        *)
(* launches it again, saves its copy of the state, ends.                   *)
(***************************************************************************)
EXTENDS Integers, FiniteSets

CONSTANTS
  N,            \* number of stages
  MaxRuns,      \* bound on invocations of the pipeline
  MaxLaunches,  \* bound on the launches of one stage's workload
  MaxFaults,    \* bound on the faults of the world: kills, crashes
  Kinds,        \* process.kind a run of the model may be configured with
  HasDeadline,  \* max_stage_seconds is set
  None

ASSUME WorkerAssumption ==
  /\ N \in Nat \ {0} /\ MaxRuns \in Nat \ {0}
  /\ MaxLaunches \in Nat \ {0} /\ MaxFaults \in Nat
  /\ Kinds \subseteq {"local", "docker", "slurm"}
  /\ HasDeadline \in BOOLEAN
  /\ None \notin Int

Stages == 1 .. N
Runs   == 1 .. MaxRuns
Codes  == {0, 1, 124, 126, 143}

\* `child` is the number of the launch that is alive under the monitor, 0 for
\* none; `restarts` is the monitor's own copy of the counter.
Workers  == [phase : {"none", "boot", "up", "spawning", "spawned", "exiting", "gone"},
             stage : 0 .. N, child : 0 .. MaxLaunches, launches : 0 .. MaxLaunches,
             restarts : 0 .. MaxLaunches * MaxRuns, termed : BOOLEAN]
Messages == [child : 0 .. MaxLaunches, result : Codes \cup {None}, crash : BOOLEAN]

VARIABLES
  kind,      \* process.kind
  worker,    \* the worker of each run
  pipe,      \* what the worker of the current run has sent and is not drained
  told,      \* what drain() has read: `resources` and the result
  strays,    \* launches of the watched stage alive with no monitor over them
  sj,        \* state.json: the counter of restarts
  faults

workerVars == <<kind, worker, pipe, told, strays, sj, faults>>

NoWorker  == [phase |-> "none", stage |-> 0, child |-> 0, launches |-> 0,
              restarts |-> 0, termed |-> FALSE]
NoMessage == [child |-> 0, result |-> None, crash |-> FALSE]

WorkerInit ==
  /\ kind \in Kinds
  /\ worker = [r \in Runs |-> NoWorker]
  /\ pipe = NoMessage /\ told = NoMessage
  /\ strays = {} /\ faults = 0 /\ sj = 0

Alive(r) == worker[r].phase \notin {"none", "gone"}

Becomes(r, w) == worker' = [worker EXCEPT ![r] = w]

\* A worker nobody watches leaves nothing to be asked about.
Leaves(r, watched) == Becomes(r, IF watched THEN [worker[r] EXCEPT !.phase = "gone", !.child = 0]
                                 ELSE NoWorker)

\* The workload of r, as a set: what is left when its monitor goes without it.
Orphan(r) == {worker[r].child} \ {0}

\* The container keeps its name over the launches; a group or a job does not.
SameResource(a, b) == a = b \/ (kind = "docker" /\ a > 0 /\ b > 0)

-----------------------------------------------------------------------------
(* The worker process.  `r` is watched when its parent holds the pipe. *)

\* _worker: a session of its own, "ready", and a Monitor that loads state.json.
\* With nobody at the pipe the send raises, and the worker is over.
WorkerReady(r, watched) ==
  /\ worker[r].phase = "boot"
  /\ IF watched THEN Becomes(r, [worker[r] EXCEPT !.phase = "up", !.restarts = sj])
                ELSE Leaves(r, FALSE)
  /\ UNCHANGED <<kind, pipe, told, strays, sj, faults>>

\* before_start: a monitor that was told to stop refuses; a relaunch is counted
\* and saved.  The container's name is announced before docker run.
WorkerReserves(r, watched) ==
  /\ worker[r].phase = "up" /\ worker[r].child = 0
  /\ ~worker[r].termed
  /\ worker[r].launches < MaxLaunches
  /\ LET n == worker[r].restarts + (IF worker[r].launches > 0 THEN 1 ELSE 0)
     IN Becomes(r, [worker[r] EXCEPT !.phase = "spawning", !.restarts = n]) /\ sj' = n
  /\ pipe' = IF kind = "docker" /\ watched
               THEN [pipe EXCEPT !.child = worker[r].launches + 1] ELSE pipe
  /\ UNCHANGED <<kind, told, strays, faults>>

WorkerSpawns(r) ==
  /\ worker[r].phase = "spawning"
  /\ LET n == worker[r].launches + 1
     IN Becomes(r, [worker[r] EXCEPT !.child = n, !.launches = n,
                      !.phase = IF kind = "docker" THEN "up" ELSE "spawned"])
  /\ UNCHANGED <<kind, pipe, told, strays, sj, faults>>

\* on_resource: the pid of the group, the id of the job, once there is one.
\* With nobody at the pipe it raises and the worker is over.
WorkerTells(r, watched) ==
  /\ worker[r].phase = "spawned"
  /\ IF watched
       THEN /\ Becomes(r, [worker[r] EXCEPT !.phase = "up"])
            /\ pipe' = [pipe EXCEPT !.child = worker[r].child]
       ELSE Leaves(r, FALSE) /\ UNCHANGED pipe
  /\ UNCHANGED <<kind, told, strays, sj, faults>>

WorkloadEnds(r) ==
  /\ worker[r].child # 0 /\ worker[r].phase = "up"
  /\ Becomes(r, [worker[r] EXCEPT !.child = 0])
  /\ UNCHANGED <<kind, pipe, told, strays, sj, faults>>

\* A tick of the monitor writes its own copy of the state.
WorkerSaves(r) ==
  /\ worker[r].phase = "up"
  /\ sj # worker[r].restarts /\ sj' = worker[r].restarts
  /\ UNCHANGED <<kind, worker, pipe, told, strays, faults>>

\* monitor.run() is over, with 0 when the workload ended well (or docker inspect
\* did not answer: no container, no code).  A workload that is still there is
\* stopped, which docker stop and scancel may fail to do without a word.
WorkerFinishes(r, code, watched) ==
  /\ worker[r].phase = "up"
  /\ code = 143 <=> worker[r].termed
  /\ code = 0 => worker[r].launches > 0 /\ (worker[r].child = 0 \/ kind = "docker")
  /\ sj' = worker[r].restarts
  /\ IF watched
       THEN /\ Becomes(r, [worker[r] EXCEPT !.phase = "exiting", !.child = 0])
            /\ pipe' = [pipe EXCEPT !.result = code]
            /\ \/ strays' = strays
               \/ kind # "local" /\ strays' = strays \cup Orphan(r)
       ELSE Leaves(r, FALSE) /\ UNCHANGED <<pipe, strays>>
  /\ UNCHANGED <<kind, told, faults>>

\* An exception leaves monitor.run(), with the workload stopped or not.
WorkerRaises(r, watched) ==
  /\ worker[r].phase \in {"up", "spawning", "spawned"}
  /\ faults < MaxFaults /\ faults' = faults + 1
  /\ IF watched
       THEN /\ Becomes(r, [worker[r] EXCEPT !.phase = "exiting", !.child = 0])
            /\ strays' \in {strays, strays \cup Orphan(r)}
            /\ pipe' = [pipe EXCEPT !.result = 1, !.crash = TRUE]
       ELSE Leaves(r, FALSE) /\ UNCHANGED <<pipe, strays>>
  /\ UNCHANGED <<kind, told, sj>>

WorkerExits(r, watched) ==
  /\ worker[r].phase = "exiting"
  /\ Leaves(r, watched)
  /\ UNCHANGED <<kind, pipe, told, strays, sj, faults>>

\* The system kills the worker: no result, and the workload lives on.
WorkerDies(r, watched) ==
  /\ worker[r].phase \in {"boot", "up", "spawning", "spawned"}
  /\ faults < MaxFaults /\ faults' = faults + 1
  /\ Leaves(r, watched)
  /\ strays' = IF watched THEN strays \cup Orphan(r) ELSE strays
  /\ UNCHANGED <<kind, pipe, told, sj>>

-----------------------------------------------------------------------------
(* The parent: run_stage.  It drains the pipe before whatever it decides, so *)
(* what a turn of its loop reads with nothing decided is left in the pipe.    *)

\* What drain() makes of the pipe; `keep` is the result that must not change.
Drained(keep) ==
  [child  |-> IF pipe.child # 0 THEN pipe.child ELSE told.child,
   result |-> IF keep # None THEN keep
              ELSE IF pipe.result # None THEN pipe.result ELSE told.result,
   crash  |-> told.crash \/ (keep = None /\ pipe.crash)]

StartWorker(r, stage) ==
  /\ Becomes(r, [NoWorker EXCEPT !.phase = "boot", !.stage = stage])
  /\ pipe' = NoMessage /\ told' = NoMessage /\ strays' = {}
  /\ UNCHANGED <<kind, sj, faults>>

\* A signal or the deadline: the result is the parent's, whatever the worker
\* has said.  The monitor is told to stop before its workload is.
ForceEnd(r, code) ==
  /\ Alive(r)
  /\ told' = Drained(code) /\ pipe' = NoMessage
  /\ LET w    == worker[r]
         dies == w.child # 0 /\ kind = "local" /\ Drained(code).child = w.child
     IN \E hit \in {FALSE, dies} :
          Becomes(r,
            IF w.phase = "boot" THEN [w EXCEPT !.phase = "gone", !.termed = TRUE]
            ELSE [w EXCEPT !.termed = TRUE, !.child = IF hit THEN 0 ELSE @])
  /\ UNCHANGED <<kind, strays, sj, faults>>

WatchSignal(r)   == ForceEnd(r, 143)

\* Mutant: the clock starts when the workload does.
DeadlineOnceLaunched(r) == HasDeadline /\ Drained(None).child # 0 /\ ForceEnd(r, 124)

WatchDeadline(r) == HasDeadline /\ ForceEnd(r, 124)

\* Mutant: a worker that is gone always has a result.
WatchEndsAsTold(r) ==
  /\ ~Alive(r)
  /\ told' = Drained(None) /\ pipe' = NoMessage
  /\ UNCHANGED <<kind, worker, strays, sj, faults>>

\* Mutant: a result that is missing is made up, and nothing is forced.
WatchEndsTrusting(r) ==
  /\ ~Alive(r)
  /\ LET d == Drained(None)
     IN told' = IF d.result = None THEN [d EXCEPT !.result = 1] ELSE d
  /\ pipe' = NoMessage
  /\ UNCHANGED <<kind, worker, strays, sj, faults>>

\* The worker is gone: its result stands, or there is none and it is forced.
WatchEnds(r) ==
  /\ ~Alive(r)
  /\ LET d == Drained(None)
     IN told' = IF d.result = None THEN [d EXCEPT !.result = 1, !.crash = TRUE] ELSE d
  /\ pipe' = NoMessage
  /\ UNCHANGED <<kind, worker, strays, sj, faults>>

\* Mutant: what the worker said during the grace is not read.
ReapUndrained(r, fails) ==
  /\ LET left == strays \cup Orphan(r)
         hit  == {s \in left : told.child # 0 /\ SameResource(s, told.child)}
     IN /\ fails => kind # "local" /\ told.child # 0
        /\ strays' = IF fails THEN left ELSE left \ hit
        /\ told' = Drained(told.result)
  /\ Becomes(r, [worker[r] EXCEPT !.phase = "gone", !.child = 0])
  /\ pipe' = NoMessage
  /\ UNCHANGED <<kind, sj, faults>>

\* Mutant: SIGTERM is enough for the worker.
ReapPolitely(r, fails) ==
  /\ fails = FALSE
  /\ told' = Drained(told.result) /\ pipe' = NoMessage
  /\ UNCHANGED <<kind, worker, strays, sj, faults>>

\* The grace is over: the worker's group and whatever it said it owned are
\* killed; `fails` is a docker rm or a scancel that could not be done.
Reap(r, fails) ==
  /\ LET d    == Drained(told.result)
         left == strays \cup Orphan(r)
         hit  == {s \in left : d.child # 0 /\ SameResource(s, d.child)}
     IN /\ fails => kind # "local" /\ d.child # 0
        /\ strays' = IF fails THEN left ELSE left \ hit
        /\ told' = d
  /\ Becomes(r, [worker[r] EXCEPT !.phase = "gone", !.child = 0])
  /\ pipe' = NoMessage
  /\ UNCHANGED <<kind, sj, faults>>

\* The parent has what it wanted to know.
Forget(r) ==
  /\ Becomes(r, IF Alive(r) THEN worker[r] ELSE NoWorker)
  /\ pipe' = NoMessage /\ told' = NoMessage /\ strays' = {}
  /\ UNCHANGED <<kind, sj, faults>>

-----------------------------------------------------------------------------

\* Every invocation adds fewer restarts to the counter than it may launch.
WorkersType ==
  /\ kind \in Kinds
  /\ worker \in [Runs -> Workers]
  /\ pipe \in Messages /\ told \in Messages
  /\ strays \in SUBSET (1 .. MaxLaunches)
  /\ sj \in 0 .. MaxLaunches * MaxRuns
  /\ faults \in Nat
=============================================================================
