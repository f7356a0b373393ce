------------------------------ MODULE Pipeline ------------------------------
(***************************************************************************)
(* The controller of a pipeline (src/autosentry/pipeline.py) over the      *)
(* workers of its stages.  It writes three files: the archive of the run,  *)
(* the pointer to the latest run (.autosentry/pipeline.json) and the       *)
(* journal of the run; it shares state.json with the workers.  It may be   *)
(* killed between any two of them.  A run is named by its number, the      *)
(* abstraction of pipeline_id; a stage's evidence_dir is the run that      *)
(* executed it; a fingerprint stands for everything the hash covers.       *)
(***************************************************************************)
EXTENDS StageWorker, Sequences

CONSTANTS
  Prints,    \* configuration fingerprints
  Layouts,   \* stage names in their order, as one value
  MaxEdits   \* bound on edits of the configuration

ASSUME PipelineAssumption ==
  /\ Prints # {} /\ Layouts # {} /\ MaxEdits \in Nat
  /\ None \notin Prints \cup Layouts

Statuses == {"pending", "running", "complete", "failed", "skipped"}
Results  == [status : Statuses, print : Prints, evidence : 0 .. MaxRuns]
States   == [id : Runs, layout : Layouts, status : {"running", "complete", "failed"},
             stages : [Stages -> Results]]
Configs  == [layout : Layouts, print : [Stages -> Prints]]
Events   == [run : Runs, stage : Stages]

ASSUME NoneAssumption == None \notin States

VARIABLES
  config,    \* autosentry.yaml
  latest,    \* .autosentry/pipeline.json
  archive,   \* pipeline.json in the directory of the newest run
  journal,   \* the stage_finished events of the journals with exit code 0
  pc, next,  \* where the controller is; where a save returns to
  mem,       \* its PipelineState; the configuration it has loaded is in it
  idx,       \* the stage it is at
  cleared,   \* --resume or --from-stage
  signal,    \* _signal
  outcome,   \* the exit code run_stage returned
  errors,    \* the stage's cleanup errors
  runs, edits,
  killed,    \* runs whose controller was killed, for the properties
  passed     \* what workers reported to have ended with 0, for the properties

fileVars    == <<latest, archive, journal>>
controlVars == <<pc, next, mem, idx, cleared, signal, outcome, errors, runs>>
ghostVars   == <<killed, passed>>
vars == <<workerVars, config, edits, fileVars, controlVars, ghostVars>>

run == runs   \* the run of the controller that is running, or ran last

Idle == pc = "idle"

\* A fingerprint is only compared with another of the same stage.
FirstLayout == CHOOSE l \in Layouts : TRUE
FirstPrint  == CHOOSE f \in Prints : TRUE

Init ==
  /\ WorkerInit
  /\ config = [layout |-> FirstLayout, print |-> [i \in Stages |-> FirstPrint]]
  /\ latest = None /\ archive = None /\ journal = {}
  /\ pc = "idle" /\ next = "stage" /\ mem = None /\ idx = 1
  /\ cleared = FALSE /\ signal = FALSE /\ outcome = 0 /\ errors = FALSE
  /\ runs = 0 /\ edits = 0 /\ killed = {} /\ passed = {}

-----------------------------------------------------------------------------
(* An invocation *)

Fresh(i) == [status |-> "pending", print |-> config.print[i], evidence |-> 0]

\* The first stage that is not complete, past the end when all are.
FirstIncomplete(p) ==
  CHOOSE i \in 1 .. N + 1 :
    /\ i <= N => p.stages[i].status # "complete"
    /\ \A j \in 1 .. i - 1 : p.stages[j].status = "complete"

\* Mutant: a stage that completed is skipped whatever it is configured to be now.
MayStartAtUnverified(start) ==
  /\ latest # None
  /\ latest.layout = config.layout
  /\ \A i \in 1 .. start - 1 : latest.stages[i].status = "complete"

\* _initialize_pipeline_state from stage `start`: a stage is skipped only when
\* it completed under the configuration it has now.
MayStartAt(start) ==
  /\ latest # None
  /\ latest.layout = config.layout
  /\ \A i \in 1 .. start - 1 :
       latest.stages[i].status = "complete" /\ latest.stages[i].print = config.print[i]

\* Mutant: whatever is complete is kept, the stages after `start` too.
InitialStateKeepsLater(start) ==
  [id |-> runs + 1, layout |-> config.layout, status |-> "running",
   stages |-> [i \in Stages |->
                 IF i < start \/ (latest # None /\ i > start /\ latest.stages[i].status = "complete")
                   THEN latest.stages[i] ELSE Fresh(i)]]

InitialState(start) ==
  [id |-> runs + 1, layout |-> config.layout, status |-> "running",
   stages |-> [i \in Stages |-> IF i < start THEN latest.stages[i] ELSE Fresh(i)]]

\* The lock is free whenever no controller runs: a killed one gives it back.
StartRun(start, resuming) ==
  /\ Idle /\ runs < MaxRuns
  /\ resuming => MayStartAt(start)
  /\ ~resuming => start = 1
  /\ mem' = InitialState(start)
  /\ runs' = runs + 1
  /\ cleared' = resuming
  /\ idx' = 1 /\ signal' = FALSE
  /\ pc' = "archive" /\ next' = "stage"
  /\ outcome' = 0 /\ errors' = FALSE
  /\ UNCHANGED <<workerVars, config, edits, fileVars, ghostVars>>

RunFresh     == StartRun(1, FALSE)
RunFromStage == \E start \in Stages : StartRun(start, TRUE)
RunResume    == latest # None /\ StartRun(FirstIncomplete(latest), TRUE)

\* A controller has the configuration in memory: an edit during a run is one after.
EditConfig ==
  /\ Idle /\ edits < MaxEdits /\ edits' = edits + 1
  /\ config' \in ({[config EXCEPT !.print[i] = f] : i \in Stages, f \in Prints}
                  \cup {[config EXCEPT !.layout = l] : l \in Layouts}) \ {config}
  /\ UNCHANGED <<workerVars, fileVars, controlVars, ghostVars>>

\* _signal is looked at before a launch and while watching; one that comes
\* anywhere else waits for the next look.
SendSignal ==
  /\ pc \in {"launch", "watch"} /\ ~signal /\ signal' = TRUE
  /\ UNCHANGED <<workerVars, config, edits, fileVars, ghostVars>>
  /\ UNCHANGED <<pc, next, mem, idx, cleared, outcome, errors, runs>>

\* What the controller had in memory is gone with it.
Forgets ==
  /\ pc' = "idle" /\ next' = "stage" /\ mem' = None /\ idx' = 1
  /\ cleared' = FALSE /\ signal' = FALSE /\ outcome' = 0 /\ errors' = FALSE
  /\ pipe' = NoMessage /\ told' = NoMessage
  /\ UNCHANGED <<runs, config, edits, fileVars, passed>>

\* SIGKILL, or the machine is out of memory: a worker lives on, its pipe broken.
ControllerDies ==
  /\ ~Idle /\ faults < MaxFaults /\ faults' = faults + 1
  /\ killed' = killed \cup {run}
  /\ Forgets
  /\ strays' = {}
  /\ UNCHANGED <<kind, worker, sj>>

-----------------------------------------------------------------------------
(* The files: _save_pipeline replaces the archive, then the pointer *)

Control(where) ==
  /\ pc' = where
  /\ UNCHANGED <<cleared, signal, runs, config, edits, killed>>

\* Mutant: the pointer is replaced where the archive should be.
SavePointerFirst ==
  /\ pc = "archive" /\ latest' = mem
  /\ Control("latest")
  /\ UNCHANGED <<workerVars, archive, journal, next, mem, idx, outcome, errors, passed>>

SaveArchive ==
  /\ pc = "archive" /\ archive' = mem
  /\ Control("latest")
  /\ UNCHANGED <<workerVars, latest, journal, next, mem, idx, outcome, errors, passed>>

\* Mutant: the pointer is replaced when the run is over.
SaveLatestAtTheEnd ==
  /\ pc = "latest" /\ latest' = IF next = "finish" THEN mem ELSE latest
  /\ Control(next)
  /\ UNCHANGED <<workerVars, archive, journal, next, mem, idx, outcome, errors, passed>>

SaveLatest ==
  /\ pc = "latest" /\ latest' = mem
  /\ Control(next)
  /\ UNCHANGED <<workerVars, archive, journal, next, mem, idx, outcome, errors, passed>>

Log == journal' = journal \cup {[run |-> run, stage |-> idx]}

-----------------------------------------------------------------------------
(* The stages *)

StageReused ==
  /\ pc = "stage" /\ idx <= N /\ mem.stages[idx].status = "complete"
  /\ idx' = idx + 1
  /\ Control("stage")
  /\ UNCHANGED <<workerVars, fileVars, next, mem, outcome, errors, passed>>

\* Mutant: only the first stage clears.
ClearsFirstOnly == idx = 1

\* The stage is running and its evidence is here; the budget is cleared for the
\* first stage and in a resumed run, elsewhere the stage before has done it.
ClearsBudget == idx = 1 \/ cleared

StageBegins ==
  /\ pc = "stage" /\ idx <= N /\ mem.stages[idx].status # "complete"
  /\ mem' = [mem EXCEPT !.stages[idx].status = "running", !.stages[idx].evidence = run]
  /\ sj' = IF ClearsBudget THEN 0 ELSE sj
  /\ Control("archive") /\ next' = "launch"
  /\ UNCHANGED <<kind, worker, pipe, told, strays, faults>>
  /\ UNCHANGED <<fileVars, idx, outcome, errors, passed>>

\* check_launch found something missing, or a signal came before the launch.
StageRefused ==
  /\ pc = "launch"
  /\ \/ signal /\ outcome' = 143
     \/ ~signal /\ outcome' = 126
  /\ errors' = FALSE
  /\ Control("outcome")
  /\ UNCHANGED <<workerVars, fileVars, next, mem, idx, passed>>

StageLaunched ==
  /\ pc = "launch" /\ ~signal
  /\ StartWorker(run, idx)
  /\ Control("watch")
  /\ UNCHANGED <<fileVars, next, mem, idx, outcome, errors, passed>>

Watching(where) ==
  /\ pc = "watch"
  /\ Control(where)
  /\ UNCHANGED <<fileVars, next, mem, idx, outcome, errors, passed>>

StageSignal      == Watching("grace") /\ signal /\ WatchSignal(run)
StageDeadline    == Watching("grace") /\ ~signal /\ WatchDeadline(run)
StageWorkerFails == Watching("grace") /\ WatchEnds(run) /\ told'.crash

StageWorkerEnds ==
  /\ pc = "watch"
  /\ WatchEnds(run) /\ ~told'.crash
  /\ outcome' = told'.result /\ errors' = FALSE
  /\ Control("outcome")
  /\ UNCHANGED <<fileVars, next, mem, idx, passed>>

StageReaped ==
  /\ pc = "grace"
  /\ \E fails \in BOOLEAN : Reap(run, fails) /\ errors' = fails
  /\ outcome' = told'.result
  /\ Control("outcome")
  /\ UNCHANGED <<fileVars, next, mem, idx, passed>>

\* The result of the stage, and the journal, which is on disk before the pipeline
\* file is.
StageEnds ==
  /\ pc = "outcome"
  /\ outcome' = 0 /\ errors' = FALSE
  /\ Forget(run)
  /\ IF outcome = 0
       THEN /\ mem' = [mem EXCEPT !.stages[idx].status = "complete"]
            /\ Log
            /\ Control("advance")
            /\ UNCHANGED next
       ELSE /\ mem' = [mem EXCEPT !.status = "failed",
                         !.stages = [i \in Stages |->
                            IF i = idx THEN [@[i] EXCEPT !.status = "failed"]
                            ELSE IF i > idx THEN [@[i] EXCEPT !.status = "skipped"]
                            ELSE @[i]]]
            /\ Control("archive") /\ next' = "finish"
            /\ UNCHANGED journal
  /\ UNCHANGED <<latest, archive, idx, passed>>

\* record_reset, when a stage follows, and the save that makes the stage durable.
StageAdvances ==
  /\ pc = "advance"
  /\ sj' = IF idx < N THEN 0 ELSE sj
  /\ idx' = idx + 1
  /\ Control("archive") /\ next' = "stage"
  /\ UNCHANGED <<kind, worker, pipe, told, strays, faults>>
  /\ UNCHANGED <<fileVars, mem, outcome, errors, passed>>

\* Every stage is behind: the run is complete.
AllStagesDone ==
  /\ pc = "stage" /\ idx = N + 1
  /\ mem' = [mem EXCEPT !.status = "complete"]
  /\ Control("archive") /\ next' = "finish"
  /\ UNCHANGED <<workerVars, fileVars, idx, outcome, errors, passed>>

\* _finish, after its save: the counter in state.json stays.
Finish ==
  /\ pc = "finish"
  /\ Forgets
  /\ UNCHANGED <<kind, worker, strays, sj, faults, killed>>

-----------------------------------------------------------------------------

Controller ==
  \/ SaveArchive \/ SaveLatest
  \/ StageReused \/ StageBegins \/ StageRefused \/ StageLaunched
  \/ StageSignal \/ StageDeadline \/ StageWorkerFails \/ StageWorkerEnds
  \/ StageReaped \/ StageEnds \/ StageAdvances \/ AllStagesDone \/ Finish

Watched(r) == ~Idle /\ r = run

\* A worker reports: what it ended with 0 counts as passed when it is listened to.
Reports(r, code) ==
  /\ WorkerFinishes(r, code, Watched(r))
  /\ passed' = IF code = 0 /\ Watched(r)
                 THEN passed \cup {[layout |-> mem.layout, run |-> r, stage |-> worker[r].stage,
                                    print |-> mem.stages[worker[r].stage].print]}
                 ELSE passed

WorkerStep(r) ==
  \/ /\ \/ WorkerReady(r, Watched(r)) \/ WorkerReserves(r, Watched(r))
        \/ WorkerSpawns(r) \/ WorkerTells(r, Watched(r)) \/ WorkloadEnds(r)
        \/ WorkerSaves(r) \/ WorkerRaises(r, Watched(r))
        \/ WorkerExits(r, Watched(r)) \/ WorkerDies(r, Watched(r))
     /\ UNCHANGED passed
  \/ \E code \in {0, 1, 143} : Reports(r, code)

Next ==
  \/ RunFresh \/ RunFromStage \/ RunResume
  \/ EditConfig \/ SendSignal \/ ControllerDies
  \/ Controller
  \/ \E r \in Runs :
       /\ WorkerStep(r)
       /\ UNCHANGED <<config, edits, fileVars, controlVars, killed>>

Spec == Init /\ [][Next]_vars

\* The controller runs and its clock advances; a worker need not do anything.
FairSpec == Spec /\ WF_vars(Controller)

-----------------------------------------------------------------------------
(* Properties *)

FilesType ==
  /\ config \in Configs
  /\ latest \in States \cup {None} /\ archive \in States \cup {None}
  /\ journal \in SUBSET Events
  /\ passed \in SUBSET [layout : Layouts, run : Runs, stage : Stages, print : Prints]

ControlType ==
  /\ pc \in {"idle", "archive", "latest", "stage", "launch", "watch", "grace",
             "outcome", "advance", "finish"}
  /\ next \in {"stage", "launch", "finish"}
  /\ mem \in States \cup {None}
  /\ idx \in 1 .. N + 1
  /\ cleared \in BOOLEAN /\ signal \in BOOLEAN /\ errors \in BOOLEAN
  /\ outcome \in Codes
  /\ runs \in 0 .. MaxRuns /\ edits \in Nat
  /\ killed \in SUBSET Runs

\* The variables hold what pipeline.json, state.json, the journal and the pipe
\* of a worker may hold.
TypeOK == WorkersType /\ FilesType /\ ControlType

Complete(p, i) == p # None /\ p.stages[i].status = "complete"

Verified(p, layout, print, i) ==
  [layout |-> layout, run |-> p.stages[i].evidence, stage |-> i, print |-> print] \in passed

\* A stage is only taken for complete when a worker of the run its evidence is in
\* was heard to end with 0, and in the pointer that was under the configuration it
\* holds, in an invocation under the one the invocation has loaded: through
\* resumes, edits, deadlines, signals and kills (_initialize_pipeline_state, _run).
CompletionVerified ==
  \A i \in Stages :
    /\ Complete(latest, i) => Verified(latest, latest.layout, latest.stages[i].print, i)
    /\ Complete(mem, i) => Verified(mem, config.layout, config.print[i], i)

\* A stage is never complete on top of an earlier stage that was run again after
\* it: the evidence of the complete stages is in runs that do not go back, and no
\* gap is between them (pipeline.py, the prefix that resume keeps).
EvidenceInOrder ==
  \A i, j \in Stages :
    i < j /\ Complete(latest, j) =>
      Complete(latest, i) /\ latest.stages[i].evidence <= latest.stages[j].evidence

\* What the pointer calls complete is already in the archive and in the journal of
\* the run that did it, wherever the controller is killed (_save_pipeline and the
\* journal's fsync).
EvidenceBeforePointer ==
  \A i \in Stages :
    Complete(latest, i) =>
      /\ [run |-> latest.stages[i].evidence, stage |-> i] \in journal
      /\ archive # None /\ archive.id >= latest.id
      /\ archive.id = latest.id => Complete(archive, i)

\* Two monitors supervise stages of one project at a time only when a controller
\* was killed: its worker is in a session of its own and goes on
\* (stage_worker.py, os.setsid; pipeline.py, the lock of the controller alone).
OneWorkerUnlessKilled ==
  \A r, s \in Runs : r < s /\ Alive(r) /\ Alive(s) => r \in killed

\* A stage's monitor begins with a budget nobody has spent, unless the worker of a
\* killed controller writes its own copy of state.json (record_reset between
\* stages, and the reset of a resumed run).
FreshBudget ==
  killed = {} =>
    \A r \in Runs :
      worker[r].phase = "up" /\ worker[r].launches = 0 => worker[r].restarts = 0

Forced == told.crash \/ outcome \in {124, 143}

\* A stage leaves no workload behind: when the parent had to end it, its monitor is
\* gone and of the workloads the monitor had told it about none is alive, a
\* cancellation that failed being on record; a local one that ended by itself has
\* taken its workload with it (stage_worker.py, the kill and the drain after it).
NothingLeftBehind ==
  pc = "outcome" /\ worker[run].stage = idx =>
    /\ Forced /\ ~errors => ~Alive(run) /\ \A s \in strays : ~SameResource(s, told.child)
    /\ ~Forced /\ kind = "local" => strays = {}

\* With a deadline the pipeline always ends, although a worker may hang anywhere:
\* before it is ready, over a launch, after its result (run_stage).
PipelineEnds == HasDeadline /\ ~Idle ~> Idle

\* The prefix of complete stages.
Prefix(p) ==
  IF p = None THEN 0
  ELSE CHOOSE k \in 0 .. N :
         /\ \A i \in 1 .. k : p.stages[i].status = "complete"
         /\ k < N => p.stages[k + 1].status # "complete"

Recorded == INSTANCE Checkpoint WITH
  recorded <- Prefix(latest),
  finished <- IF Idle THEN Prefix(latest) ELSE Prefix(mem)

\* The stages behind a pipeline are what Checkpoint promises: a prefix on disk, a
\* run that goes on from a part of it, one stage at most lost with a controller.
ImplementsCheckpoint == Recorded!CheckpointSpec
=============================================================================
