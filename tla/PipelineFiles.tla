--------------------------- MODULE PipelineFiles ---------------------------
(***************************************************************************)
(* What the files of a pipeline say of its stages: the archive, the        *)
(* pointer and the journal against what the workers reported, over kills,  *)
(* edits of the configuration and resumes; and that the pipeline           *)
(* implements Checkpoint, for every number of stages and invocations:      *)
(* under the prefix of complete stages of the pointer and of the run in    *)
(* memory, each step is one of Checkpoint's or leaves both.                *)
(***************************************************************************)
EXTENDS PipelineProofs

USE DEF vars, workerVars, fileVars, controlVars, ghostVars, run, Idle

IsComplete(p, i) == p.stages[i].status = "complete"

Event(p, i)  == [run |-> p.stages[i].evidence, stage |-> i]
Report(p, i) == [layout |-> p.layout, run |-> p.stages[i].evidence, stage |-> i,
                 print |-> p.stages[i].print]

IsPrefix(p, k) ==
  /\ \A i \in 1 .. k : IsComplete(p, i)
  /\ k < N => ~IsComplete(p, k + 1)

\* A state p of a pipeline is sound with journal j, reports s, after n invocations: its
\* complete stages are a prefix, of runs that do not go back, each journaled and
\* reported under the configuration p gives it.
Sound(p, j, s, n) ==
  /\ p.id <= n
  /\ \A i \in Stages : p.stages[i].evidence <= n
  /\ \A i \in Stages : IsComplete(p, i) => Event(p, i) \in j /\ Report(p, i) \in s
  /\ \A i, k \in Stages :
       i < k /\ IsComplete(p, k) =>
         IsComplete(p, i) /\ p.stages[i].evidence <= p.stages[k].evidence
  /\ \E k \in 0 .. N : IsPrefix(p, k)

\* The run in memory: under the configuration it has loaded, the stages before idx
\* complete, and the evidence of the stage it is at is of this run.
Begins == pc \in {"launch", "watch", "grace", "outcome"} \/ (Saving /\ next = "launch")

MemShape ==
  ~Idle =>
    /\ mem.layout = config.layout
    /\ \A i \in Stages : mem.stages[i].print = config.print[i]
    /\ \A i \in Stages : i < idx => IsComplete(mem, i)
    /\ Begins => ~IsComplete(mem, idx) /\ mem.stages[idx].evidence = run
    /\ pc = "advance" => IsComplete(mem, idx)

PassedHere ==
  [layout |-> config.layout, run |-> run, stage |-> idx, print |-> config.print[idx]]
    \in passed

\* A zero on its way to the controller is one that was reported.
HeardShape ==
  /\ pc \in {"watch", "grace"} /\ (pipe.result = 0 \/ told.result = 0) => PassedHere
  /\ pc = "outcome" /\ outcome = 0 => PassedHere

\* The archive is ahead of the pointer, and memory of both, by one save at most.
Ahead(p, q) ==
  /\ q.id >= p.id
  /\ q.id = p.id => \A i \in Stages : IsComplete(p, i) => IsComplete(q, i)

SavedShape ==
  /\ pc = "latest" => archive = mem
  /\ pc \in {"stage", "launch", "watch", "grace", "outcome", "finish"} => latest = mem
  /\ latest # None => archive # None /\ Ahead(latest, archive)
  /\ latest # None /\ ~Idle => Ahead(latest, mem)

SoundFiles ==
  /\ latest # None => Sound(latest, journal, passed, runs)
  /\ ~Idle => Sound(mem, journal, passed, runs)

FilesInv == PipelineInv /\ MemShape /\ HeardShape /\ SavedShape /\ SoundFiles

-----------------------------------------------------------------------------
(* Soundness of a state of a pipeline *)

LEMMA SoundGrows ==
  ASSUME NEW p \in States, NEW j, NEW s, NEW n \in Nat, NEW j2, NEW s2, NEW n2 \in Nat,
         Sound(p, j, s, n), j \subseteq j2, s \subseteq s2, n <= n2
  PROVE  Sound(p, j2, s2, n2)
<1>1. p.id \in Nat /\ \A i \in Stages : p.stages[i].evidence \in Nat
  BY StateFields, RunsInNat
<1>2. p.id <= n2 /\ \A i \in Stages : p.stages[i].evidence <= n2
  BY <1>1 DEF Sound
<1>3. \A i \in Stages : IsComplete(p, i) => Event(p, i) \in j2 /\ Report(p, i) \in s2
  BY DEF Sound
<1>. QED  BY <1>2, <1>3 DEF Sound

\* What completes a stage: it is the first that is not complete, and this run did it.
LEMMA SoundMarked ==
  ASSUME NEW p \in States, NEW j, NEW s, NEW n \in Nat, NEW i \in Stages,
         Sound(p, j, s, n), ~IsComplete(p, i),
         \A k \in Stages : k < i => IsComplete(p, k),
         p.stages[i].evidence = n, Event(p, i) \in j, Report(p, i) \in s
  PROVE  Sound(Marked(p, i, "complete"), j, s, n)
<1>. DEFINE q == Marked(p, i, "complete")
<1>1. "complete" \in Statuses
  BY DEF Statuses
<1>2. /\ q \in States /\ q.id = p.id /\ q.layout = p.layout
      /\ IsComplete(q, i) /\ q.stages[i].print = p.stages[i].print
      /\ q.stages[i].evidence = p.stages[i].evidence
      /\ \A k \in Stages : k # i => q.stages[k] = p.stages[k]
  BY <1>1, MarkedFields DEF IsComplete
<1>. HIDE DEF q
<1>3. \A k \in Stages : /\ q.stages[k].evidence = p.stages[k].evidence
                        /\ q.stages[k].evidence \in Nat /\ q.stages[k].evidence <= n
                        /\ IsComplete(q, k) <=> IsComplete(p, k) \/ k = i
                        /\ Event(q, k) = Event(p, k) /\ Report(q, k) = Report(p, k)
  <2>. SUFFICES ASSUME NEW k \in Stages
       PROVE  /\ q.stages[k].evidence = p.stages[k].evidence
              /\ q.stages[k].evidence \in Nat /\ q.stages[k].evidence <= n
              /\ IsComplete(q, k) <=> IsComplete(p, k) \/ k = i
              /\ q.stages[k].print = p.stages[k].print
    BY <1>2 DEF Event, Report
  <2>1. p.stages[k].evidence \in Nat /\ p.stages[k].evidence <= n
    BY StateFields DEF Sound
  <2>2. CASE k = i
    BY <1>2, <2>1, <2>2
  <2>3. CASE k # i
    BY <1>2, <2>1, <2>3 DEF IsComplete
  <2>. QED  BY <2>2, <2>3
<1>4. i \in 1 .. N /\ N \in Nat
  BY WorkerAssumption DEF WorkerAssumption, Stages
<1>5. \A k \in Stages : IsComplete(q, k) <=> k <= i
  BY <1>3, <1>4 DEF Sound, Stages
<1>6. IsPrefix(q, i)
  BY <1>4, <1>5 DEF IsPrefix, Stages
<1>7. \A k \in Stages : IsComplete(q, k) => Event(q, k) \in j /\ Report(q, k) \in s
  BY <1>3 DEF Sound
<1>8. \A k, l \in Stages :
        k < l /\ IsComplete(q, l) =>
          IsComplete(q, k) /\ q.stages[k].evidence <= q.stages[l].evidence
  <2>. SUFFICES ASSUME NEW k \in Stages, NEW l \in Stages, k < l, IsComplete(q, l)
       PROVE  IsComplete(q, k) /\ q.stages[k].evidence <= q.stages[l].evidence
    OBVIOUS
  <2>1. IsComplete(q, k)
    BY <1>4, <1>5 DEF Stages
  <2>2. CASE l = i
    BY <1>3, <2>1, <2>2
  <2>3. CASE l # i
    BY <1>3, <2>3 DEF Sound
  <2>. QED  BY <2>1, <2>2, <2>3
<1>9. q.id <= n /\ (\E k \in 0 .. N : IsPrefix(q, k))
  <2>1. i \in 0 .. N
    BY <1>4
  <2>. QED  BY <1>2, <1>6, <2>1 DEF Sound
<1>10. \A k \in Stages : q.stages[k].evidence <= n
  BY <1>3
<1>. QED  BY <1>7, <1>8, <1>9, <1>10 DEF Sound, q

\* Whatever else happens to stages that are not complete leaves the state sound.
LEMMA SoundKept ==
  ASSUME NEW p \in States, NEW q \in States, NEW j, NEW s, NEW n \in Nat,
         Sound(p, j, s, n), q.id = p.id, q.layout = p.layout,
         \A i \in Stages : /\ IsComplete(q, i) <=> IsComplete(p, i)
                           /\ IsComplete(p, i) => q.stages[i] = p.stages[i]
                           /\ q.stages[i].evidence <= n
  PROVE  Sound(q, j, s, n)
<1>1. \A i \in Stages : IsComplete(q, i) => Event(q, i) \in j /\ Report(q, i) \in s
  BY DEF Sound, Event, Report
<1>2. \A i, k \in Stages :
        i < k /\ IsComplete(q, k) =>
          IsComplete(q, i) /\ q.stages[i].evidence <= q.stages[k].evidence
  BY DEF Sound
<1>3. PICK k \in 0 .. N : IsPrefix(p, k)
  BY DEF Sound
<1>4. IsPrefix(q, k)
  BY <1>3, WorkerAssumption DEF WorkerAssumption, IsPrefix, Stages
<1>. QED  BY <1>1, <1>2, <1>4 DEF Sound

\* So does a new run from stage `start` of it.
LEMMA SoundStart ==
  ASSUME PipelineInv, runs < MaxRuns, NEW start \in 1 .. N + 1, NEW resuming \in BOOLEAN,
         resuming => MayStartAt(start), ~resuming => start = 1,
         latest # None => Sound(latest, journal, passed, runs)
  PROVE  /\ Sound(InitialState(start), journal, passed, runs + 1)
         /\ IsPrefix(InitialState(start), start - 1)
<1>. DEFINE q == InitialState(start)
<1>. USE InvParts
<1>1. /\ q \in States /\ q.id = runs + 1 /\ q.layout = config.layout
      /\ q.stages = [i \in Stages |-> IF i < start THEN latest.stages[i] ELSE Fresh(i)]
  BY InitialStateType
<1>. HIDE DEF q
<1>2. start > 1 => latest # None /\ latest \in States /\ MayStartAt(start)
  BY DEF MayStartAt, FilesType
<1>3. \A i \in Stages :
        /\ i < start => q.stages[i] = latest.stages[i] /\ IsComplete(latest, i)
                        /\ latest.stages[i].print = config.print[i]
                        /\ latest.stages[i].evidence \in Nat
                        /\ latest.stages[i].evidence <= runs
                        /\ q.layout = latest.layout
        /\ i >= start => q.stages[i].status = "pending" /\ q.stages[i].evidence = 0
  <2>. SUFFICES ASSUME NEW i \in Stages
       PROVE  /\ i < start => q.stages[i] = latest.stages[i] /\ IsComplete(latest, i)
                        /\ latest.stages[i].print = config.print[i]
                        /\ latest.stages[i].evidence \in Nat
                        /\ latest.stages[i].evidence <= runs
                        /\ q.layout = latest.layout
              /\ i >= start => q.stages[i].status = "pending" /\ q.stages[i].evidence = 0
    OBVIOUS
  <2>1. CASE i < start
    <3>1. start > 1 /\ i \in 1 .. start - 1
      BY <2>1 DEF Stages
    <3>2. latest.stages[i].evidence \in Nat /\ latest.stages[i].evidence <= runs
      BY <1>2, <3>1, StateFields DEF Sound
    <3>. QED  BY <1>1, <1>2, <2>1, <3>1, <3>2 DEF MayStartAt, IsComplete
  <2>2. CASE i >= start
    BY <1>1, <2>2 DEF Fresh, Stages
  <2>. QED  BY <2>1, <2>2 DEF Stages
<1>4. \A i \in Stages : IsComplete(q, i) <=> i < start
  BY <1>3 DEF IsComplete, Stages
<1>5. IsPrefix(q, start - 1)
  BY <1>4 DEF IsPrefix, Stages
<1>6. \A i \in Stages : q.stages[i].evidence <= runs + 1
  BY <1>3 DEF Stages
<1>7. \A i \in Stages : IsComplete(q, i) => Event(q, i) \in journal /\ Report(q, i) \in passed
  <2>. SUFFICES ASSUME NEW i \in Stages, i < start
       PROVE  Event(q, i) \in journal /\ Report(q, i) \in passed
    BY <1>4
  <2>1. start > 1
    BY DEF Stages
  <2>2. Event(q, i) = Event(latest, i) /\ Report(q, i) = Report(latest, i)
    BY <1>3 DEF Event, Report
  <2>. QED  BY <1>2, <1>3, <2>1, <2>2 DEF Sound
<1>8. \A i, k \in Stages :
        i < k /\ IsComplete(q, k) =>
          IsComplete(q, i) /\ q.stages[i].evidence <= q.stages[k].evidence
  <2>. SUFFICES ASSUME NEW i \in Stages, NEW k \in Stages, i < k, k < start
       PROVE  i < start /\ q.stages[i].evidence <= q.stages[k].evidence
    BY <1>4
  <2>1. start > 1 /\ i < start
    BY DEF Stages
  <2>. QED  BY <1>2, <1>3, <2>1 DEF Sound
<1>9. start - 1 \in 0 .. N
  OBVIOUS
<1>10. q.id <= runs + 1
  BY <1>1
<1>. QED  BY <1>5, <1>6, <1>7, <1>8, <1>9, <1>10 DEF Sound, q

\* A resume begins at a stage, or past the last one.
LEMMA ResumeStage ==
  ASSUME NEW p \in States, NEW k \in 0 .. N, IsPrefix(p, k)
  PROVE  FirstIncomplete(p) \in 1 .. N + 1
<1>. DEFINE First(i) == /\ i <= N => p.stages[i].status # "complete"
                        /\ \A j \in 1 .. i - 1 : p.stages[j].status = "complete"
<1>1. N \in Nat
  BY WorkerAssumption DEF WorkerAssumption
<1>2. k + 1 \in 1 .. N + 1 /\ (k + 1) - 1 = k
  BY <1>1
<1>3. First(k + 1)
  BY <1>1, <1>2 DEF IsPrefix, IsComplete
<1>4. \E i \in 1 .. N + 1 : First(i)
  BY <1>2, <1>3
<1>. QED  BY <1>4 DEF FirstIncomplete

\* Every invocation begins at such a stage.
LEMMA StartStage ==
  ASSUME FilesInv, RunFresh \/ RunFromStage \/ RunResume
  PROVE  \E start \in 1 .. N + 1 : \E resuming \in BOOLEAN : StartRun(start, resuming)
<1>1. N \in Nat \ {0}
  BY WorkerAssumption DEF WorkerAssumption
<1>2. CASE RunFresh
  <2>1. 1 \in 1 .. N + 1
    BY <1>1
  <2>. QED  BY <1>2, <2>1 DEF RunFresh
<1>3. CASE RunFromStage
  <2>1. PICK start \in Stages : StartRun(start, TRUE)
    BY <1>3 DEF RunFromStage
  <2>2. start \in 1 .. N + 1
    BY <1>1 DEF Stages
  <2>. QED  BY <2>1, <2>2
<1>4. CASE RunResume
  <2>1. latest \in States /\ Sound(latest, journal, passed, runs)
    BY <1>4, InvParts DEF RunResume, FilesInv, FilesType, SoundFiles
  <2>2. FirstIncomplete(latest) \in 1 .. N + 1
    BY <2>1, ResumeStage DEF Sound
  <2>. QED  BY <1>4, <2>2 DEF RunResume
<1>. QED  BY <1>2, <1>3, <1>4

-----------------------------------------------------------------------------
(* The steps *)

\* What is known of the files before a step.
LEMMA FilesParts ==
  ASSUME FilesInv
  PROVE  /\ PipelineInv /\ MemShape /\ HeardShape /\ SavedShape /\ SoundFiles
         /\ latest # None => latest \in States
         /\ runs \in Nat /\ idx \in Nat /\ idx \in 1 .. N + 1 /\ N \in Nat
         /\ ~Idle => /\ mem \in States /\ mem # None /\ mem.id = run
                     /\ Sound(mem, journal, passed, runs)
         /\ pc \in {"archive", "latest", "stage", "launch", "watch", "grace", "outcome",
                    "advance", "finish", "idle"}
<1>1. PipelineInv /\ MemShape /\ HeardShape /\ SavedShape /\ SoundFiles
  BY DEF FilesInv
<1>2. /\ runs \in Nat /\ N \in Nat /\ idx \in Nat /\ ControlType /\ ControlShape /\ FilesType
      /\ ~Idle => mem \in States
  BY <1>1, InvParts
<1>3. ~Idle => mem \in States /\ mem # None /\ mem.id = run /\ Sound(mem, journal, passed, runs)
  BY <1>1, <1>2 DEF ControlShape, SoundFiles
<1>4. latest # None => latest \in States
  BY <1>2 DEF FilesType
<1>5. idx \in 1 .. N + 1
  BY <1>2 DEF ControlType
<1>6. pc \in {"archive", "latest", "stage", "launch", "watch", "grace", "outcome",
              "advance", "finish", "idle"}
  BY <1>2 DEF ControlType
<1>. QED  BY <1>1, <1>2, <1>3, <1>4, <1>5, <1>6

LEMMA FilesInit == Init => FilesInv
<1>. SUFFICES ASSUME Init PROVE FilesInv
  OBVIOUS
<1>1. pc = "idle" /\ latest = None
  BY DEF Init
<1>2. MemShape /\ HeardShape /\ SavedShape /\ SoundFiles
  BY <1>1 DEF MemShape, HeardShape, SavedShape, SoundFiles
<1>. QED  BY <1>2, PipelineInit DEF FilesInv

LEMMA StartFiles ==
  ASSUME FilesInv, NEW start \in 1 .. N + 1, NEW resuming \in BOOLEAN,
         StartRun(start, resuming)
  PROVE  MemShape' /\ HeardShape' /\ SavedShape' /\ SoundFiles'
<1>. USE FilesParts
<1>. DEFINE q == InitialState(start)
<1>1. /\ mem' = q /\ runs' = runs + 1 /\ runs < MaxRuns /\ Idle
      /\ idx' = 1 /\ pc' = "archive" /\ next' = "stage"
      /\ resuming => MayStartAt(start)
      /\ ~resuming => start = 1
      /\ UNCHANGED <<config, latest, archive, journal, passed>>
  BY DEF StartRun
<1>2. /\ q \in States /\ q.id = runs + 1 /\ q.layout = config.layout
      /\ q.stages = [i \in Stages |-> IF i < start THEN latest.stages[i] ELSE Fresh(i)]
  BY <1>1, InitialStateType
<1>3. Sound(q, journal, passed, runs + 1)
  BY <1>1, SoundStart DEF SoundFiles
<1>4. \A i \in Stages : q.stages[i].print = config.print[i]
  <2>. SUFFICES ASSUME NEW i \in Stages PROVE q.stages[i].print = config.print[i]
    OBVIOUS
  <2>1. CASE i < start
    <3>1. resuming /\ i \in 1 .. start - 1
      BY <1>1, <2>1 DEF Stages
    <3>. QED  BY <1>1, <1>2, <2>1, <3>1 DEF MayStartAt
  <2>2. CASE ~(i < start)
    BY <1>2, <2>2 DEF Fresh
  <2>. QED  BY <2>1, <2>2
<1>. HIDE DEF q
<1>5. MemShape'
  BY <1>1, <1>2, <1>4 DEF MemShape, Begins, Saving, Stages
<1>6. HeardShape'
  BY <1>1 DEF HeardShape
<1>7. latest # None => Sound(latest, journal, passed, runs + 1) /\ latest.id \in Nat
                       /\ latest.id <= runs
  <2>. SUFFICES ASSUME latest # None
       PROVE  /\ Sound(latest, journal, passed, runs + 1)
              /\ latest.id \in Nat /\ latest.id <= runs
    OBVIOUS
  <2>1. latest \in States /\ Sound(latest, journal, passed, runs)
    BY DEF SoundFiles
  <2>2. runs + 1 \in Nat /\ runs <= runs + 1
    OBVIOUS
  <2>3. Sound(latest, journal, passed, runs + 1)
    BY <2>1, <2>2, SoundGrows
  <2>4. latest.id \in Nat /\ latest.id <= runs
    BY <2>1, StateFields, RunsInNat DEF Sound
  <2>. QED  BY <2>3, <2>4
<1>8. SavedShape'
  BY <1>1, <1>2, <1>7 DEF SavedShape, Ahead
<1>9. SoundFiles'
  BY <1>1, <1>3, <1>7 DEF SoundFiles
<1>. QED  BY <1>5, <1>6, <1>8, <1>9

LEMMA OutsideFiles ==
  ASSUME FilesInv, EditConfig \/ SendSignal \/ Finish \/ ControllerDies
  PROVE  MemShape' /\ HeardShape' /\ SavedShape' /\ SoundFiles'
<1>. USE FilesParts
<1>1. UNCHANGED <<latest, archive, journal, passed, runs>>
  BY DEF EditConfig, SendSignal, Finish, ControllerDies, Forgets
<1>2. CASE SendSignal
  <2>1. UNCHANGED <<config, pc, next, mem, idx, outcome, pipe, told>>
    BY <1>2 DEF SendSignal
  <2>. QED  BY <1>1, <2>1 DEF MemShape, HeardShape, SavedShape, SoundFiles, Begins, Saving,
                              PassedHere
<1>3. CASE EditConfig \/ Finish \/ ControllerDies
  <2>1. pc' = "idle"
    BY <1>3 DEF EditConfig, Finish, ControllerDies, Forgets
  <2>. QED  BY <1>1, <2>1 DEF MemShape, HeardShape, SavedShape, SoundFiles
<1>. QED  BY <1>2, <1>3

LEMMA SavesFiles ==
  ASSUME FilesInv, SaveArchive \/ SaveLatest
  PROVE  MemShape' /\ HeardShape' /\ SavedShape' /\ SoundFiles'
<1>. USE FilesParts
<1>1. /\ Saving /\ ~Idle /\ UNCHANGED <<config, passed, journal, next, mem, idx, outcome, runs>>
      /\ next \in {"stage", "launch", "finish"}
  BY InvParts DEF SaveArchive, SaveLatest, Control, Saving, ControlType
<1>2. \/ pc = "archive" /\ archive' = mem /\ latest' = latest /\ pc' = "latest"
      \/ pc = "latest" /\ latest' = mem /\ archive' = archive /\ pc' = next
  BY DEF SaveArchive, SaveLatest, Control
<1>3. MemShape'
  BY <1>1, <1>2 DEF MemShape, Begins, Saving
<1>4. HeardShape'
  BY <1>1, <1>2 DEF HeardShape
<1>5. mem.id \in Nat
  BY <1>1, StateFields, RunsInNat
<1>6. SavedShape' /\ SoundFiles'
  <2>1. CASE pc = "archive" /\ archive' = mem /\ latest' = latest /\ pc' = "latest"
    BY <1>1, <2>1 DEF SavedShape, SoundFiles
  <2>2. CASE pc = "latest" /\ latest' = mem /\ archive' = archive /\ pc' = next
    BY <1>1, <1>5, <2>2 DEF SavedShape, SoundFiles, Ahead
  <2>. QED  BY <1>2, <2>1, <2>2
<1>. QED  BY <1>3, <1>4, <1>6

\* A step that leaves the files and the run in memory alone.
LEMMA SameFiles ==
  ASSUME FilesInv, ~Idle, UNCHANGED <<fileVars, passed, config, mem, runs>>,
         pc' \notin {"idle", "latest"},
         pc' \in {"stage", "launch", "watch", "grace", "outcome", "finish"} => latest = mem,
         MemShape', HeardShape'
  PROVE  MemShape' /\ HeardShape' /\ SavedShape' /\ SoundFiles'
<1>. USE FilesParts
<1>1. SavedShape'
  BY DEF SavedShape
<1>2. SoundFiles'
  BY DEF SoundFiles
<1>. QED  BY <1>1, <1>2

LEMMA MovesFiles ==
  ASSUME FilesInv, StageReused \/ StageAdvances
  PROVE  MemShape' /\ HeardShape' /\ SavedShape' /\ SoundFiles'
<1>. USE FilesParts
<1>1. /\ ~Idle /\ UNCHANGED <<fileVars, passed, config, mem, runs>> /\ idx' = idx + 1
      /\ pc \in {"stage", "advance"} /\ pc' \in {"stage", "archive"}
      /\ pc' = "stage" => pc = "stage"
      /\ pc' = "archive" => next' = "stage"
      /\ IsComplete(mem, idx)
  BY DEF StageReused, StageAdvances, Control, IsComplete, MemShape
<1>2. MemShape'
  <2>1. ASSUME NEW i \in Stages, i < idx + 1
        PROVE  IsComplete(mem, i)
    BY <1>1, <2>1 DEF MemShape, Stages
  <2>. QED  BY <1>1, <2>1 DEF MemShape, Begins, Saving, IsComplete
<1>3. HeardShape'
  BY <1>1 DEF HeardShape
<1>. QED  BY <1>1, <1>2, <1>3, SameFiles DEF SavedShape

\* The parent and its worker: a zero is what was in the pipe, or has been read.
LEMMA StageFiles ==
  ASSUME FilesInv,
         \/ StageRefused \/ StageLaunched \/ StageSignal \/ StageDeadline
         \/ StageWorkerFails \/ StageWorkerEnds \/ StageReaped
  PROVE  MemShape' /\ HeardShape' /\ SavedShape' /\ SoundFiles'
<1>. USE FilesParts
<1>1. /\ ~Idle /\ UNCHANGED <<fileVars, passed, config, mem, runs, idx>>
      /\ pc \in {"launch", "watch", "grace"} /\ pc' \in {"watch", "grace", "outcome"}
  BY DEF StageRefused, StageLaunched, StageSignal, StageDeadline, StageWorkerFails,
         StageWorkerEnds, StageReaped, Watching, Control
<1>2. MemShape'
  BY <1>1 DEF MemShape, Begins, Saving, IsComplete
<1>3. None # 0 /\ NoMessage.result = None
  BY WorkerAssumption, NoneTypes DEF WorkerAssumption
<1>4. PassedHere' <=> PassedHere
  BY <1>1 DEF PassedHere
<1>5. HeardShape'
  <2>1. CASE StageRefused
    BY <2>1 DEF StageRefused, Control, HeardShape
  <2>2. CASE StageLaunched
    BY <1>3, <2>2 DEF StageLaunched, StartWorker, Control, HeardShape
  <2>3. CASE StageSignal \/ StageDeadline
    <3>1. PICK code \in {124, 143} : ForceEnd(run, code)
      BY <2>3 DEF StageSignal, StageDeadline, WatchSignal, WatchDeadline
    <3>2. code \in Codes \cup {None} /\ code # None
      BY WorkerAssumption DEF WorkerAssumption, Codes
    <3>3. told'.result = code /\ pipe' = NoMessage /\ code # 0
      BY <3>1, <3>2, DrainedType, InvParts DEF ForceEnd
    <3>4. pc' = "grace"
      BY <2>3 DEF StageSignal, StageDeadline, Watching, Control
    <3>. QED  BY <1>3, <3>3, <3>4 DEF HeardShape
  <2>4. CASE StageWorkerFails \/ StageWorkerEnds
    <3>1. /\ pc = "watch" /\ WatchEnds(run)
          /\ pc' = "outcome" => outcome' = told'.result
          /\ pc' \in {"grace", "outcome"}
      BY <2>4 DEF StageWorkerFails, StageWorkerEnds, Watching, Control
    <3>2. pipe' = NoMessage /\ (told'.result = 0 => pipe.result = 0 \/ told.result = 0)
      <4>. DEFINE d == Drained(None)
      <4>1. d \in Messages
        BY DrainedType, InvParts
      <4>2. d.result = 0 => pipe.result = 0 \/ told.result = 0
        BY DEF Drained
      <4>3. /\ pipe' = NoMessage
            /\ told' = IF d.result = None THEN [d EXCEPT !.result = 1, !.crash = TRUE] ELSE d
        BY <3>1 DEF WatchEnds
      <4>. HIDE DEF d
      <4>. QED  BY <4>1, <4>2, <4>3 DEF Messages
    <3>. QED  BY <1>3, <1>4, <3>1, <3>2 DEF HeardShape
  <2>5. CASE StageReaped
    <3>1. /\ pc = "grace" /\ pc' = "outcome" /\ outcome' = told'.result
          /\ told' = Drained(told.result)
      BY <2>5 DEF StageReaped, Control, Reap
    <3>2. told.result # None /\ told.result \in Codes \cup {None}
      BY <3>1, InvParts DEF ToldShape, WorkersType, Messages
    <3>3. told'.result = told.result
      BY <3>1, <3>2, DrainedType, InvParts
    <3>. QED  BY <1>4, <3>1, <3>3 DEF HeardShape
  <2>. QED  BY <2>1, <2>2, <2>3, <2>4, <2>5
<1>. QED  BY <1>1, <1>2, <1>5, SameFiles DEF SavedShape

\* A step that changes the run in memory and no stage that is complete.
LEMMA MemFiles ==
  ASSUME FilesInv, ~Idle, latest = mem, NEW q \in States, mem' = q,
         UNCHANGED <<fileVars, passed, config, runs, idx>>,
         pc' = "archive", next' \in {"launch", "finish"},
         q.id = mem.id, q.layout = mem.layout,
         \A i \in Stages : /\ q.stages[i].print = mem.stages[i].print
                           /\ q.stages[i].evidence <= run
                           /\ IsComplete(q, i) <=> IsComplete(mem, i)
                           /\ IsComplete(mem, i) => q.stages[i] = mem.stages[i],
         next' = "launch" => idx \in Stages /\ ~IsComplete(mem, idx)
                             /\ q.stages[idx].evidence = run
  PROVE  MemShape' /\ HeardShape' /\ SavedShape' /\ SoundFiles'
<1>. USE FilesParts
<1>1. MemShape'
  BY DEF MemShape, Begins, Saving, IsComplete
<1>2. HeardShape'
  BY DEF HeardShape
<1>3. SavedShape'
  BY DEF SavedShape, Ahead, IsComplete
<1>4. Sound(q, journal, passed, runs)
  BY SoundKept
<1>5. SoundFiles'
  BY <1>4 DEF SoundFiles
<1>. QED  BY <1>1, <1>2, <1>3, <1>5

LEMMA BeginsFiles ==
  ASSUME FilesInv, StageBegins
  PROVE  MemShape' /\ HeardShape' /\ SavedShape' /\ SoundFiles'
<1>. USE FilesParts
<1>. DEFINE q == Begun(mem, idx, run)
<1>1. /\ pc = "stage" /\ pc' = "archive" /\ next' = "launch" /\ ~Idle /\ idx \in Stages
      /\ mem' = q /\ UNCHANGED <<fileVars, passed, config, runs, idx>>
      /\ ~IsComplete(mem, idx) /\ run \in 0 .. MaxRuns
  BY InvParts DEF StageBegins, Control, Stages, Begun, IsComplete, ControlType
<1>2. latest = mem
  BY <1>1 DEF SavedShape
<1>3. /\ q \in States /\ q.id = mem.id /\ q.layout = mem.layout
      /\ q.stages[idx].status = "running" /\ q.stages[idx].print = mem.stages[idx].print
      /\ q.stages[idx].evidence = run
      /\ \A j \in Stages : j # idx => q.stages[j] = mem.stages[j]
  BY <1>1, BegunFields
<1>. HIDE DEF q
<1>4. \A i \in Stages : /\ q.stages[i].print = mem.stages[i].print
                        /\ q.stages[i].evidence <= run
                        /\ IsComplete(q, i) <=> IsComplete(mem, i)
                        /\ IsComplete(mem, i) => q.stages[i] = mem.stages[i]
  BY <1>1, <1>3 DEF Sound, IsComplete
<1>. QED  BY <1>1, <1>2, <1>3, <1>4, MemFiles

LEMMA DoneFiles ==
  ASSUME FilesInv, AllStagesDone
  PROVE  MemShape' /\ HeardShape' /\ SavedShape' /\ SoundFiles'
<1>. USE FilesParts
<1>. DEFINE q == [mem EXCEPT !.status = "complete"]
<1>1. /\ pc = "stage" /\ pc' = "archive" /\ next' = "finish" /\ ~Idle
      /\ mem' = q /\ UNCHANGED <<fileVars, passed, config, runs, idx>>
  BY DEF AllStagesDone, Control
<1>2. latest = mem
  BY <1>1 DEF SavedShape
<1>3. q \in States /\ q.id = mem.id /\ q.layout = mem.layout /\ q.stages = mem.stages
  BY <1>1 DEF States
<1>. HIDE DEF q
<1>4. \A i \in Stages : /\ q.stages[i].print = mem.stages[i].print
                        /\ q.stages[i].evidence <= run
                        /\ IsComplete(q, i) <=> IsComplete(mem, i)
                        /\ IsComplete(mem, i) => q.stages[i] = mem.stages[i]
  BY <1>1, <1>3 DEF Sound, IsComplete
<1>. QED  BY <1>1, <1>2, <1>3, <1>4, MemFiles

\* The result of a stage: the first that is not complete is, or nothing more is.
LEMMA EndsFiles ==
  ASSUME FilesInv, StageEnds
  PROVE  MemShape' /\ HeardShape' /\ SavedShape' /\ SoundFiles'
<1>. USE FilesParts
<1>1. /\ pc = "outcome" /\ ~Idle /\ idx \in Stages /\ run \in Runs
      /\ UNCHANGED <<latest, archive, passed, config, runs, idx>>
  BY InvParts DEF StageEnds, Control, ControlShape, Stages
<1>2. /\ latest = mem /\ ~IsComplete(mem, idx) /\ mem.stages[idx].evidence = run
      /\ \A i \in Stages : i < idx => IsComplete(mem, i)
      /\ mem.layout = config.layout /\ mem.stages[idx].print = config.print[idx]
  BY <1>1 DEF SavedShape, MemShape, Begins
<1>3. CASE outcome = 0
  <2>. DEFINE q == Marked(mem, idx, "complete")
              j == journal \cup {[run |-> run, stage |-> idx]}
  <2>1. mem' = q /\ journal' = j /\ pc' = "advance"
    BY <1>3 DEF StageEnds, Log, Control, Marked
  <2>2. /\ q \in States /\ q.id = mem.id /\ q.layout = mem.layout
        /\ q.stages[idx].status = "complete" /\ q.stages[idx].print = mem.stages[idx].print
        /\ \A i \in Stages : i # idx => q.stages[i] = mem.stages[i]
    <3>1. "complete" \in Statuses
      BY DEF Statuses
    <3>. QED  BY <1>1, <3>1, MarkedFields
  <2>3. Event(mem, idx) \in j /\ Report(mem, idx) \in passed
    BY <1>1, <1>2, <1>3 DEF HeardShape, PassedHere, Event, Report
  <2>4. Sound(mem, j, passed, runs)
    BY <1>1, SoundGrows
  <2>5. Sound(q, j, passed, runs)
    BY <1>1, <1>2, <2>3, <2>4, SoundMarked
  <2>. HIDE DEF q, j
  <2>6. MemShape'
    <3>1. \A i \in Stages : q.stages[i].print = config.print[i]
      BY <1>1, <2>2 DEF MemShape
    <3>2. \A i \in Stages : i < idx => IsComplete(q, i)
      BY <1>1, <1>2, <2>2 DEF IsComplete
    <3>. QED  BY <1>1, <1>2, <2>1, <2>2, <3>1, <3>2 DEF MemShape, Begins, Saving, IsComplete
  <2>7. HeardShape'
    BY <2>1 DEF HeardShape
  <2>8. SavedShape'
    <3>1. \A i \in Stages : IsComplete(mem, i) => IsComplete(q, i)
      BY <1>2, <2>2 DEF IsComplete
    <3>2. mem.id \in Nat
      BY <1>1, StateFields, RunsInNat
    <3>. QED  BY <1>1, <1>2, <2>1, <2>2, <3>1, <3>2 DEF SavedShape, Ahead
  <2>9. SoundFiles'
    BY <1>1, <1>2, <2>1, <2>4, <2>5 DEF SoundFiles
  <2>. QED  BY <2>6, <2>7, <2>8, <2>9
<1>4. CASE outcome # 0
  <2>. DEFINE q == Failed(mem, idx)
  <2>1. mem' = q /\ journal' = journal /\ pc' = "archive" /\ next' = "finish"
    BY <1>4 DEF StageEnds, Control, Failed
  <2>2. /\ q \in States /\ q.id = mem.id /\ q.layout = mem.layout
        /\ \A i \in Stages : /\ q.stages[i].print = mem.stages[i].print
                             /\ q.stages[i].evidence = mem.stages[i].evidence
                             /\ i < idx => q.stages[i] = mem.stages[i]
                             /\ i >= idx => q.stages[i].status \in {"failed", "skipped"}
    BY <1>1, FailedFields
  <2>. HIDE DEF q
  <2>3. \A i \in Stages : i >= idx => ~IsComplete(mem, i)
    <3>. SUFFICES ASSUME NEW i \in Stages, i >= idx, IsComplete(mem, i) PROVE FALSE
      OBVIOUS
    <3>1. i # idx /\ idx < i
      BY <1>2 DEF Stages
    <3>. QED  BY <1>1, <1>2, <3>1 DEF Sound
  <2>4. \A i \in Stages : /\ q.stages[i].print = mem.stages[i].print
                          /\ q.stages[i].evidence <= run
                          /\ IsComplete(q, i) <=> IsComplete(mem, i)
                          /\ IsComplete(mem, i) => q.stages[i] = mem.stages[i]
    <3>. SUFFICES ASSUME NEW i \in Stages
         PROVE  /\ q.stages[i].evidence <= run
                /\ IsComplete(q, i) <=> IsComplete(mem, i)
                /\ IsComplete(mem, i) => q.stages[i] = mem.stages[i]
      BY <2>2
    <3>1. q.stages[i].evidence <= run
      BY <1>1, <2>2 DEF Sound
    <3>2. CASE i < idx
      BY <2>2, <3>1, <3>2 DEF IsComplete
    <3>3. CASE i >= idx
      BY <2>2, <2>3, <3>1, <3>3 DEF IsComplete
    <3>. QED  BY <3>2, <3>3 DEF Stages
  <2>. QED  BY <1>1, <1>2, <2>1, <2>2, <2>4, MemFiles
<1>. QED  BY <1>3, <1>4

\* A new zero in the pipe is the report of the worker of the stage.
LEMMA ZeroIsReported ==
  ASSUME FilesInv, NEW r \in Runs, WorkerStep(r), pc \in {"watch", "grace"},
         pipe'.result = 0, pipe.result # 0,
         UNCHANGED <<config, edits, fileVars, controlVars, killed>>
  PROVE  PassedHere'
<1>. USE FilesParts
<1>1. pipe \in Messages /\ pipe' \in Messages
  <2>1. WorkerFrame(r)
    BY WorkerFramed
  <2>. QED  BY <2>1, InvParts DEF WorkerFrame, WorkerSays, WorkersType
<1>2. PICK code \in {0, 1, 143} : Reports(r, code)
  <2>1. CASE WorkerReserves(r, Watched(r)) \/ WorkerTells(r, Watched(r))
    <3>1. \/ pipe' = pipe
          \/ pipe' = [pipe EXCEPT !.child = worker[r].launches + 1]
          \/ pipe' = [pipe EXCEPT !.child = worker[r].child]
      BY <2>1 DEF WorkerReserves, WorkerTells
    <3>2. pipe'.result = pipe.result
      <4>1. CASE pipe' = pipe
        BY <4>1
      <4>2. CASE pipe' = [pipe EXCEPT !.child = worker[r].launches + 1]
        BY <1>1, <4>2 DEF Messages
      <4>3. CASE pipe' = [pipe EXCEPT !.child = worker[r].child]
        BY <1>1, <4>3 DEF Messages
      <4>. QED  BY <3>1, <4>1, <4>2, <4>3
    <3>. QED  BY <3>2
  <2>2. CASE WorkerRaises(r, Watched(r))
    <3>1. pipe' = pipe \/ pipe' = [pipe EXCEPT !.result = 1, !.crash = TRUE]
      BY <2>2 DEF WorkerRaises
    <3>2. pipe' = [pipe EXCEPT !.result = 1, !.crash = TRUE] => pipe'.result = 1
      BY <1>1 DEF Messages
    <3>. QED  BY <3>1, <3>2
  <2>3. ~(\/ WorkerReady(r, Watched(r)) \/ WorkerSpawns(r) \/ WorkloadEnds(r) \/ WorkerSaves(r)
          \/ WorkerExits(r, Watched(r)) \/ WorkerDies(r, Watched(r)))
    BY DEF WorkerReady, WorkerSpawns, WorkloadEnds, WorkerSaves, WorkerExits, WorkerDies
  <2>. QED  BY <2>1, <2>2, <2>3 DEF WorkerStep
<1>3. Watched(r) /\ code = 0 /\ r = run
  BY <1>1, <1>2 DEF Reports, WorkerFinishes, Messages, Watched
<1>4. [layout |-> mem.layout, run |-> r, stage |-> worker[r].stage,
       print |-> mem.stages[worker[r].stage].print] \in passed'
  BY <1>2, <1>3 DEF Reports
<1>5. worker[r].stage = idx /\ idx \in Stages
  BY <1>3, InvParts DEF ControlShape, Stages
<1>6. mem.layout = config.layout /\ mem.stages[idx].print = config.print[idx]
  BY <1>3, <1>5 DEF MemShape, Watched
<1>. QED  BY <1>3, <1>4, <1>5, <1>6 DEF PassedHere

LEMMA WorkerFiles ==
  ASSUME FilesInv, NEW r \in Runs, WorkerStep(r),
         UNCHANGED <<config, edits, fileVars, controlVars, killed>>
  PROVE  MemShape' /\ HeardShape' /\ SavedShape' /\ SoundFiles'
<1>. USE FilesParts
<1>1. passed \subseteq passed' /\ told' = told
  BY WorkerFramed DEF WorkerFrame, WorkerSays
<1>2. MemShape' /\ SavedShape'
  BY DEF MemShape, SavedShape, Begins, Saving
<1>3. PassedHere => PassedHere'
  BY <1>1 DEF PassedHere
<1>4. HeardShape'
  BY <1>1, <1>3, ZeroIsReported DEF HeardShape
<1>5. SoundFiles'
  <2>1. latest # None => Sound(latest, journal, passed', runs)
    BY <1>1, SoundGrows DEF SoundFiles
  <2>2. ~Idle => Sound(mem, journal, passed', runs)
    BY <1>1, SoundGrows
  <2>. QED  BY <2>1, <2>2 DEF SoundFiles
<1>. QED  BY <1>2, <1>4, <1>5

LEMMA FilesStep == FilesInv /\ [Next]_vars => FilesInv'
<1>. SUFFICES ASSUME FilesInv, [Next]_vars
     PROVE  MemShape' /\ HeardShape' /\ SavedShape' /\ SoundFiles'
  BY PipelineStep DEF FilesInv
<1>1. CASE RunFresh \/ RunFromStage \/ RunResume
  BY <1>1, StartStage, StartFiles
<1>2. CASE EditConfig \/ SendSignal \/ ControllerDies
  BY <1>2, OutsideFiles
<1>3. CASE Controller
  BY <1>3, SavesFiles, MovesFiles, BeginsFiles, StageFiles, EndsFiles, DoneFiles, OutsideFiles
  DEF Controller
<1>4. CASE \E r \in Runs :
             WorkerStep(r) /\ UNCHANGED <<config, edits, fileVars, controlVars, killed>>
  BY <1>4, WorkerFiles
<1>5. CASE UNCHANGED vars
  BY <1>5 DEF FilesInv, MemShape, HeardShape, SavedShape, SoundFiles, Begins, Saving, PassedHere
<1>. QED  BY <1>1, <1>2, <1>3, <1>4, <1>5 DEF Next

-----------------------------------------------------------------------------
(* The theorems *)

\* What the archive, the pointer, the journal and the memory of the controller hold
\* agrees at every step, a kill between two writes of _save_pipeline included.
THEOREM FilesInvariant == Spec => []FilesInv
<1>. QED  BY FilesInit, FilesStep, PTL DEF Spec

\* A stage taken for complete was heard to end with 0, under the layout and the
\* fingerprint it is recorded with, and in memory under the configuration loaded
\* (_initialize_pipeline_state, _run).
THEOREM CompletionIsVerified == Spec => []CompletionVerified
<1>1. FilesInv => CompletionVerified
  <2>. SUFFICES ASSUME FilesInv, NEW i \in Stages
       PROVE  /\ Complete(latest, i) => Verified(latest, latest.layout, latest.stages[i].print, i)
              /\ Complete(mem, i) => Verified(mem, config.layout, config.print[i], i)
    BY DEF CompletionVerified
  <2>1. Complete(latest, i) => Verified(latest, latest.layout, latest.stages[i].print, i)
    BY FilesParts DEF Complete, SoundFiles, Sound, IsComplete, Report, Verified
  <2>2. ASSUME Complete(mem, i)
        PROVE  Verified(mem, config.layout, config.print[i], i)
    <3>1. ~Idle
      BY <2>2, FilesParts, InvParts DEF Complete, ControlShape
    <3>2. mem.layout = config.layout /\ mem.stages[i].print = config.print[i]
      BY <3>1, FilesParts DEF MemShape
    <3>3. Report(mem, i) \in passed
      BY <2>2, <3>1, FilesParts DEF Complete, Sound, IsComplete
    <3>. QED  BY <3>2, <3>3 DEF Report, Verified
  <2>. QED  BY <2>1, <2>2
<1>. QED  BY <1>1, FilesInvariant, PTL

\* The complete stages of the pointer are a prefix, of runs that do not go back: what a
\* resume keeps (_initialize_pipeline_state) never lies on top of a stage run again.
THEOREM EvidenceStaysInOrder == Spec => []EvidenceInOrder
<1>1. FilesInv => EvidenceInOrder
  BY FilesParts DEF EvidenceInOrder, Complete, SoundFiles, Sound, IsComplete
<1>. QED  BY <1>1, FilesInvariant, PTL

\* What the pointer calls complete is in the journal of its run and in the archive,
\* wherever the controller is killed (_save_pipeline, the journal's fsync).
THEOREM EvidenceComesFirst == Spec => []EvidenceBeforePointer
<1>1. FilesInv => EvidenceBeforePointer
  BY FilesParts
  DEF EvidenceBeforePointer, Complete, SoundFiles, Sound, IsComplete, Event, SavedShape, Ahead
<1>. QED  BY <1>1, FilesInvariant, PTL

-----------------------------------------------------------------------------
(* The pipeline implements Checkpoint *)

\* How many stages the running invocation has behind it.
Behind == IF Idle THEN Prefix(latest) ELSE Prefix(mem)

-----------------------------------------------------------------------------
(* The prefix of a sound state *)

LEMMA PrefixIs ==
  ASSUME NEW p \in States, NEW k \in 0 .. N, IsPrefix(p, k)
  PROVE  Prefix(p) = k
<1>. DEFINE P(l) == /\ \A i \in 1 .. l : p.stages[i].status = "complete"
                    /\ l < N => p.stages[l + 1].status # "complete"
<1>1. N \in Nat
  BY WorkerAssumption DEF WorkerAssumption
<1>2. P(k)
  BY DEF IsPrefix, IsComplete
<1>3. \A l \in 0 .. N : P(l) => l = k
  <2>. SUFFICES ASSUME NEW l \in 0 .. N, P(l), l # k PROVE FALSE
    OBVIOUS
  <2>1. CASE l < k
    <3>1. l + 1 \in 1 .. k /\ l < N
      BY <1>1, <2>1
    <3>. QED  BY <1>2, <3>1
  <2>2. CASE k < l
    <3>1. k + 1 \in 1 .. l /\ k < N
      BY <1>1, <2>2
    <3>. QED  BY <1>2, <3>1
  <2>. QED  BY <1>1, <2>1, <2>2
<1>4. p # None
  BY NoneAssumption DEF NoneAssumption
<1>5. Prefix(p) = CHOOSE l \in 0 .. N : P(l)
  BY <1>4 DEF Prefix
<1>. HIDE DEF P
<1>. QED  BY <1>2, <1>3, <1>5

\* The stage a run is at is the first that is not behind it.
LEMMA PrefixBefore ==
  ASSUME NEW p \in States, NEW i \in Stages, ~IsComplete(p, i),
         \A k \in Stages : k < i => IsComplete(p, k)
  PROVE  Prefix(p) = i - 1
<1>1. N \in Nat /\ i \in 1 .. N
  BY WorkerAssumption DEF WorkerAssumption, Stages
<1>2. i - 1 \in 0 .. N /\ IsPrefix(p, i - 1)
  BY <1>1 DEF IsPrefix, Stages
<1>. QED  BY <1>2, PrefixIs

LEMMA PrefixSame ==
  ASSUME NEW p \in States, NEW q \in States, NEW k \in 0 .. N, IsPrefix(p, k),
         \A i \in Stages : IsComplete(q, i) <=> IsComplete(p, i)
  PROVE  Prefix(q) = Prefix(p)
<1>1. IsPrefix(q, k)
  BY WorkerAssumption DEF WorkerAssumption, IsPrefix, Stages
<1>. QED  BY <1>1, PrefixIs

\* What is known of both prefixes before a step.
LEMMA PrefixFacts ==
  ASSUME FilesInv
  PROVE  /\ Prefix(latest) \in 0 .. N
         /\ latest # None => IsPrefix(latest, Prefix(latest))
         /\ ~Idle => Prefix(mem) \in 0 .. N /\ IsPrefix(mem, Prefix(mem))
<1>. USE FilesParts
<1>1. ASSUME latest # None
      PROVE  Prefix(latest) \in 0 .. N /\ IsPrefix(latest, Prefix(latest))
  <2>1. PICK k \in 0 .. N : IsPrefix(latest, k)
    BY <1>1 DEF SoundFiles, Sound
  <2>. QED  BY <1>1, <2>1, PrefixIs
<1>2. latest = None => Prefix(latest) \in 0 .. N
  BY DEF Prefix
<1>3. ASSUME ~Idle
      PROVE  Prefix(mem) \in 0 .. N /\ IsPrefix(mem, Prefix(mem))
  <2>1. PICK k \in 0 .. N : IsPrefix(mem, k)
    BY <1>3 DEF Sound
  <2>. QED  BY <1>3, <2>1, PrefixIs
<1>. QED  BY <1>1, <1>2, <1>3

-----------------------------------------------------------------------------
(* The steps *)

\* What Checkpoint may do, under the mapping.
Mapped ==
  \/ \E k \in 0 .. Prefix(latest) :
       Behind = Prefix(latest) /\ Behind' = k /\ Prefix(latest)' = Prefix(latest)
  \/ /\ Behind = Prefix(latest) /\ Behind < N
     /\ Behind' = Behind + 1 /\ Prefix(latest)' = Prefix(latest)
  \/ Prefix(latest)' = Behind /\ Behind' = Behind
  \/ Behind' = Prefix(latest) /\ Prefix(latest)' = Prefix(latest)
  \/ Behind' = Behind /\ Prefix(latest)' = Prefix(latest)

\* An invocation goes on from a part of what is recorded.
LEMMA StartMapped ==
  ASSUME FilesInv, NEW start \in 1 .. N + 1, NEW resuming \in BOOLEAN,
         StartRun(start, resuming)
  PROVE  Mapped
<1>. USE FilesParts
<1>. DEFINE q == InitialState(start)
<1>1. /\ mem' = q /\ latest' = latest /\ Idle /\ pc' = "archive" /\ runs < MaxRuns
      /\ resuming => MayStartAt(start)
      /\ ~resuming => start = 1
  BY DEF StartRun
<1>2. q \in States
  BY <1>1, InitialStateType
<1>3. IsPrefix(q, start - 1)
  BY <1>1, SoundStart DEF SoundFiles
<1>. HIDE DEF q
<1>4. start - 1 \in 0 .. N
  OBVIOUS
<1>5. Prefix(mem') = start - 1
  BY <1>1, <1>2, <1>3, <1>4, PrefixIs
<1>6. start - 1 \in 0 .. Prefix(latest)
  <2>1. CASE start = 1
    BY <2>1, PrefixFacts
  <2>2. CASE start # 1
    <3>1. latest # None /\ \A i \in 1 .. start - 1 : IsComplete(latest, i)
      BY <1>1, <2>2 DEF MayStartAt, IsComplete
    <3>2. Prefix(latest) \in 0 .. N /\ IsPrefix(latest, Prefix(latest))
      BY <3>1, PrefixFacts
    <3>. QED  BY <1>4, <3>1, <3>2 DEF IsPrefix
  <2>. QED  BY <2>1, <2>2
<1>7. Behind = Prefix(latest) /\ Behind' = start - 1 /\ Prefix(latest)' = Prefix(latest)
  BY <1>1, <1>5 DEF Behind, Prefix
<1>. QED  BY <1>6, <1>7 DEF Mapped

\* A step that changes neither the pointer nor the run in memory.
LEMMA StillMapped ==
  ASSUME UNCHANGED <<latest, mem>>, Idle' <=> Idle
  PROVE  Mapped
BY DEF Mapped, Behind, Prefix

\* The end of an invocation, by _finish or by a kill.
LEMMA LoseMapped ==
  ASSUME Finish \/ ControllerDies
  PROVE  Mapped
<1>1. pc' = "idle" /\ latest' = latest
  BY DEF Finish, ControllerDies, Forgets
<1>2. Prefix(latest)' = Prefix(latest) /\ Behind' = Prefix(latest)
  BY <1>1 DEF Behind, Prefix
<1>. QED  BY <1>2 DEF Mapped

LEMMA SavesMapped ==
  ASSUME FilesInv, SaveArchive \/ SaveLatest
  PROVE  Mapped
<1>. USE FilesParts
<1>1. CASE SaveArchive
  <2>1. UNCHANGED <<latest, mem>> /\ ~Idle /\ ~Idle'
    BY <1>1 DEF SaveArchive, Control
  <2>. QED  BY <2>1, StillMapped
<1>2. CASE SaveLatest
  <2>1. latest' = mem /\ mem' = mem /\ ~Idle /\ ~Idle'
    BY <1>2, InvParts DEF SaveLatest, Control, ControlType
  <2>2. Prefix(latest)' = Prefix(mem) /\ Behind = Prefix(mem) /\ Behind' = Prefix(mem)
    BY <2>1 DEF Behind, Prefix
  <2>. QED  BY <2>2 DEF Mapped
<1>. QED  BY <1>1, <1>2

\* A stage that begins, and a run whose stages are all behind, finish none.
LEMMA BeginsMapped ==
  ASSUME FilesInv, FilesInv', StageBegins \/ AllStagesDone
  PROVE  Mapped
<1>. USE FilesParts
<1>1. /\ ~Idle /\ ~Idle' /\ latest' = latest /\ mem' \in States
  <2>1. ~Idle /\ ~Idle' /\ latest' = latest
    BY DEF StageBegins, AllStagesDone, Control
  <2>2. mem' \in States
    BY <2>1, InvParts DEF FilesInv, PipelineInv, TypeOK, ControlType, ControlShape
  <2>. QED  BY <2>1, <2>2
<1>2. Prefix(mem') = Prefix(mem)
  <2>1. CASE StageBegins
    <3>1. idx \in Stages /\ ~IsComplete(mem, idx) /\ idx' = idx
          /\ pc' = "archive" /\ next' = "launch"
      BY <2>1 DEF StageBegins, Control, Stages, IsComplete
    <3>2. Prefix(mem) = idx - 1
      BY <1>1, <3>1, PrefixBefore DEF MemShape
    <3>3. ~IsComplete(mem', idx) /\ \A k \in Stages : k < idx => IsComplete(mem', k)
      BY <1>1, <3>1 DEF FilesInv, MemShape, Begins, Saving, IsComplete
    <3>. QED  BY <1>1, <3>1, <3>2, <3>3, PrefixBefore
  <2>2. CASE AllStagesDone
    <3>1. mem' = [mem EXCEPT !.status = "complete"]
      BY <2>2 DEF AllStagesDone
    <3>2. mem'.stages = mem.stages
      BY <1>1, <3>1 DEF States
    <3>. QED  BY <1>1, <3>2, PrefixSame, PrefixFacts DEF IsComplete
  <2>. QED  BY <2>1, <2>2
<1>3. Prefix(latest)' = Prefix(latest) /\ Behind' = Behind
  BY <1>1, <1>2 DEF Behind, Prefix
<1>. QED  BY <1>3 DEF Mapped

\* One stage more is behind when the outcome is 0, and none when it is not.
LEMMA EndsMapped ==
  ASSUME FilesInv, FilesInv', StageEnds
  PROVE  Mapped
<1>. USE FilesParts
<1>1. /\ pc = "outcome" /\ ~Idle /\ ~Idle' /\ idx \in Stages /\ latest' = latest /\ idx' = idx
      /\ latest = mem /\ ~IsComplete(mem, idx)
      /\ \A k \in Stages : k < idx => IsComplete(mem, k)
  <2>1. pc = "outcome" /\ ~Idle /\ ~Idle' /\ idx \in Stages /\ latest' = latest /\ idx' = idx
    BY InvParts DEF StageEnds, Control, ControlShape, Stages
  <2>. QED  BY <2>1 DEF SavedShape, MemShape, Begins
<1>2. Prefix(mem) = idx - 1
  BY <1>1, PrefixBefore
<1>3. Behind = Prefix(latest) /\ Behind = idx - 1 /\ Behind' = Prefix(mem')
      /\ Prefix(latest)' = Prefix(latest)
  BY <1>1, <1>2 DEF Behind, Prefix
<1>4. CASE outcome = 0
  <2>. DEFINE q == Marked(mem, idx, "complete")
  <2>1. mem' = q
    BY <1>4 DEF StageEnds, Marked
  <2>2. /\ q \in States /\ IsComplete(q, idx)
        /\ \A k \in Stages : k # idx => q.stages[k] = mem.stages[k]
    <3>1. "complete" \in Statuses
      BY DEF Statuses
    <3>. QED  BY <1>1, <3>1, MarkedFields DEF IsComplete
  <2>. HIDE DEF q
  <2>3. \A k \in Stages : IsComplete(q, k) <=> k <= idx
    <3>. SUFFICES ASSUME NEW k \in Stages PROVE IsComplete(q, k) <=> k <= idx
      OBVIOUS
    <3>1. CASE k < idx
      <4>1. k # idx /\ k <= idx
        BY <1>1, <3>1 DEF Stages
      <4>. QED  BY <1>1, <2>2, <3>1, <4>1 DEF IsComplete
    <3>2. CASE k > idx
      <4>1. idx < k /\ k # idx
        BY <3>2 DEF Stages
      <4>2. Sound(mem, journal, passed, runs)
        BY <1>1
      <4>3. IsComplete(mem, k) => IsComplete(mem, idx)
        BY <1>1, <4>1, <4>2 DEF Sound
      <4>4. ~IsComplete(q, k)
        BY <1>1, <2>2, <4>1, <4>3 DEF IsComplete
      <4>. QED  BY <3>2, <4>4 DEF Stages
    <3>3. CASE k = idx
      BY <2>2, <3>3 DEF Stages
    <3>. QED  BY <1>1, <3>1, <3>2, <3>3 DEF Stages
  <2>4. idx \in 0 .. N /\ IsPrefix(q, idx)
    BY <1>1, <2>3 DEF IsPrefix, Stages
  <2>5. Prefix(mem') = idx
    BY <2>1, <2>2, <2>4, PrefixIs
  <2>6. Behind' = Behind + 1 /\ Behind < N
    BY <1>1, <1>3, <2>5 DEF Stages
  <2>. QED  BY <1>3, <2>6 DEF Mapped
<1>5. CASE outcome # 0
  <2>1. mem' = Failed(mem, idx)
    BY <1>5 DEF StageEnds, Failed
  <2>2. /\ mem' \in States /\ ~IsComplete(mem', idx)
        /\ \A k \in Stages : k < idx => IsComplete(mem', k)
    <3>1. mem \in States /\ idx \in Stages /\ idx >= idx
      BY <1>1 DEF Stages
    <3>2. /\ mem' \in States /\ mem'.stages[idx].status \in {"failed", "skipped"}
          /\ \A k \in Stages : k < idx => mem'.stages[k] = mem.stages[k]
      BY <2>1, <3>1, FailedFields
    <3>. QED  BY <1>1, <3>2 DEF IsComplete
  <2>3. Prefix(mem') = idx - 1
    BY <1>1, <2>2, PrefixBefore
  <2>. QED  BY <1>3, <2>3 DEF Mapped
<1>. QED  BY <1>4, <1>5

LEMMA StepMapped ==
  ASSUME FilesInv, FilesInv', [Next]_vars
  PROVE  Mapped
<1>1. CASE RunFresh \/ RunFromStage \/ RunResume
  BY <1>1, StartStage, StartMapped
<1>2. CASE EditConfig \/ SendSignal
  BY <1>2, StillMapped DEF EditConfig, SendSignal
<1>3. CASE \/ StageReused \/ StageRefused \/ StageLaunched \/ StageSignal \/ StageDeadline
           \/ StageWorkerFails \/ StageWorkerEnds \/ StageReaped \/ StageAdvances
  <2>1. UNCHANGED <<latest, mem>> /\ ~Idle /\ ~Idle'
    BY <1>3 DEF StageReused, StageRefused, StageLaunched, StageSignal, StageDeadline,
                StageWorkerFails, StageWorkerEnds, StageReaped, StageAdvances, Watching, Control
  <2>. QED  BY <2>1, StillMapped
<1>4. CASE StageBegins \/ AllStagesDone
  BY <1>4, BeginsMapped
<1>5. CASE SaveArchive \/ SaveLatest
  BY <1>5, SavesMapped
<1>6. CASE StageEnds
  BY <1>6, EndsMapped
<1>7. CASE Finish \/ ControllerDies
  BY <1>7, LoseMapped
<1>8. CASE \E r \in Runs :
             WorkerStep(r) /\ UNCHANGED <<config, edits, fileVars, controlVars, killed>>
  BY <1>8, StillMapped
<1>9. CASE UNCHANGED vars
  BY <1>9, StillMapped
<1>. QED  BY <1>1, <1>2, <1>3, <1>4, <1>5, <1>6, <1>7, <1>8, <1>9 DEF Next, Controller

\* The stages behind a pipeline are what Checkpoint promises: a resume goes on from a
\* part of what is recorded, stages are finished one at a time and recorded before the
\* next, and a controller that is killed loses one stage at most.
THEOREM PipelineImplementsCheckpoint == Spec => ImplementsCheckpoint
<1>1. Init => Recorded!CheckpointInit
  BY DEF Init, Recorded!CheckpointInit, Prefix
<1>2. FilesInv /\ FilesInv' /\ [Next]_vars =>
        [Recorded!CheckpointNext]_(Recorded!checkpointVars)
  <2>. SUFFICES ASSUME FilesInv, FilesInv', [Next]_vars
       PROVE  [Recorded!CheckpointNext]_(Recorded!checkpointVars)
    OBVIOUS
  <2>1. Mapped
    BY StepMapped
  <2>. QED  BY <2>1 DEF Mapped, Behind, Recorded!CheckpointNext, Recorded!checkpointVars,
                        Recorded!Begin, Recorded!FinishStage, Recorded!Record, Recorded!Lose
<1>. QED  BY <1>1, <1>2, FilesInvariant, PTL DEF Spec, ImplementsCheckpoint, Recorded!CheckpointSpec

=============================================================================
