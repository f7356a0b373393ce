# autosentry in TLA+

autosentry supervises one program: it starts it, reads its output, notices when
it fails, asks a healer (rules, then an agent) for an action, applies it, watches
whether the fix holds, and gives up when it should. This directory holds a TLA+
model of that behaviour, the TLC runs that check it on small instances, and
proofs that the TLA+ proof system checks for every instance.

Paths below are relative to `src/autosentry/`.

## The system

| Component | State | Operations | Talks to | What makes it correct |
|---|---|---|---|---|
| Supervision loop (`monitor.py`) | stop flag, final exit code, `state` counters, fixes under verification, paused detectors, repeat streak, exit edge, dead-child clock | drain lines, tick, fire a detection, verify fixes, handle an exit, watch a dead child | everything below | fixes are accounted for, budgets hold, a dead child is resolved, the exit code tells the truth |
| Supervisors (`supervisors/`) | child process, its stamp, log queue and reader threads | start, stop, status, apply_action, iter_log_lines | loop; the operating system, Docker, SLURM | one child at a time, and one that is heard; a stopped monitor starts none |
| Log tail (`_tail.py`) | inode, place, event | follow_file | attach and SLURM supervisors; whoever rotates the log | each line once, through rotations |
| Detectors (`detectors/`) | cooldowns, last exit reported, last progress | observe_line, observe_status, observe_tick, on_child_restart | loop | one report per failure, no report about an earlier child |
| Healers (`healers/`) | request and response files, graph state | attempt | loop; an agent | an answer belongs to its request |
| Attempts ledger (`ledger.py`) | rows of `attempts.tsv` | append, update | loop | one verdict per attempt |
| Fix branches (`git_ops.py`) | branches, index, working tree | create, commit, keep, discard | loop; git; the operator | a regressed fix is out of the tree; nobody's work is lost |
| State (`state.py`, `cli/commands/reset.py`) | counters, history, `state.json` | load, save, record_restart, record_reset | loop, pipeline, command line | counters survive what they should and nothing else |
| Inbox (`inbox.py`) | `slack_inbox.jsonl`, cursor | read_new, apply_commands | dispatcher writes, loop reads | each command once, in order |
| Dispatcher (`dispatcher/`) and outbox (`notifiers/file_outbox.py`) | outbox file, threads, last replies | tick_once, poll | loop appends; a chat service | nothing recorded as sent is sent again, no reply lost |
| Session dispatch (`cli/commands/session.py`, `watch.py`, `probe.py`) and incident store (`incidents/`) | action queue, incident folders and index, two cursors | queue an action, drain it, advance | loop; an interactive session | each action once; no incident skipped |
| Pipeline (`pipeline.py`) | pointer, archive and journal of a run, shared `state.json` | run, resume, advance | stage worker, state | stages in order; a resume skips only verified stages |
| Stage worker (`stage_worker.py`) | worker process, its resources, deadline | run_stage, cancel, clean up | pipeline; runs a Monitor | nothing survives a stage that is over |
| Vault (`vault/`) | notes, pattern index | record, classify, promote | loop | counts match incidents |
| Notifiers, web, dashboard, updater, hooks, skills, analysis | files | write or read them | - | output only |

What is hard in it: one thread does everything and blocks in healers, actions and
cooldowns, while the child dies, the operator sends commands and signals arrive;
the monitor relates a fix to a failure through what happens *later*; counters are
raised and reset on different paths; and most components meet in files that two
processes write. `PROJECT.json` lists the hazards one by one, at their lines, with
the properties that look for them.

## Modules

| Module | What it is |
|---|---|
| `Monitor` | the supervision loop over a local child, with its world |
| `FixTrial` | what the loop promises about fixes, without the loop |
| `MCMonitor` | six configurations and the constants for TLC |
| `MonitorProofs` | type correctness and the exit code |
| `MonitorFixProofs` | the inductive invariant of fixes, the budget, the escalation, and what repeats and pauses forbid |
| `MonitorRefinement` | the loop implements `FixTrial` |
| `Dispatcher` | the dispatcher daemon between the outbox, a chat and the inbox |
| `Mailbox` | the daemon composed with the monitor's reader of the inbox |
| `MCMailbox` | the instance of `Mailbox` for TLC |
| `MailboxProofs` | the invariants of the dispatcher and of the reader, five theorems |
| `StageWorker` | a stage: worker process, pipe, deadline, kill, cleanup |
| `Pipeline` | the controller over `StageWorker`, its three files and its kills |
| `Checkpoint` | what a pipeline promises about completed stages |
| `MCPipeline` | the instance of `Pipeline` for TLC |
| `PipelineProofs` | types, one worker at a time, fresh budgets, nothing left behind |
| `PipelineFiles` | completion and its evidence, and that the pipeline implements `Checkpoint` |
| `LocalReader` | the local supervisor's process group, reader threads and queue |
| `Docker`, `Slurm`, `Attach` | the other supervisors under the calls of the monitor |
| `LogTail` | the thread that follows a log file |
| `StateFile` | `state.json` under the monitor, `reset` and kills |
| `SessionQueue` | queued actions and the cursor of the monitor |
| `Incidents` | incident folders, their index and the cursor of the probe |
| `Healing` | the interactive healer and the graph of model calls |
| `LineDetectors` | traceback and stall detectors |
| `Vault` | notes, pattern index and prose, written one after another |
| `FixBranches` | the git repository under the monitor and the operator |
| `MCComponents` | the twelve modules from `LocalReader` to `FixBranches` side by side, for TLC |
| `SupervisorProofs` | the supervisors, the lines of the local one, and the log tail |
| `ComponentsProofs` | the other components, and the types of all twelve |

### Monitor

**State.** `child` is the supervised process: a launch number (the abstraction of
its `started_at` stamp), whether it runs, its exit code. `pc` says where the one
thread is; every call in which it can block (the agent in `claude`, an action in
`acting`, a cooldown in `relaunch` or `fallback`) is a value of its own, so that
the child and signals can move there. `back` is the loop a detection returns to:
the drain or the tick. `snap` is the status `_tick` reads once and hands to every
detector. The rest are the attributes of `Monitor` and the fields of `state`:
`stop` (`_stop`), `final` (`_final_exit_code`), `restarts`, `maxRestarts`,
`escalation`, `lastExit`, `exitHandledFor`, `fired` (the exit detector's memory),
`deadFor` (the dead-child clock: alive, recent, past the grace period), `ledger`,
`pending` (`_pending_verify`, as row numbers), `head` (the fixes in the history of
the branch that is checked out), `bucket` (`_recent_attempts`), `paused`,
`forceClaude`, `repeatOf` and `repeats`. `approved` are the detectors that were paused
when an `approve` was recorded: the code stores the approval (`state.user`) and reads
it nowhere. `fresh` is the number of attempts that
are younger than an hour: what the budget is about, beside what the code keeps.

**Actions.** The thread: `StartMonitor`, `DrainLine`, `DrainDone`, `Tick`,
`ObserveDetector`, `ObserveDone`, `DrainSessionAction`, `SessionDone`,
`ConsumeInbox`, `TickVerifications`, `Status`, `HandleExit`,
`RestartAfterCleanExit`, `WatchChild`, `Shutdown`; and one detection, from
`FireDetection` (regression, repeat guard, budget, escalation, rule) through
`ClaudeAttempt`, `OpenAttempt` and `ApplyOutcome`, or `NoAction` and
`RestartPolicyFallback`. The world: `ChildExits`, `ChildPrints`, `HandleSignal`,
`GraceElapses`, `AttemptAges`, `StartAges`.

**Abstractions.**
- A rule or the agent answers with one of restart, pause, abort, custom command or
  nothing; `restart_with_env` is a restart. A restart may fail, a custom command
  may raise. `stop()` does not raise: it kills the group in the end.
- `RuleNames` are the names rules have, because the code compares one (see below).
- Detectors of lines and of time may fire whenever there is a line, or at a tick:
  cooldowns and patterns only take behaviours away. A line makes one detector
  fire. The exit detector is exact.
- A signature of a failure is its detector and the sign of its exit code, which is
  what is left once digits are collapsed.
- The verify window of each fix ends at any visit of `TickVerifications`; the
  grace period, the hour and the rate window end by actions of the world.
- The test in `_before_child_start` and the creation of the process are one step.
  In the code a signal handler can run between the two; the child that is then
  created is stopped by `Shutdown`.
- The launch of a command that cannot be spawned reserves a start, as in the code.
- `_save_state`, notifications, the vault and the journal are left out: the loop
  reads none of them back.

**The child is a local one** (`supervisors/local.py`). Docker, SLURM and attach
answer `status()` and `iter_log_lines()` differently and have modules of their own.

### FixTrial

A list of trials and a counter. `Try` opens a trial for a detector that has none;
`Fail` and `Keep` give the verdict; `Keep` alone resets the counter, to zero.
`Monitor` maps its ledger and `restarts` on them.

### Dispatcher and Mailbox

Two processes meet in two files: the monitor appends notices to the outbox, the
daemon delivers them and appends to the inbox the replies it finds in the threads,
the monitor reads those.

**State.** `outbox` and `inbox` are the files, as sequences; `touched` says whether
the outbox was written since the daemon noted its time (`_last_outbox_mtime`);
`posts` is the chat. `pc` is the place of the daemon in `tick_once`; `batch` and `at`
are its copy of the outbox and its loop over it, `todo` and `fresh` the loop of
`_poll_inbound`. `mem` and `disk` are `DispatcherState` in memory and in its file.
`cursor` and `savedCursor` are `last_processed_inbox_id`, `mpc` whether the monitor
has read and not yet saved. `applied` counts applications of a reply up to two, and
`dropped` collects what a tick that raised had read: both exist for the properties.

**Actions.** `Notify` is the notifier, `HumanReplies` the people. A tick is
`TickStart`, `DeliverNext` for each entry, `SaveOutbox`, `SaveThreads`, `Restat`, and
then `SkipPoll`, or `StartPoll`, `PollThread` for each key, `AppendInbox` and
`SaveSeen`. `ChatRaises` and `WriteRaises` end it early, `Crash` restarts the daemon.
The monitor is `ApplyCommands` (`read_new` and `apply_commands`), `SaveCursor` and
`MonitorRestart`. What a command does to the monitor is `ConsumeInbox` of `Monitor`.

**Abstractions.**
- Timestamps order the replies of a thread: a reply is its key and its place. Ids of
  notices, which are times in microseconds, are unique; so is every written time.
- The backend is one that can read. The fetch is not limited to a page.
- An error answer may hide a message that arrived, as a timeout does.
- Whether the marker or the idle interval starts a poll is left open (`SkipPoll`).
- The threads are polled in any order; the code uses that of the dictionary.
- An append is one step: a reader sees whole lines. A line that is torn by a crash in
  the middle of a write is outside the model.

### Pipeline and StageWorker

Three levels of process: the controller, one worker per stage in a session of its
own, the workload under the worker's monitor.

**State.** `StageWorker`: `worker` is the worker of each invocation (its phase, the
launch that is alive under it, its copy of the restart counter, whether it was sent
SIGTERM), `pipe` what it has sent and nobody has read, `told` what `drain` has read,
`strays` the workloads with no monitor over them, `sj` the counter in `state.json`.
`Pipeline`: `config` is `autosentry.yaml` (the order of the stages and a fingerprint
per stage), `latest` the pointer `.autosentry/pipeline.json`, `archive` the same
document in the directory of the run, `journal` the events of finished stages; `mem`
is the `PipelineState` in memory, `pc` and `next` the place of the controller.
`killed` and `passed` exist for the properties.

**Actions.** An invocation is `StartRun`, fresh, from a stage, or resumed; every save
is `SaveArchive` and then `SaveLatest`, with a kill possible between the two. A stage
is begun, refused by a signal, or taken over from an earlier run; then launched,
watched until its pipe ends, its deadline passes, a signal comes or it reports;
reaped (terminate, wait the grace period, kill, drain, clean up the resource it had
told of); and recorded. The worker gets ready, reserves a launch, spawns, tells what
it spawned, saves its state, finishes, reports, crashes. The world kills the
controller, edits the configuration and lets the workload end.

**Abstractions.** A run is its number; `evidence_dir` is the run that executed the
stage. A fingerprint stands for all that the hash covers, which includes what was run
before the stage only by the order of the stages, as in the code. The monitor inside
a worker is reduced to what its parent and `state.json` can see. The journal is the
set of the stages that ended with 0.

### Checkpoint

Two numbers: the length of the complete prefix on disk and the length of the prefix
the invocation that runs has finished. A run begins from a part of the first, a stage
is finished one at a time and recorded before the next, and a kill loses one stage
at most. `Pipeline` maps `latest` and `mem` on them.

### The parts around the loop

Each of these modules is one component under its own faults, with a loop reduced to
the calls it makes of that component.

- `LocalReader`: the leader of the child's group may leave workers behind that hold
  the pipe; a reader thread per launch puts lines, and a sentinel at the end, into a
  bounded queue; `stop` signals the leader's group, waits, kills the group and joins
  the reader for five seconds, each of them a step.
- `Docker`: one name for all containers; the event that `stop` sets and `start` may
  not get to clear; a reader thread for each container with a `docker logs` of its own
  and one handle, `_proc`, for all of them. The end of `docker logs`, the end of its
  stream in the reader and the reader's `finally`, which terminates what `_proc` holds
  by then, are three steps, and a `start` fits between them; `cutOff` says that a late
  reader has ended the `docker logs` of the newest container. Then a status without
  code and stamp, and the watchdog, with a grace period that is not zero.
  `Slurm`: jobs by number, one remembered; threads that follow logs and notice the
  event late. `Attach`: threads that are begun by every start over a live pid, the
  pid's death and reuse; `doubled` counts the starts over a pid that is followed and
  the joins that took too long.
- `LogTail`: the path, the inodes it names in turn, truncation, pieces of lines; the
  thread at its open, its reads and its stat; `skipped` is what an open passed over.
- `StateFile`: files are inodes and names move; two writers, each with the steps of
  `StateStore.save`; eviction of the temporary file, failed saves, kills.
- `SessionQueue`, `Incidents`: callers draw an id and write it later; the monitor and
  the probe read behind a cursor that is written after the batch. A cursor that cannot
  be read is an empty one, a write of it that fails leaves it where it was, an abort
  whose action raises does not stop the monitor, and a signal stops it anywhere. What
  the session is shown is a set of lines of the index, the first of those behind its
  cursor.
- `Healing`: the files of request and response with their stamps, calls that time
  out, a session that answers late; the loop of diagnose, check and decide.
- `LineDetectors`: lines as what the regular expressions take them for, and a clock.
  The loop alternates between lines and a tick; the child may be started or die in
  either, before or after the detector has had its turn, and the detectors are told at
  the top of the next tick that finds it running (`TickBegins`). The traceback detector,
  which has no `on_child_restart`, keeps what it has open.
- `Vault`: a queue of writes that the monitor works off, each of which may fail, with
  a kill between any two; classification by hash, by similarity to the message of a
  pattern (a relation that is not transitive) and by bucket, promotion, slugs that
  collide. The lists of incidents are sets, since a list has them in the order of their
  ids; the queue is one of calls, each with the writes it has left, because a failed
  note ends its call and a failed list does not.
- `FixBranches`: a branch is the set of edits in its history, beside the working tree
  and the index; fixes that are committed, kept, merged or discarded while the
  operator edits, commits and switches. He does not switch between the two commands
  with which the monitor takes a branch and commits on it. A branch that is merged
  already is deleted without one, as one that can be fast-forwarded is after it.

`MCComponents` joins them: the initial state picks one component and the others rest.
They share nothing in the code but the loop, so their product would only multiply
states; what they share with the loop is in `Monitor` and `Pipeline`.

## Runs

| Run | Configurations | Bounds | Shows |
|---|---|---|---|
| `loop` | all six: rules and agent; escalating regressions with an abort and a pause by rules; one attempt an hour; policy only with a repeat cap and a rate limit under `restart_always`; `one_shot`; session. Fairness | 3 world events, 1 waiting line, cap none or 1 | every property of the loop, the refinement and liveness |
| `kill_switch`, `revert`, `pause`, `approve`, `rule_regression` | one each | 2 to 4 events | a documented promise the code does not keep |
| `mailbox` | every kind of fault, one key and notices without one, fairness | 2 notices, 2 replies, 2 faults | the mailbox properties |
| `mailbox_reapply`, `mailbox_lost` | a crash with one key; a raising call with two | 1 fault | a documented promise the code does not keep |
| `pipeline` | two stages, local and Docker workloads, a deadline, fairness | 2 invocations, 2 launches a stage, 1 fault, 1 edit | the pipeline properties and the refinement |
| `components` | twelve components, one at a time, fairness for two | 2 or 3 of everything, 1 or 2 faults | the properties of each |
| `rotation` | the log tail (the other components at their smallest) | 2 files, 2 pieces, no fault | a documented promise the code does not keep |

`MaxEvents` counts what the world does: an exit, a line, a signal, a command, a
queued action, a stall, an attempt or a start growing old. The elapse of the grace
period is free. The steps of the thread are not bounded, nor is anything the code
bounds itself. Three events are a failure, the failure of its fix and a third
thing in between (a signal, another detector, an hour), or two failures that fill a
streak or a window of one and what follows them, which is what the properties of the
loop relate. Two faults are enough for one to meet
what the other left behind, and two replies for a first and a last line.
Two stages and two invocations are a stage that is skipped and one that is run, by
a controller that was killed or refused before, under a configuration that was
edited or not. SLURM workloads differ from the others in one test and are left out of
the instance for its run time only; `Kinds` takes them (1.3 million states instead
of 0.8, no error). A second layout of the stages is left out likewise. In the
components, two is the number of writers, readers, callers, files or jobs between
which there can be a race, three where a third has to find what two left behind
(jobs, calls, incidents of a pattern and its neighbours). Two containers are enough
for the reader of one to meet the `docker logs` of the next, two starts of the child
for a detector that knows the first only. With three lines a trace of three is never
found full by a fourth: that branch of the traceback detector is reached in the proof
only.
The detectors of `Monitor` are one per kind, and
the tick walks the exit detector before the stall detector, the order in which a
stale `snap` matters.

**Properties checked.**
- `TypeOK`.
- `PendingTracked`: no attempt stays pending unwatched, and none is watched twice.
- `EscalationSound`: the agent is forced only with the restarts to justify it.
- `HealerBudgetRespected`: at most the limit within any hour, though the bucket is
  pruned only on an attempt.
- `PausedNeverHealed`: under `escalate`, a detector with a regressed fix gets no
  attempt again, as long as the operator has not approved it. What happens after an
  `approve`, and to a pause for the budget, is the subject of `ApprovalLifts` and
  `PauseEndsWithWindow` below.
- `ImplementsFixTrial`: the refinement.
- `RepeatGuard`: once a streak is past its cap, no later step launches a child, opens
  an attempt, takes the stop back or makes the exit code a success: not the rest of the
  drain or the tick, other detectors, queued commands, the restart policy or the exit of
  the child. With an exit that is handled whatever was decided before (the
  mutant) one does.
- `ExitZeroMeansSuccess`: code 0 only over a child that exited with 0, and never
  because the monitor gave up.
- `DeadChildResolved`: a dead child comes back or the monitor returns. Issue #22
  was a violation of it, and its old exit edge is the mutant of this property. With
  the watchdog off it is claimed for the exits `_handle_exit` settles alone: with a
  nonzero exit and a healer that pauses, the loop waits for the operator by design.
- `StopEnds`: a stop ends the monitor.
- `SeenIsKept`: what the daemon counts as seen is in the inbox or on its way there,
  or in `dropped`. With the state saved before the append (the mutant), a crash loses
  replies.
- `PassedIsApplied`: whatever the cursor has passed was applied, in memory and in the
  state file, however the monitor is killed and however lines are duplicated.
- `SentOnce`: what the outbox shows as sent is not sent again. What was sent and not
  yet recorded may be.
- `AtMostOnceWithoutFaults`: with both processes interleaved in any way and no
  fault, nothing happens twice and the notices of a key share a thread. At most once,
  and not exactly: a notice that is appended while the dispatcher rewrites the outbox
  is lost without any fault.
- `RepliesApplied`: a reply in a recorded thread is applied or in `dropped` in the
  end. A thread whose first notice was delivered in a tick that crashed before its
  save is not recorded, and nobody reads it again.
- `CompletionVerified`: a stage counts as complete only when a worker of the run its
  evidence is in was heard to end with 0, under the configuration it is recorded
  with. `EvidenceInOrder`: no complete stage rests on one that was run again after it.
  `EvidenceBeforePointer`: what the pointer says is already in archive and journal.
- `OneWorkerUnlessKilled`, `FreshBudget`: two monitors of one project, and a budget
  that somebody else has spent, come only from a controller that was killed.
- `NothingLeftBehind`: what the parent knew of is dead when the stage is over, or a
  failed cleanup is on record. What the worker had not told of yet may be left.
- `PipelineEnds`: with a deadline the pipeline ends, wherever a worker hangs.
  `ImplementsCheckpoint`: the refinement.
- `ChildIsHeard`: under Docker, SLURM and attach a child that runs is one the monitor
  listens to. Under Docker not if a command failed, a restart brought nothing back, the
  child was paused, or a late reader has ended the new `docker logs` (`cutOff`); under
  attach a line has one thread to hear it, and one more for each start over a pid that
  is followed or late join. `DeadBoxResolved`: a dead container is run again, or the
  monitor stops.
- `OneChild`: nobody of an earlier launch beside a new one; under SLURM one job too
  many for each `scancel` that failed or id that was not read.
- `NewestLinesKept`: the full queue drops what is oldest, and nothing is lost
  otherwise. `HeardOnce`, `WrittenIsHeard`: each piece of a log once, and in the end
  every piece of a file that stays but for those skipped when it was opened. Which may
  be skipped is the subject of `SkipsFirstOpenOnly` below.
- `NonePassedOver`: what a cursor has passed has been dealt with; an action is carried
  out again at most once for each kill of the monitor and each fault of the cursor. It
  speaks of ids that are written in the order they are drawn. An incident may be passed
  over only if one of its second that sorts after it was in the index before it.
- `ReadersSeeWhole`, `ResetSticks`: `state.json` is whole at any moment, outside the
  races named below, and a reset without a monitor is never undone: whatever document
  can be read keeps its row, and its cleared counter until a restart is counted.
- `AnswerIsOwn`, `RejectedNotReturned`: no answer is used twice or drifts without a
  call that was given up; the graph returns no proposal that was turned down.
- `DetectorsSound`: a reported trace is a piece of the log with the shape of one, a
  stall had its window without activity, in which, once the detector has begun anew for
  a restarted child, that child was running, and one report comes per cooldown.
- `VaultConsistent`: each incident in one pattern or bucket, a restart reads what was
  in memory, no note points to what was not written, whatever write fails.
- `WorkKept`: what was there when a fix was committed is in a branch or in the tree
  after any verdict, and the operator's branch gets an edit of the agent only with a
  fix that was kept.

**Fairness.** `WF(MonitorStep)`: the thread is one Python thread whose blocking
calls all end (the healers have timeouts, a queue read waits one second, a stop
escalates to SIGKILL). `WF(GraceElapses)`: the clock advances. Nothing is assumed
of the child, the operator, signals or the hour. A custom command without an end
would break the first assumption, as it would block the monitor.
In `Mailbox`, `WF(DaemonStep)`, `WF(ApplyCommands)` and `WF(SaveCursor)`: both
processes run, and every call to the chat has a timeout. `SF(StartPoll)`: the idle
interval elapses again and again (with `--idle-inbound-seconds 0` it does not, and a
quiet monitor never sees a reply). `SF(PollThread)`: faults are bounded, so of a
thread that is asked again and again one answer arrives.
In `Pipeline`, `WF(Controller)`: the controller's waits all have a timeout once there
is a deadline. Nothing is assumed of the workers, which may hang anywhere.
In `MCComponents`, `WF` of the loop over Docker and of the clock of its watchdog, and
of the thread that follows a log; nothing of the world.

`Terminated` lets the finished monitor stutter, so deadlock is checked in its runs,
as it is in those of `Mailbox`, where the daemon always has a next tick. A pipeline that is over and a component whose bounds are
used up really stop: `pipeline` and `components` do not check it.

**What the documents promise and the code does not do.** Each of these runs
ends in a counterexample, described in `PROJECT.json` under `findings`:
1. `max_restarts` does not stop a healer that keeps restarting a child that fails
   alive (`KillSwitch`).
2. A regressed fix of the agent is not taken out of the tree: the "base" branch is
   read after the switch to the fix branch (`RegressedFixReverted`).
3. A detector paused for its budget stays paused after the hour
   (`PauseEndsWithWindow`), and after the operator's `approve` (`ApprovalLifts`).
4. A regressed rule is not followed by the agent, unless it is called `rules`
   (`RuleRegressionEscalates`).
5. A dispatcher killed between its append and its save duplicates lines of the inbox,
   and the monitor applies them again, at every tick (`AppliedOnce`).
6. A tick that raises in the middle of a poll forgets the replies it had read
   (`RepliesLand`).
7. The follower of an attached log skips to the end of every file it opens, not of the
   first: what is written to a new file between a rotation and its opening is not heard
   (`SkipsFirstOpenOnly`).

**What else the models show.** Each of these is an exception that a property names or
a step that a module takes. Four of them contradict a comment or a docstring, which
is quoted with them; no run is devoted to these four. The others no document rules
out.
- Docker: a dead container has neither code nor stamp, so a crash is handled as an
  exit with 0 and the second exit like the first; `stop` of a dead container does not
  remove it, and without `--rm` the relaunch finds the name taken; a `docker logs`
  that is still there makes `start` return early with the event set, and the iterator
  then ends for good, as in issue #9; a reader that closes after the next container was
  run ends that one's `docker logs` (`docker.py:209-214`), and the container runs unheard.
- SLURM: a restart forgets the job whatever `scancel` said; a submission whose id
  cannot be read leaves a job nobody knows.
- Attach: a resume over a live pid begins one more thread, and every line is heard
  twice; a pause ends the line iterator for good.
- Log tail: lines written to the old inode between end of file and stat are lost; a
  truncation, or a new file with the old inode, keeps the old place.
- Session: an id drawn first and written second is behind the cursor, although
  `session.py:112-113` says that ids sort in the order of insertion across processes; a
  cursor that cannot be read or written repeats a batch, at each tick while it lasts.
- Incidents: a folder made in the second of the cursor, with a name that sorts before it, is never
  shown.
- State: a reset under a live monitor is overwritten by its next save, and two saves
  at the same time share `state.json.tmp`, so that a reader can find half a document,
  although `state.py:3-7` says that the file is never torn.
- Healers: the late answer of a call that was given up is the answer of the next one.
- Traceback: the blank lines and the source lines of a trace count as quiet, so that a
  long trace is cut; a trace that is open at a restart is carried over, although
  `base.py:49-52` says that detectors clear what they hold of a child.
- Stall: in the tick that restarts the child, and for a child that dies before the next
  tick, the clock is that of the child before, and its stall is reported of the new one
  (`monitor.py:487-494`), although `base.py:49-52` says the same of clocks.
- Git: what is in the index survives a discard, a refused commit leaves it there, and
  the next fix commits it; the operator's edits made since the commit do not survive.
- Vault: prose that was asked for and not written when the monitor is killed is not
  asked for again.

## Proofs

Every invariant and action property that a run checks, and both refinements, are
theorems; what the run shows on its instance, the theorem says for every value of the
constants that satisfies the assumptions of the modules:
- `MonitorAssumption`: the kinds of detectors are disjoint, codes are integers, the
  code of a signal is not zero, the configurations have the type `ConfigType`, and
  `None` is a value of its own.
- `DispatcherAssumption`, `WorkerAssumption`, `PipelineAssumption`: bounds are natural
  numbers, faults are of the kinds the model knows, and the values that stand for
  nothing are none of the values they stand beside (`NoKey` is no key, `None` no exit
  code, fingerprint or layout); `NoneAssumption`: `None` is no state of a pipeline.
- Of the components: sizes and windows are natural numbers, and not zero where the code
  divides, allots or waits by them. Of the vault: the number of a message is not zero,
  which stands for "nothing appended" in a slug. Of the traceback detector: a trace may
  have two lines or more (`_MAX_TRACE_LINES` is 500), for the first two lines of a
  JavaScript trace are not counted before they are collected.

**Monitor.**
- `TypeCorrect` (`MonitorProofs`). The lemmas say what the operators that actions share
  keep: `Launch`, `LaunchFails`, `ActionApplied`, `ActionRaised`, `Verdict`; then there
  is one step per action.
- `ZeroMeansSuccess`: `ExitInv` says that a stop always has a code and that the code is
  0 only on the way out (`StopHasCode`), that past the exit edge the child is dead, and
  before the cooldown dead with 0 (`ExitIsOfTheDead`), and what `Shutdown` will return
  (`ZeroIsSuccess`). All steps but those on the way out are `Ordinary`: if they stop
  the monitor, it is with a code that is not 0, which is one lemma for all of them.
- `MonitorFixProofs`: `PendingTracked` is not inductive. What makes it so is
  `FixInv`, which adds `NothingOpen` (a detection that is past the regression test has
  nothing under verification for its detector) and `OneOpen` (while an
  action runs, the last row is the pending one and it is that of the detection).
  Without the first, a new attempt could overwrite a verification; without the
  second, a failed action could judge another row. `NoAttemptLost` follows.
  `HourlyBudget` needs `AttemptLeft`: past the budget test the bucket has room, and
  the bucket never counts fewer than the fresh attempts. `EscalationJustified` is
  inductive with the types. `RepeatsStop` is about every step past the cap and rests on
  `RepeatInv`: the monitor is stopping with a code that is no success, and the thread is
  at none of the places from which a child is launched, an attempt opened or an exit
  taken over; each step keeps it away from them (`StopsOnItsWay`). `PausedStaysPaused`
  rests on `RegressedPaused` (a detector with a regressed fix is in `paused`, of which the
  code takes nobody out) and `HealingUnpaused` (whoever was asked was asked for a detector
  that is not paused, and while the healer thinks nothing else pauses one).
- `MonitorRefinement`: `MonitorImplementsFixTrial`. `OpenAttempt` is `Try` (by
  `NothingOpen`, no other trial of its detector is open then), a regression and a
  crash are `Fail`, the verdicts of `TickVerifications` are one `Keep`, a counted
  action or launch is `CountRestart`, everything else stutters.

**Mailbox** (`MailboxProofs`).
- `DispatcherInv` joins the types with `PollInv` (replies are
  on their way only during a poll, of threads that exist, which the types of a fetch
  rest on and which makes the two saves of the state safe), `SeenIsKept`, and
  `OutboxInv` (ids rise, and what the file shows as sent the copy of the tick shows as
  sent). `SeenRepliesAreKept` and `SentNoticesStaySent` follow.
- `MailboxTypes` and `NoCommandIsLeftOut`: the inbox only grows at its end, so the
  first place of an id, on which the cursor stands, does not move; `read_new` is the
  lines behind it. Lines that are there twice are passed once and read again.
- `OnceWithoutFaults` (at most once): `OnceInv` follows a notice from outbox to chat (what is in the
  chat shows as sent in the file or in the batch of the tick, and in the thread of its
  key) and a reply from thread to inbox (what was read counts as seen, so no line is
  there twice) to the monitor (what is behind the cursor was applied once, nothing
  after it).

**Pipeline.**
- `PipelineProofs`: `PipelineInv` joins the types with five shapes: which invocation a
  worker is of and when it may be unwatched, where the controller is and what it holds
  then, what a pipe says while it is watched, what `state.json` has counted, and when
  it is clear. A worker's step is framed once (`WorkerFrame`), and so is a parent's
  (`ParentStep`, `WatchStep`). `PipelineTypes`, `OneWorkerAtATime`, `BudgetIsFresh`
  and `StageLeavesNothing` follow.
- `PipelineFiles`: `FilesInv` says that the pointer and the memory are `Sound` (a
  prefix, of runs that do not go back, each stage journaled and reported), that memory
  is under the configuration it has loaded, that a zero on its way was reported, and
  that memory is ahead of the archive and the archive of the pointer by one save at
  most. `CompletionIsVerified`, `EvidenceStaysInOrder` and `EvidenceComesFirst` follow.
- `PipelineImplementsCheckpoint`, there too: under the refinement mapping the steps are
  counted in prefixes. A start takes a part of what is recorded, a stage that ends with
  0 is one more, the save of the pointer records it, a kill falls back to what is
  recorded; everything else stutters.

**Components.** A step of `MCComponents` is, to each component, one of its own or one
that leaves it alone (`Projections`), so each has an invariant over its own variables;
the theorems are about `ComponentsSpec`, whichever component it runs.
- `ChildrenAreHeard`, `OneChildAtATime`: the event of a supervisor is clear while
  nothing has failed, and a child that runs has its reader, which follows it unless
  another has cut it off (`BoxInv`, over what each call makes of readers and `_proc`);
  while the event is set, the threads over a pid are the doubled ones (`AttachInv`); of
  the jobs that are live and not remembered there is one per fault at most
  (`SlurmInv`, over what `submit`, `cancel`, `start` and `restart` make of the world);
  `GroupInv` knows that a leader is gone before the last kill of its group.
- `PiecesAreHeardOnce`: where the thread stands in a file is what it skipped and heard
  of it, and of files that came later it has heard nothing (`TailInv`).
- `NewestLinesStay`: every line is in one place (`LinesApart`: pipe, hand, queue, taken
  or lost), what was read is the sum of the last four (`Counted`), and while one reader
  at most is at work, lines go through those places in the order they were written,
  behind all that are lost (`NewestLast`). The place that a reader has made is free,
  because nobody else fills it.
- `RejectedStaysRejected`, `AnswersAreOwn`: a proposal under the checker is newer than
  those turned down; a response is to a request the session is done with, one newer
  than the baseline is unread, and every call that was asked has ended or is this one.
- `WorkIsKept`: a fix under trial has a number that no branch, trial or verdict had
  before and is committed on a branch of its own (`BranchesApart`); what is pinned is in
  the index or in some branch, so a discard that drops only what is not in the index
  loses none of it (`PinnedIsSafe`); and what the agent did in a branch that waits for
  its verdict was there at the commit or came with a fix that was kept
  (`FixesComeKept`).
- `SavesAreAtomic`, `ResetsStick`: two saves past their `open` have overlapped, and one
  that has not writes a file nobody reads yet (`SavesApart`); every document that a
  later start or save can use has the rows that were kept (`DocumentsKeep`), and a
  reset alone reads at its end what it has written (`AloneSaves`).
- `CursorsPassOverNothing`: while ids are written in the order they were drawn, the
  lines of the queue, the batch of a drain and the cursor are in that order too, and
  going back over what was carried out takes a kill or a fault of the cursor that has
  not been counted yet (`AgainIsCounted`); stamps rise along the index, what is shown is
  the first of what is behind the cursor, and what the cursor of the probe has passed
  was handled, or overtaken in its second by one that was in the index before it.
- `ReportsAreSound`: an open trace ends in the line that was read last and has the shape
  of its language up to there (`TraceInv`), whatever starts and deaths come between; the
  marks of the stall detector are not before the lines they are about nor, once it has
  begun anew for a child (`BegunAnew`), before the start of that child (`StallInv`).
- `VaultAgrees`: the index in memory and the one in the file are each sound by
  themselves (`IndexOk`: slugs apart, one home for each incident), for a restart goes
  on with the second. Slugs stay apart because a message is similar to itself: a second
  pattern never comes to need the slug that its detector and message already have. The
  writes that are left make sense wherever they are cut (`CallOk`: a list is given a
  note that is there or that the same call writes before; a pattern is one that is
  saved).
- `ComponentsKeepTypes`: all of these together give the types, but for a few bounds,
  each an invariant of its own (`LinesInBounds`: the log on disk has the lines that are
  in no pipe; `ResponsesCounted`: a stamp is the number of requests the session is
  done with; `DetectorBounds`).

Proving changed the models in a few places, where a property was false outside the
instance or said less than holds: the counter in `state.json` is bounded by the launches
of all invocations and not by the stages; `None` had to be no state; `ResetSticks` holds
through overlapping saves; a trace of one line at most would report JavaScript traces
that are too long; and the count of `NewestLinesKept` speaks of lines, not of sentinels.

**Only model-checked:** the liveness properties `DeadChildResolved`, `StopEnds`,
`RepliesApplied`, `PipelineEnds`, `DeadBoxResolved` and `WrittenIsHeard`, because
fairness and ENABLED are out of the reach of the prover. The proofs contain no induction
over data. Where a least or last element is needed (the first free folder of an
incident), it comes from the well-foundedness of the natural numbers, for one set at a
time.

## Not modelled

Listed in `PROJECT.json` with reasons: output (reports of incidents, the text of
notes, notifiers, web, dashboard), installation (hooks, skills, updater), analysis of
finished logs, and argument parsing. Inside the modelled parts: prompts, providers and
the parsing of answers; the command grammar of the dispatcher and its page limits;
the languages of the traceback detector but for two; the preflight, which refuses a
run before it begins; `watch`, which is the probe in a loop; a
`dead_child_grace_seconds` of 0 under Docker. A `run_stage` that raises is in the model
only as a stage that ended with 1.

## Plan

What is left is to say more than the runs do now:
1. The hazards without a property (`PROJECT.json`, those with a note): a detector that
   fires on a status another one has changed, the child that outlives its monitor, the
   outbox that is rewritten over a new notice, rows that stay pending after a crash.
2. Progress as action properties: which steps bring a dead child, a stopping monitor or
   a waiting reply nearer to its end, provable without fairness.
3. Shorter proofs: the local supervisor and the vault hold half of the lines, and
   several of their lemmas differ in one action only.
