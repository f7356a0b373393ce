---------------------------- MODULE MCComponents ----------------------------
(***************************************************************************)
(* The components that meet the supervision loop through one call or one   *)
(* file, checked side by side: a behaviour is one of one component, which  *)
(* the initial state picks, while the others rest in an initial state.     *)
(***************************************************************************)
EXTENDS Docker, Slurm, Attach, LocalReader, LogTail, SessionQueue, Incidents, Vault, StateFile,
        Healing, LineDetectors, FixBranches

MCFailures == {[detector |-> 1, message |-> 1, hash |-> 0],
               [detector |-> 1, message |-> 3, hash |-> 1],
               [detector |-> 2, message |-> 2, hash |-> 1]}

Components == {"docker", "slurm", "attach", "local", "tail", "session", "incidents", "vault", "state",
               "healer", "detector", "git"}

VARIABLE which

allVars == <<which, boxVars, slurmVars, attachVars, localVars, tailVars, queueVars, incidentVars,
             vaultVars, fileVars, healingVars, detectorVars, branchVars>>

ComponentsInit ==
  /\ which \in Components
  /\ DockerInit /\ SlurmInit /\ AttachInit /\ LocalInit /\ TailInit /\ SessionQueueInit /\ IncidentsInit
  /\ VaultInit /\ StateFileInit /\ HealingInit /\ LineDetectorsInit /\ FixBranchesInit
  /\ which # "docker" => ~autoRemove /\ ~relaunches
  /\ which # "attach" => ~allowKill
  /\ which # "tail" => ~seekToEnd
  /\ which # "detector" => detectorKind = "traceback"
  /\ which # "git" => ~autoMerge

Only(c) ==
  /\ which = c /\ UNCHANGED which
  /\ IF c = "docker" THEN TRUE ELSE UNCHANGED boxVars
  /\ IF c = "slurm" THEN TRUE ELSE UNCHANGED slurmVars
  /\ IF c = "attach" THEN TRUE ELSE UNCHANGED attachVars
  /\ IF c = "local" THEN TRUE ELSE UNCHANGED localVars
  /\ IF c = "tail" THEN TRUE ELSE UNCHANGED tailVars
  /\ IF c = "session" THEN TRUE ELSE UNCHANGED queueVars
  /\ IF c = "incidents" THEN TRUE ELSE UNCHANGED incidentVars
  /\ IF c = "vault" THEN TRUE ELSE UNCHANGED vaultVars
  /\ IF c = "state" THEN TRUE ELSE UNCHANGED fileVars
  /\ IF c = "healer" THEN TRUE ELSE UNCHANGED healingVars
  /\ IF c = "detector" THEN TRUE ELSE UNCHANGED detectorVars
  /\ IF c = "git" THEN TRUE ELSE UNCHANGED branchVars

ComponentsNext ==
  \/ Only("docker") /\ DockerNext
  \/ Only("slurm") /\ SlurmNext
  \/ Only("attach") /\ AttachNext
  \/ Only("local") /\ LocalNext
  \/ Only("tail") /\ TailNext
  \/ Only("session") /\ SessionQueueNext
  \/ Only("incidents") /\ IncidentsNext
  \/ Only("vault") /\ VaultNext
  \/ Only("state") /\ StateFileNext
  \/ Only("healer") /\ HealingNext
  \/ Only("detector") /\ LineDetectorsNext
  \/ Only("git") /\ FixBranchesNext

\* The monitor's thread under Docker and the clock of its watchdog go on, and so does
\* the thread that follows a log.
ComponentsFairness ==
  /\ WF_allVars(Only("docker") /\ DockerLoop)
  /\ WF_allVars(Only("docker") /\ BoxGraceEnds)
  /\ WF_allVars(Only("tail") /\ TailThread)

ComponentsSpec == ComponentsInit /\ [][ComponentsNext]_allVars /\ ComponentsFairness

-----------------------------------------------------------------------------
(* Properties *)

\* Every component keeps the types of its variables, in its queues, files, counters
\* and bounds (the modules name the code of each).
ComponentsTypeOK ==
  /\ which \in Components
  /\ DockerTypeOK /\ SlurmTypeOK /\ AttachTypeOK /\ LocalTypeOK /\ TailTypeOK
  /\ SessionQueueTypeOK
  /\ IncidentsTypeOK /\ VaultTypeOK /\ StateFileTypeOK /\ HealingTypeOK /\ LineDetectorsTypeOK
  /\ FixBranchesTypeOK

\* A child that runs is one the monitor listens to, under Docker, under SLURM and when
\* it is attached to, through restarts, relaunches and starts over a child that is
\* there, as long as each command is obeyed and, under Docker, no reader of an earlier
\* container ends the docker logs of the new one (docker.py, slurm.py and attach.py, the
\* event that stop() sets and start() clears; issue #9).
ChildIsHeard == BoxIsHeard /\ JobIsHeard /\ PidIsHeard

\* One child at a time: under the local supervisor nobody of an earlier launch is alive
\* beside a new one; under SLURM one job is not cancelled, and one more for each
\* command that failed (local.py, stop; slurm.py, _restart).
OneChild == OneGroup /\ JobsAccounted

\* What a cursor has passed has been dealt with.  The session's: what is behind it has
\* been consumed, and an action is carried out again at most once for each kill of the
\* monitor and each fault of the cursor, both as long as ids are written in the order
\* they are drawn.  The probe's: an incident behind it has been shown, or sorts before
\* one of its own second that was in the index first and has been
\* (monitor.py, _drain_session_action_queue; cli/commands/probe.py).
NonePassedOver == CursorPassesConsumed /\ AppliedOncePerId /\ NoneSkipped
=============================================================================
