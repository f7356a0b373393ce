----------------------------- MODULE Checkpoint -----------------------------
(***************************************************************************)
(* What a pipeline promises about the stages it has behind it, without     *)
(* workers, signals, configurations or files: the stages that are recorded *)
(* as complete are a prefix, an invocation goes on from a part of that     *)
(* prefix, stages are finished one at a time and recorded before the next  *)
(* one is, and a controller that is killed loses one stage at most.        *)
(***************************************************************************)
EXTENDS Naturals

CONSTANT N

VARIABLES
  recorded,  \* length of the complete prefix on disk
  finished   \* length of the prefix finished by the invocation that runs

checkpointVars == <<recorded, finished>>

CheckpointInit == recorded = 0 /\ finished = 0

\* An invocation begins with a part of what is recorded; the disk is behind.
Begin(k) == finished = recorded /\ finished' = k /\ UNCHANGED recorded

FinishStage ==
  /\ finished = recorded /\ finished < N
  /\ finished' = finished + 1
  /\ UNCHANGED recorded

Record == recorded' = finished /\ UNCHANGED finished

Lose == finished' = recorded /\ UNCHANGED recorded

CheckpointNext ==
  \/ \E k \in 0 .. recorded : Begin(k)
  \/ FinishStage
  \/ Record
  \/ Lose

CheckpointSpec == CheckpointInit /\ [][CheckpointNext]_checkpointVars
=============================================================================
