----------------------------- MODULE MCMonitor -----------------------------
(***************************************************************************)
(* The supervision loop on small instances: one detector of each kind, a   *)
(* child that can exit cleanly or fail, and the configurations that change *)
(* how the loop decides.                                                   *)
(***************************************************************************)
EXTENDS Monitor

CONSTANTS line, stall, exit

MCLines == {line}
MCTicks == {stall}
MCExits == {exit}
MCOrder == <<exit, stall>>

\* Rules restart on exits and lines; the agent restarts or gives up; its edits
\* land on branches; two attempts an hour, escalation after two restarts.
Healing ==
  [ lifecycle |-> "restart_on_failure", session |-> FALSE,
    rule |-> [d \in Detectors |-> IF d = stall THEN None ELSE "restart"],
    ruleName |-> "restart_it", claude |-> {"restart", None}, git |-> TRUE,
    regression |-> "revert", escalateRule |-> TRUE, threshold |-> 2,
    identicalCap |-> 0, attemptLimit |-> 2, windowMax |-> 0, watchdog |-> TRUE ]

\* No rule and an agent that is disabled: the restart policy alone.
PolicyOnly ==
  [Healing EXCEPT !.rule = [d \in Detectors |-> None], !.claude = {None},
                  !.lifecycle = "restart_always", !.identicalCap = 1, !.windowMax = 1]

\* A regression pauses the healer of its detector; rules abort on a line and
\* pause on a stall, and the agent runs a command of its own.
Escalating ==
  [Healing EXCEPT !.regression = "escalate", !.ruleName = "rules", !.threshold = 1,
                  !.rule = [d \in Detectors |-> IF d = line THEN "abort"
                                               ELSE IF d = stall THEN "pause"
                                               ELSE "restart"],
                  !.claude = {"custom", None}]

\* One attempt an hour and an agent that always acts.
Thrifty == [Healing EXCEPT !.attemptLimit = 1, !.threshold = 5, !.claude = {"restart"}]

\* An interactive session heals; the monitor only records.
SessionMode == [Healing EXCEPT !.session = TRUE, !.watchdog = FALSE]

\* The work is over with the child, whatever its code.
OneShot == [Healing EXCEPT !.lifecycle = "one_shot", !.watchdog = FALSE,
                           !.regression = "ignore"]

AllConfigs  == {Healing, Escalating, Thrifty, PolicyOnly, OneShot, SessionMode}
OnlyHealing == {Healing}
OnlyThrifty == {Thrifty}
RuleFirst   == {[Healing EXCEPT !.threshold = 5, !.claude = {"restart"}]}
=============================================================================
