------------------------------ MODULE FixTrial ------------------------------
(***************************************************************************)
(* What the monitor promises about the fixes it tries, without its loop,   *)
(* its child or its healers: a detector has at most one fix on trial, a    *)
(* trial ends with one verdict that is never changed, and the counter of   *)
(* unverified restarts falls only when a fix is kept, and then to zero.    *)
(***************************************************************************)
EXTENDS Naturals, Sequences

CONSTANT Detectors

VARIABLES
  trials,     \* every fix ever tried: its detector and how it went
  unverified  \* restarts since a fix was last kept

trialVars == <<trials, unverified>>

Verdicts == {"kept", "regressed", "crashed"}

OnTrial(i) == trials[i].status = "pending"

Judge(rows, verdict) ==
  [i \in DOMAIN trials |->
     IF i \in rows THEN [trials[i] EXCEPT !.status = verdict] ELSE trials[i]]

TrialInit == trials = <<>> /\ unverified \in Nat

\* A fix is tried for a detector that has none on trial.
Try(d) ==
  /\ \A i \in DOMAIN trials : OnTrial(i) => trials[i].det # d
  /\ trials' = Append(trials, [det |-> d, status |-> "pending"])
  /\ UNCHANGED unverified

\* The detector fires again on the fix, or its action raises.
Fail(i, verdict) ==
  /\ OnTrial(i)
  /\ verdict \in {"regressed", "crashed"}
  /\ trials' = Judge({i}, verdict)
  /\ UNCHANGED unverified

Keep(rows) ==
  /\ rows # {} /\ \A i \in rows : OnTrial(i)
  /\ trials' = Judge(rows, "kept")
  /\ unverified' = 0

CountRestart == unverified' = unverified + 1 /\ UNCHANGED trials

TrialNext ==
  \/ \E d \in Detectors : Try(d)
  \/ \E i \in DOMAIN trials, v \in Verdicts : Fail(i, v)
  \/ \E rows \in SUBSET DOMAIN trials : Keep(rows)
  \/ CountRestart

TrialSpec == TrialInit /\ [][TrialNext]_trialVars
=============================================================================
