----------------------------- MODULE FixBranches -----------------------------
(***************************************************************************)
(* The git repository under the monitor (src/autosentry/git_ops.py and its *)
(* callers in monitor.py): the agent edits the files the operator works    *)
(* on, its edits go to a branch of their own, and the verdict keeps or     *)
(* discards it.  A branch is the set of edits in its history; the working  *)
(* tree has edits that are in no commit, some of them in the index         *)
(* (staged).  Branch 0 is the operator's.  The branch to go back to is     *)
(* asked for when it is needed: it is the one that is checked out.         *)
(***************************************************************************)
EXTENDS Naturals, FiniteSets

CONSTANTS
  MaxFixes,       \* bound on fixes of the agent
  MaxOwnEdits,    \* bound on edits of the operator
  MaxGitFailures  \* bound on git commands that fail and kills of the monitor

ASSUME FixBranchesAssumption ==
  MaxFixes \in Nat \ {0} /\ MaxOwnEdits \in Nat /\ MaxGitFailures \in Nat

Fixes    == 1 .. MaxFixes
Branches == 0 .. MaxFixes
Edits    == {"own"} \X (1 .. MaxOwnEdits) \cup {"fix"} \X Fixes

VARIABLES
  autoMerge,    \* healing.git.auto_merge
  existing,     \* branches there are
  history,      \* the edits of each
  checkedOut,   \* the branch of HEAD
  unstaged, staged,  \* edits in no commit
  fixes,        \* fixes so far
  fixAt,        \* where _fire_detection is: idle, edited, branched, applying
  onTrial,      \* fixes whose branch waits for a verdict
  keptFixes,    \* fixes that were kept
  base,         \* the edits of each fix branch when it was committed
  ownEdits,
  pinned,       \* edits that were there when a fix was committed
  gitFailures

branchVars == <<autoMerge, existing, history, checkedOut, unstaged, staged, fixes, fixAt, onTrial,
                keptFixes, base, ownEdits, pinned, gitFailures>>

FixBranchesInit ==
  /\ autoMerge \in BOOLEAN /\ existing = {0} /\ history = [b \in Branches |-> {}]
  /\ checkedOut = 0 /\ unstaged = {} /\ staged = {}
  /\ fixes = 0 /\ fixAt = "idle" /\ onTrial = {} /\ keptFixes = {}
  /\ base = [f \in Fixes |-> {}] /\ ownEdits = 0 /\ pinned = {} /\ gitFailures = 0

Fails == gitFailures < MaxGitFailures /\ gitFailures' = gitFailures + 1

-----------------------------------------------------------------------------
(* The operator *)

OperatorEdits ==
  /\ ownEdits < MaxOwnEdits /\ ownEdits' = ownEdits + 1
  /\ unstaged' = unstaged \cup {<<"own", ownEdits + 1>>}
  /\ UNCHANGED <<autoMerge, existing, history, checkedOut, staged, fixes, fixAt, onTrial,
                 keptFixes, base, pinned, gitFailures>>

\* Commits what is his, on the branch that is checked out.
OperatorCommits ==
  LET his == {e \in unstaged \cup staged : e[1] = "own"}
  IN /\ his # {}
     /\ history' = [history EXCEPT ![checkedOut] = @ \cup his]
     /\ unstaged' = unstaged \ his /\ staged' = staged \ his
     /\ UNCHANGED <<autoMerge, existing, checkedOut, fixes, fixAt, onTrial, keptFixes, base,
                    ownEdits, pinned, gitFailures>>

\* Goes to another branch; edits in no commit come along.  Not between the two
\* commands with which the monitor takes a branch and commits on it.
OperatorSwitches ==
  /\ fixAt # "branched"
  /\ checkedOut' \in existing \ {checkedOut}
  /\ UNCHANGED <<autoMerge, existing, history, unstaged, staged, fixes, fixAt, onTrial,
                 keptFixes, base, ownEdits, pinned, gitFailures>>

-----------------------------------------------------------------------------
(* A fix of the agent *)

AgentEdits ==
  /\ fixAt = "idle" /\ fixes < MaxFixes
  /\ fixes' = fixes + 1 /\ fixAt' = "edited"
  /\ unstaged' = unstaged \cup {<<"fix", fixes + 1>>}
  /\ UNCHANGED <<autoMerge, existing, history, checkedOut, staged, onTrial, keptFixes, base,
                 ownEdits, pinned, gitFailures>>

\* git switch -c, under a name that is free; without a branch there is no commit.
CreateFixBranch ==
  /\ fixAt = "edited"
  /\ \/ /\ existing' = existing \cup {fixes} /\ checkedOut' = fixes
        /\ history' = [history EXCEPT ![fixes] = history[checkedOut]]
        /\ fixAt' = "branched" /\ UNCHANGED gitFailures
     \/ Fails /\ fixAt' = "idle" /\ UNCHANGED <<existing, checkedOut, history>>
  /\ UNCHANGED <<autoMerge, unstaged, staged, fixes, onTrial, keptFixes, base, ownEdits, pinned>>

\* git add -A and git commit, whose failure nobody looks at: a hook that refuses
\* leaves everything in the index.
StageAndCommitAll ==
  /\ fixAt = "branched" /\ fixAt' = "applying"
  /\ pinned' = pinned \cup unstaged \cup staged
  /\ unstaged' = {}
  /\ \/ /\ history' = [history EXCEPT ![checkedOut] = @ \cup unstaged \cup staged]
        /\ staged' = {} /\ UNCHANGED gitFailures
     \/ Fails /\ staged' = staged \cup unstaged /\ UNCHANGED history
  /\ base' = [base EXCEPT ![fixes] = history'[checkedOut]]
  /\ UNCHANGED <<autoMerge, existing, checkedOut, fixes, onTrial, keptFixes, ownEdits>>

\* What discard_branch drops: what is not in the index.  It switches to the branch
\* that is checked out.
Discard ==
  /\ unstaged' = {}
  /\ UNCHANGED <<autoMerge, existing, history, checkedOut, staged, fixes, keptFixes, base, ownEdits,
                 pinned, gitFailures>>

\* apply_action: the fix is on trial, or it has crashed and is discarded.
ApplyFix ==
  /\ fixAt = "applying" /\ fixAt' = "idle"
  /\ onTrial' = onTrial \cup {fixes}
  /\ UNCHANGED <<autoMerge, existing, history, checkedOut, unstaged, staged, fixes, keptFixes,
                 base, ownEdits, pinned, gitFailures>>

FixCrashes ==
  /\ fixAt = "applying" /\ fixAt' = "idle"
  /\ UNCHANGED onTrial
  /\ Discard

\* Only regression_action revert discards.
FixRegresses(f) ==
  /\ fixAt = "idle" /\ f \in onTrial
  /\ onTrial' = onTrial \ {f} /\ UNCHANGED fixAt
  /\ Discard \/ UNCHANGED <<autoMerge, existing, history, checkedOut, unstaged, staged, fixes,
                           keptFixes, base, ownEdits, pinned, gitFailures>>

\* Mutant: a merge that is refused is not looked at, and the branch deleted.
KeepMerged(f) ==
  /\ history' = [history EXCEPT ![checkedOut] = IF @ \subseteq history[f] THEN history[f] ELSE @]
  /\ existing' = existing \ ({f} \ {checkedOut})

\* merge --ff-only into the branch that is checked out, which has nothing to do when
\* the fix is in it already, and branch -d, which refuses that branch itself; a merge
\* that is refused, also for edits in its way, leaves both.
KeepBranch(f) ==
  LET merged == f \in existing /\ history[f] \subseteq history[checkedOut]
      ahead  == f \in existing /\ history[checkedOut] \subseteq history[f]
  IN \/ /\ merged \/ ahead
        /\ history' = [history EXCEPT ![checkedOut] = @ \cup history[f]]
        /\ existing' = existing \ ({f} \ {checkedOut})
     \/ /\ ~merged /\ (~ahead \/ unstaged \cup staged # {})
        /\ UNCHANGED <<existing, history>>

\* The fix is verified.
FixVerified(f) ==
  /\ fixAt = "idle" /\ f \in onTrial
  /\ onTrial' = onTrial \ {f} /\ keptFixes' = keptFixes \cup {f}
  /\ IF autoMerge THEN KeepBranch(f) ELSE UNCHANGED <<existing, history>>
  /\ UNCHANGED <<autoMerge, checkedOut, unstaged, staged, fixes, fixAt, base, ownEdits, pinned,
                 gitFailures>>

\* The monitor is killed: what was on trial is nobody's.
FixesForgotten ==
  /\ Fails
  /\ fixAt' = "idle" /\ onTrial' = {}
  /\ UNCHANGED <<autoMerge, existing, history, checkedOut, unstaged, staged, fixes, keptFixes,
                 base, ownEdits, pinned>>

FixBranchesNext ==
  \/ OperatorEdits \/ OperatorCommits \/ OperatorSwitches
  \/ AgentEdits \/ CreateFixBranch \/ StageAndCommitAll \/ ApplyFix \/ FixCrashes
  \/ \E f \in Fixes : FixRegresses(f) \/ FixVerified(f)
  \/ FixesForgotten

-----------------------------------------------------------------------------
(* Properties *)

FixBranchesTypeOK ==
  /\ autoMerge \in BOOLEAN /\ existing \subseteq Branches /\ {0, checkedOut} \subseteq existing
  /\ history \in [Branches -> SUBSET Edits]
  /\ unstaged \subseteq Edits /\ staged \subseteq Edits
  /\ fixes \in 0 .. MaxFixes /\ fixAt \in {"idle", "edited", "branched", "applying"}
  /\ onTrial \subseteq 1 .. fixes /\ keptFixes \subseteq 1 .. fixes
  /\ base \in [Fixes -> SUBSET Edits]
  /\ ownEdits \in 0 .. MaxOwnEdits /\ pinned \subseteq Edits
  /\ gitFailures \in 0 .. MaxGitFailures

\* What was there when a fix was tried is not lost: it is in a branch or in the
\* working tree, although a fix is discarded, its branch merged and deleted, a commit
\* refused or the monitor killed.  And an edit of the agent comes to the operator's
\* branch only in a fix that was kept, or in one such a fix was built on
\* (git_ops.py, discard_branch and keep_branch).
WorkKept ==
  /\ \A e \in pinned :
       e \in unstaged \cup staged \/ \E b \in existing : e \in history[b]
  /\ \A e \in history[0] :
       e[1] = "fix" => \E f \in keptFixes : e \in base[f]
=============================================================================
