-------------------------- MODULE ComponentsProofs --------------------------
(***************************************************************************)
(* Proofs about the other components that MCComponents checks side by      *)
(* side: the healer, the git repository, state.json, session dispatch, the *)
(* incident folders, the detectors and the vault, each by itself           *)
(* (Projections); and at the end the types of all of them.                 *)
(***************************************************************************)
EXTENDS SupervisorProofs

-----------------------------------------------------------------------------
(* The healer that asks a model *)

\* A proposal the checker looks at is newer than all it has turned down, at most one
\* of them to a step; what a graph that is under way will return is not set yet.
GraphTypes ==
  /\ healerAt \in {"idle", "asking", "waiting", "diagnose", "check", "decide"}
  /\ crossCheck \in BOOLEAN /\ verdict \in {"none", "APPROVE", "MODIFY", "REJECT"}
  /\ steps \in 0 .. MaxSteps /\ made \in Nat /\ made <= 2 * steps
  /\ proposed \in 0 .. made /\ feedback \in 0 .. made /\ outcome \in 0 .. made
  /\ IsFiniteSet(turnedDown) /\ turnedDown \subseteq 1 .. made
  /\ Cardinality(turnedDown) <= steps

GraphAt ==
  /\ ~crossCheck => turnedDown = {}
  /\ healerAt \in {"diagnose", "check", "decide"} => outcome = 0
  /\ healerAt = "diagnose" =>
       /\ steps < MaxSteps
       /\ steps > 0 => feedback = proposed /\ feedback \in turnedDown
  /\ healerAt = "check" =>
       /\ crossCheck /\ steps > 0 /\ made <= 2 * steps - 1
       /\ Cardinality(turnedDown) <= steps - 1
       /\ proposed \notin turnedDown
  /\ healerAt = "decide" =>
       /\ crossCheck /\ steps > 0
       /\ \/ verdict \in {"APPROVE", "MODIFY"} /\ proposed \notin turnedDown
          \/ verdict = "REJECT" /\ feedback = proposed /\ proposed \in turnedDown

GraphResult ==
  /\ outcome \notin turnedDown
  /\ crossCheck /\ outcome # 0 => verdict \in {"APPROVE", "MODIFY"}

GraphInv == GraphTypes /\ GraphAt /\ GraphResult

LEMMA GraphInitially == HealingInit => GraphInv
<1>1. IsFiniteSet({}) /\ Cardinality({}) = 0
  BY FS_EmptySet
<1>. SUFFICES ASSUME HealingInit PROVE GraphInv
  OBVIOUS
<1>2. GraphTypes
  <2>1. /\ turnedDown = {} /\ steps = 0 /\ made = 0 /\ proposed = 0 /\ feedback = 0 /\ outcome = 0
        /\ healerAt = "idle" /\ verdict = "none" /\ 0 \in 0 .. MaxSteps
    BY HealingAssumption DEF HealingInit
  <2>2. crossCheck \in BOOLEAN
    BY DEF HealingInit
  <2>. QED
    BY <1>1, <2>1, <2>2 DEF GraphTypes
<1>3. GraphAt
  BY <1>1, HealingAssumption DEF HealingInit, GraphAt
<1>4. GraphResult
  BY <1>1, HealingAssumption DEF HealingInit, GraphResult
<1>. QED
  BY <1>2, <1>3, <1>4 DEF GraphInv

LEMMA GraphAtRest ==
  ASSUME GraphInv, UNCHANGED graphState,
         healerAt' \in {"idle", "asking", "waiting"} \/ healerAt' = healerAt
  PROVE  GraphInv'
  BY DEF GraphInv, GraphTypes, GraphAt, GraphResult, graphState

LEMMA InvokeKeeps ==
  ASSUME GraphInv, NEW cc \in BOOLEAN, Invoke(cc)
  PROVE  GraphInv'
  BY HealingAssumption, FS_EmptySet DEF GraphInv, GraphTypes, GraphAt, GraphResult, Invoke

LEMMA DiagnoseKeeps ==
  ASSUME GraphInv, Diagnose
  PROVE  GraphInv'
<1>. USE HealingAssumption DEF Diagnose
<1>1. /\ MaxSteps \in Nat /\ steps \in Nat /\ made \in Nat /\ steps < MaxSteps
      /\ made <= 2 * steps /\ proposed \in 0 .. made /\ outcome = 0
      /\ IsFiniteSet(turnedDown) /\ turnedDown \subseteq 1 .. made
      /\ Cardinality(turnedDown) <= steps /\ Cardinality(turnedDown) \in Nat
      /\ feedback \in 0 .. made
  BY FS_CardinalityType DEF GraphInv, GraphTypes, GraphAt, GraphResult
<1>2. steps' = steps + 1 /\ UNCHANGED <<crossCheck, verdict, feedback, turnedDown>>
  OBVIOUS
<1>3. /\ made' \in Nat /\ made' <= 2 * steps' - 1 /\ made <= made'
      /\ proposed' \in 0 .. made' /\ proposed' \notin turnedDown
  <2>1. CASE made' = made + 1 /\ proposed' = made + 1
    BY <1>1, <1>2, <2>1
  <2>2. CASE proposed' = 0 /\ UNCHANGED made
    BY <1>1, <1>2, <2>2
  <2>. QED
    BY <2>1, <2>2
<1>4. CASE crossCheck
  BY <1>1, <1>2, <1>3, <1>4 DEF GraphInv, GraphTypes, GraphAt, GraphResult
<1>5. CASE ~crossCheck
  <2>1. healerAt' = "idle" /\ outcome' = proposed' /\ turnedDown = {}
    BY <1>5 DEF Finalize, GraphInv, GraphTypes, GraphAt, GraphResult
  <2>. QED
    BY <1>1, <1>2, <1>3, <1>5, <2>1 DEF GraphInv, GraphTypes, GraphAt, GraphResult
<1>. QED
  BY <1>4, <1>5

LEMMA CrossCheckKeeps ==
  ASSUME GraphInv, CrossCheck
  PROVE  GraphInv'
<1>. USE HealingAssumption DEF CrossCheck
<1>1. /\ steps \in Nat /\ made \in Nat /\ steps > 0 /\ steps <= MaxSteps /\ crossCheck
      /\ made <= 2 * steps - 1 /\ proposed \in 1 .. made /\ outcome = 0
      /\ IsFiniteSet(turnedDown) /\ turnedDown \subseteq 1 .. made
      /\ Cardinality(turnedDown) <= steps - 1 /\ Cardinality(turnedDown) \in Nat
      /\ feedback \in 0 .. made /\ proposed \notin turnedDown
  BY FS_CardinalityType DEF GraphInv, GraphTypes, GraphAt, GraphResult
<1>2. healerAt' = "decide" /\ crossCheck' /\ crossCheck' \in BOOLEAN /\ UNCHANGED <<steps, outcome>>
  BY <1>1 DEF GraphInv
<1>3. CASE verdict' = "APPROVE" /\ UNCHANGED <<made, proposed, feedback, turnedDown>>
  <2>1. GraphTypes'
    BY <1>1, <1>2, <1>3 DEF GraphTypes
  <2>2. GraphAt'
    <3>1. proposed' \notin turnedDown' /\ verdict' = "APPROVE" /\ outcome' = 0 /\ steps' > 0
      BY <1>1, <1>2, <1>3
    <3>. HIDE DEF CrossCheck
    <3>. QED
      BY <1>2, <3>1 DEF GraphAt
  <2>3. GraphResult'
    BY <1>1, <1>2, <1>3 DEF GraphResult
  <2>. QED
    BY <2>1, <2>2, <2>3 DEF GraphInv
<1>4. CASE verdict' = "MODIFY" /\ UNCHANGED <<feedback, turnedDown>>
           /\ made' = made + 1 /\ proposed' = made + 1
  <2>1. GraphTypes'
    BY <1>1, <1>2, <1>4 DEF GraphTypes
  <2>2. GraphAt'
    <3>1. proposed' \notin turnedDown' /\ verdict' = "MODIFY" /\ outcome' = 0 /\ steps' > 0
      BY <1>1, <1>2, <1>4
    <3>. HIDE DEF CrossCheck
    <3>. QED
      BY <1>2, <3>1 DEF GraphAt
  <2>3. GraphResult'
    BY <1>1, <1>2, <1>4 DEF GraphResult
  <2>. QED
    BY <2>1, <2>2, <2>3 DEF GraphInv
<1>5. CASE verdict' = "MODIFY" /\ UNCHANGED <<feedback, turnedDown>> /\ UNCHANGED <<made, proposed>>
  <2>1. GraphTypes'
    BY <1>1, <1>2, <1>5 DEF GraphTypes
  <2>2. GraphAt'
    <3>1. proposed' \notin turnedDown' /\ verdict' = "MODIFY" /\ outcome' = 0 /\ steps' > 0
      BY <1>1, <1>2, <1>5
    <3>. HIDE DEF CrossCheck
    <3>. QED
      BY <1>2, <3>1 DEF GraphAt
  <2>3. GraphResult'
    BY <1>1, <1>2, <1>5 DEF GraphResult
  <2>. QED
    BY <2>1, <2>2, <2>3 DEF GraphInv
<1>6. CASE /\ verdict' = "REJECT" /\ feedback' = proposed
           /\ turnedDown' = turnedDown \cup {proposed} /\ UNCHANGED <<made, proposed>>
  <2>1. /\ IsFiniteSet(turnedDown') /\ Cardinality(turnedDown') = Cardinality(turnedDown) + 1
    BY <1>1, <1>6, FS_AddElement
  <2>. QED
    BY <1>1, <1>2, <1>6, <2>1 DEF GraphInv, GraphTypes, GraphAt, GraphResult
<1>. QED
  BY <1>3, <1>4, <1>5, <1>6

LEMMA DecideKeeps ==
  ASSUME GraphInv, Decide
  PROVE  GraphInv'
<1>1. /\ UNCHANGED <<crossCheck, steps, made, proposed, verdict, feedback, turnedDown>>
      /\ crossCheck /\ outcome = 0 /\ steps \in 0 .. MaxSteps /\ 0 \notin turnedDown
  BY HealingAssumption DEF Decide, GraphInv, GraphTypes, GraphAt, GraphResult
<1>2. CASE verdict # "REJECT"
  <2>1. healerAt' = "idle" /\ outcome' = proposed
    BY <1>2 DEF Decide, Finalize
  <2>. QED
    BY <1>1, <1>2, <2>1 DEF GraphInv, GraphTypes, GraphAt, GraphResult, Decide
<1>3. CASE verdict = "REJECT" /\ steps >= MaxSteps
  <2>1. healerAt' = "idle" /\ outcome' = 0
    BY <1>3 DEF Decide, Finalize
  <2>. QED
    BY <1>1, <1>3, <2>1 DEF GraphInv, GraphTypes, GraphAt, GraphResult, Decide
<1>4. CASE verdict = "REJECT" /\ ~(steps >= MaxSteps)
  <2>1. healerAt' = "diagnose" /\ outcome' = outcome
    BY <1>4 DEF Decide
  <2>. QED
    BY <1>1, <1>4, <2>1, HealingAssumption DEF GraphInv, GraphTypes, GraphAt, GraphResult, Decide
<1>. QED
  BY <1>2, <1>3, <1>4

LEMMA GraphKeeps ==
  ASSUME GraphInv, [HealingNext]_healingVars
  PROVE  GraphInv'
<1>1. CASE UNCHANGED healingVars
  BY <1>1, GraphAtRest DEF healingVars, graphState
<1>2. CASE Ask \/ WriteRequest \/ ReadAnswer \/ GiveUp \/ SessionTakes
  BY <1>2, GraphAtRest DEF Ask, WriteRequest, ReadAnswer, GiveUp, SessionTakes
<1>3. ASSUME NEW c \in Calls, Respond(c)
      PROVE  GraphInv'
  BY <1>3, GraphAtRest DEF Respond
<1>4. CASE GraphRaises
  BY <1>4, HealingAssumption DEF GraphRaises, Finalize, GraphInv, GraphTypes, GraphAt, GraphResult
<1>. QED
  BY <1>1, <1>2, <1>3, <1>4, InvokeKeeps, DiagnoseKeeps, CrossCheckKeeps, DecideKeeps
     DEF HealingNext

\* The graph never returns a proposal that was turned down, and asks again, with the
\* feedback to the last one, max_steps times at most, for any max_steps
\* (langgraph_graph.py, _decide_loop_or_finalize).
THEOREM RejectedStaysRejected == ComponentsSpec => []RejectedNotReturned
<1>1. ComponentsInit => GraphInv
  BY GraphInitially DEF ComponentsInit
<1>2. GraphInv /\ [ComponentsNext]_allVars => GraphInv'
  BY GraphKeeps, Projections
<1>3. GraphInv => RejectedNotReturned
  BY HealingAssumption, FS_CardinalityType DEF GraphInv, GraphTypes, GraphAt, GraphResult, RejectedNotReturned
<1>. QED
  BY <1>1, <1>2, <1>3, PTL DEF ComponentsSpec

\* Of the calls through a session: what has been asked, seen, worked on and answered.
ShakeTypes ==
  /\ healerAt \in {"idle", "asking", "waiting", "diagnose", "check", "decide"}
  /\ call \in 0 .. MaxCalls /\ baseline \in Nat /\ requested \in 0 .. call
  /\ responseFile \in [call : 0 .. MaxCalls, stamp : Nat]
  /\ seenRequests \subseteq 1 .. call /\ atWork \subseteq seenRequests
  /\ abandoned \subseteq Calls /\ answered \subseteq [for : Calls, from : Calls]
  /\ healerAt \in {"asking", "waiting"} => call # 0

\* A response is to a request the session is done with, and one newer than the
\* baseline has not been read.
ResponseIsNew ==
  /\ responseFile.stamp > 0 => responseFile.call \in seenRequests \ atWork
  /\ \A x \in answered : x.from \in seenRequests \ atWork
  /\ healerAt \in {"asking", "waiting"} /\ responseFile.stamp > baseline =>
       \A x \in answered : x.from # responseFile.call

\* A call that was asked has come to an end, or it is this one.
Ended(c) == c \in abandoned \/ \E x \in answered : x.for = c

AskedHasEnded ==
  \A c \in 1 .. call : c \in seenRequests \/ c = requested =>
    Ended(c) \/ (c = call /\ healerAt = "waiting")

ShakeInv == ShakeTypes /\ ResponseIsNew /\ AskedHasEnded /\ AnswerIsOwn

LEMMA ShakeInitially == HealingInit => ShakeInv
<1>. SUFFICES ASSUME HealingInit PROVE ShakeInv
  OBVIOUS
<1>. USE HealingAssumption DEF HealingInit
<1>1. responseFile.call = 0 /\ responseFile.stamp = 0 /\ answered = {} /\ call = 0
  BY DEF NoFile
<1>2. ShakeTypes
  BY DEF ShakeTypes, NoFile
<1>3. ResponseIsNew
  BY <1>1 DEF ResponseIsNew
<1>4. AskedHasEnded
  BY <1>1 DEF AskedHasEnded
<1>5. AnswerIsOwn
  BY <1>1 DEF AnswerIsOwn
<1>. QED
  BY <1>2, <1>3, <1>4, <1>5 DEF ShakeInv

\* What the graph does leaves the files alone.
LEMMA GraphLeavesFiles ==
  ASSUME ShakeInv, UNCHANGED fileShake,
         \/ UNCHANGED <<healerAt, call>>
         \/ /\ healerAt \notin {"asking", "waiting"}
            /\ healerAt' \in {"idle", "diagnose", "check", "decide"}
            /\ UNCHANGED call \/ (call < MaxCalls /\ call' = call + 1 /\ healerAt = "idle")
  PROVE  ShakeInv'
<1>. USE HealingAssumption DEF ShakeInv, fileShake
<1>1. call' \in call .. MaxCalls /\ (call' = call \/ call' = call + 1) /\ call \in Nat
  BY DEF ShakeTypes
<1>2. ShakeTypes'
  BY <1>1 DEF ShakeTypes
<1>3. ResponseIsNew'
  BY DEF ResponseIsNew
<1>4. AskedHasEnded'
  BY <1>1 DEF AskedHasEnded, Ended, ShakeTypes
<1>5. AnswerIsOwn'
  BY DEF AnswerIsOwn
<1>. QED
  BY <1>2, <1>3, <1>4, <1>5

LEMMA AskKeeps ==
  ASSUME ShakeInv, Ask \/ WriteRequest
  PROVE  ShakeInv'
<1>. USE HealingAssumption DEF ShakeInv
<1>1. CASE Ask
  <2>. USE <1>1 DEF Ask
  <2>1. ShakeTypes'
    BY DEF ShakeTypes
  <2>2. ResponseIsNew'
    BY DEF ResponseIsNew, ShakeTypes
  <2>3. AskedHasEnded'
    BY DEF AskedHasEnded, Ended, ShakeTypes
  <2>4. AnswerIsOwn'
    BY DEF AnswerIsOwn
  <2>. QED
    BY <2>1, <2>2, <2>3, <2>4
<1>2. CASE WriteRequest
  <2>. USE <1>2 DEF WriteRequest
  <2>1. ShakeTypes'
    BY DEF ShakeTypes
  <2>2. ResponseIsNew'
    BY DEF ResponseIsNew
  <2>3. AskedHasEnded'
    BY DEF AskedHasEnded, Ended
  <2>4. AnswerIsOwn'
    BY DEF AnswerIsOwn
  <2>. QED
    BY <2>1, <2>2, <2>3, <2>4
<1>. QED
  BY <1>1, <1>2

LEMMA SessionKeeps ==
  ASSUME ShakeInv, SessionTakes \/ \E c \in Calls : Respond(c)
  PROVE  ShakeInv'
<1>. USE HealingAssumption DEF ShakeInv
<1>1. CASE SessionTakes
  <2>. USE <1>1 DEF SessionTakes
  <2>1. ShakeTypes'
    BY DEF ShakeTypes
  <2>2. ResponseIsNew'
    BY DEF ResponseIsNew
  <2>3. AskedHasEnded'
    BY DEF AskedHasEnded, Ended
  <2>4. AnswerIsOwn'
    BY DEF AnswerIsOwn
  <2>. QED
    BY <2>1, <2>2, <2>3, <2>4
<1>2. ASSUME NEW c \in Calls, Respond(c)
      PROVE  ShakeInv'
  <2>. USE <1>2 DEF Respond
  <2>1. responseFile'.call = c /\ responseFile'.stamp = responseFile.stamp + 1
    OBVIOUS
  <2>2. ShakeTypes'
    BY DEF ShakeTypes, Calls
  <2>3. ResponseIsNew'
    BY <2>1 DEF ResponseIsNew, ShakeTypes
  <2>4. AskedHasEnded'
    BY DEF AskedHasEnded, Ended
  <2>5. AnswerIsOwn'
    BY DEF AnswerIsOwn
  <2>. QED
    BY <2>2, <2>3, <2>4, <2>5
<1>. QED
  BY <1>1, <1>2

LEMMA GiveUpKeeps ==
  ASSUME ShakeInv, GiveUp
  PROVE  ShakeInv'
<1>. USE HealingAssumption DEF ShakeInv, GiveUp
<1>1. call \in Calls
  BY DEF ShakeTypes, Calls
<1>2. ShakeTypes'
  BY <1>1 DEF ShakeTypes, Calls
<1>3. ResponseIsNew'
  BY DEF ResponseIsNew
<1>4. AskedHasEnded'
  BY DEF AskedHasEnded, Ended
<1>5. AnswerIsOwn'
  BY DEF AnswerIsOwn
<1>. QED
  BY <1>2, <1>3, <1>4, <1>5

\* Who reads the late answer to a call before his own finds that call given up, or
\* answered by one that came before it, which was late itself.
LEMMA ReadAnswerKeeps ==
  ASSUME ShakeInv, ReadAnswer
  PROVE  ShakeInv'
<1>. USE HealingAssumption DEF ShakeInv, ReadAnswer
<1>. DEFINE from == responseFile.call
            new  == [for |-> call, from |-> from]
<1>1. /\ from \in seenRequests \ atWork /\ from \in 1 .. call /\ call \in Calls /\ from \in Calls
      /\ from \in Nat /\ call \in Nat
  BY DEF ResponseIsNew, ShakeTypes, Calls
<1>2. \A x \in answered : x.from # from
  BY DEF ResponseIsNew
<1>3. answered' = answered \cup {new} /\ new.for = call /\ new.from = from
  OBVIOUS
<1>4. new.from = new.for \/ \E c \in abandoned : c <= new.from /\ new.from < new.for
  <2>1. CASE from = call
    BY <2>1
  <2>2. CASE from # call
    <3>1. Ended(from)
      BY <1>1, <2>2 DEF AskedHasEnded
    <3>2. CASE from \in abandoned
      BY <1>1, <2>2, <3>2
    <3>3. ASSUME NEW x \in answered, x.for = from
          PROVE  \E c \in abandoned : c <= from
      <4>1. x.from # x.for
        BY <1>2, <3>3
      <4>2. PICK c \in abandoned : c <= x.from /\ x.from < x.for
        BY <4>1 DEF AnswerIsOwn
      <4>3. c \in Nat /\ x.from \in Nat
        BY DEF ShakeTypes, Calls
      <4>. QED
        BY <1>1, <3>3, <4>2, <4>3
    <3>. QED
      BY <1>1, <2>2, <3>1, <3>2, <3>3 DEF Ended
  <2>. QED
    BY <2>1, <2>2
<1>5. ShakeTypes'
  <2>1. new \in [for : Calls, from : Calls]
    BY <1>1
  <2>. QED
    BY <1>3, <2>1 DEF ShakeTypes
<1>6. ResponseIsNew'
  BY <1>1, <1>3 DEF ResponseIsNew
<1>7. AskedHasEnded'
  BY <1>3 DEF AskedHasEnded, Ended
<1>8. AnswerIsOwn'
  <2>. HIDE DEF new
  <2>1. \A x, y \in answered' : x.from = y.from => x = y
    BY <1>2, <1>3 DEF AnswerIsOwn
  <2>2. \A x \in answered' :
          x.from = x.for \/ \E c \in abandoned : c <= x.from /\ x.from < x.for
    BY <1>3, <1>4 DEF AnswerIsOwn
  <2>. QED
    BY <2>1, <2>2 DEF AnswerIsOwn
<1>. QED
  BY <1>5, <1>6, <1>7, <1>8

LEMMA ShakeKeeps ==
  ASSUME ShakeInv, [HealingNext]_healingVars
  PROVE  ShakeInv'
<1>1. CASE UNCHANGED healingVars
  BY <1>1, GraphLeavesFiles DEF healingVars, fileShake
<1>2. ASSUME NEW cc \in BOOLEAN, Invoke(cc)
      PROVE  ShakeInv'
  BY <1>2, GraphLeavesFiles DEF Invoke
<1>3. CASE Diagnose
  BY <1>3, GraphLeavesFiles DEF Diagnose, Finalize
<1>4. CASE CrossCheck
  BY <1>4, GraphLeavesFiles DEF CrossCheck
<1>5. CASE Decide
  BY <1>5, GraphLeavesFiles DEF Decide, Finalize
<1>6. CASE GraphRaises
  BY <1>6, GraphLeavesFiles DEF GraphRaises, Finalize
<1>. QED
  BY <1>1, <1>2, <1>3, <1>4, <1>5, <1>6, AskKeeps, SessionKeeps, GiveUpKeeps, ReadAnswerKeeps
     DEF HealingNext

\* An answer is acted on once, by the call it is the answer to unless one of that
\* call's number or below was given up, for any number of calls, given up in any
\* order and answered in any (claude.py, the stale-response guard).
THEOREM AnswersAreOwn == ComponentsSpec => []AnswerIsOwn
<1>1. ComponentsInit => ShakeInv
  BY ShakeInitially DEF ComponentsInit
<1>2. ShakeInv /\ [ComponentsNext]_allVars => ShakeInv'
  BY ShakeKeeps, Projections
<1>3. ShakeInv => AnswerIsOwn
  BY DEF ShakeInv
<1>. QED
  BY <1>1, <1>2, <1>3, PTL DEF ComponentsSpec

-----------------------------------------------------------------------------
(* The git repository under the monitor *)

\* A fix that is being tried has a number no branch, trial or verdict has had, and is
\* committed on a branch of its own; what the agent did in a branch that waits for
\* its verdict was there when it was committed, or came with a fix that was kept; and
\* what is pinned is in the index or in a branch, wherever the working tree is.
IsFix(e) == e[1] = "fix"
Waiters == onTrial \cup (IF fixAt = "applying" THEN {fixes} ELSE {})
CameKept(e) == \E f \in keptFixes : e \in base[f]

BranchesApart ==
  /\ existing \subseteq 0 .. fixes
  /\ fixAt = "edited" => fixes \notin existing
  /\ fixAt # "idle" => fixes # 0 /\ fixes \notin onTrial \cup keptFixes
  /\ fixAt = "branched" => checkedOut = fixes

PinnedIsSafe == \A e \in pinned : e \in staged \/ \E b \in existing : e \in history[b]

FixesComeKept ==
  /\ \A e \in history[0] : IsFix(e) => CameKept(e)
  /\ \A b \in Waiters : \A e \in history[b] : IsFix(e) => e \in base[b] \/ CameKept(e)

BranchInv == FixBranchesTypeOK /\ BranchesApart /\ PinnedIsSafe /\ FixesComeKept

LEMMA BranchInitially == FixBranchesInit => BranchInv
<1>. SUFFICES ASSUME FixBranchesInit PROVE BranchInv
  OBVIOUS
<1>. USE FixBranchesAssumption DEF FixBranchesInit
<1>1. /\ autoMerge \in BOOLEAN /\ existing = {0} /\ history \in [Branches -> SUBSET Edits]
      /\ \A b \in Branches : history[b] = {}
      /\ checkedOut = 0 /\ unstaged = {} /\ staged = {} /\ fixes = 0 /\ fixAt = "idle"
      /\ onTrial = {} /\ keptFixes = {} /\ pinned = {}
  OBVIOUS
<1>2. /\ base \in [Fixes -> SUBSET Edits] /\ ownEdits \in 0 .. MaxOwnEdits
      /\ gitFailures \in 0 .. MaxGitFailures /\ 0 \in Branches /\ 0 \in 0 .. MaxFixes
  BY DEF Branches
<1>3. FixBranchesTypeOK
  BY <1>1, <1>2 DEF FixBranchesTypeOK
<1>4. BranchesApart
  BY <1>1 DEF BranchesApart
<1>5. PinnedIsSafe /\ FixesComeKept
  BY <1>1, <1>2 DEF PinnedIsSafe, FixesComeKept, Waiters
<1>. QED
  BY <1>3, <1>4, <1>5 DEF BranchInv

\* What is on trial or was kept is a branch.
LEMMA WaitersAreBranches ==
  ASSUME BranchInv
  PROVE  /\ Waiters \subseteq Fixes /\ keptFixes \subseteq Fixes /\ onTrial \subseteq Fixes
         /\ Fixes \subseteq Branches /\ 0 \in Branches /\ checkedOut \in Branches
         /\ checkedOut \in existing /\ existing \subseteq Branches
         /\ fixes \in 0 .. MaxFixes /\ fixes \in Branches
<1>. USE FixBranchesAssumption
<1>1. /\ onTrial \subseteq 1 .. fixes /\ keptFixes \subseteq 1 .. fixes /\ fixes \in 0 .. MaxFixes
      /\ existing \subseteq Branches /\ 0 \in existing /\ checkedOut \in existing
  BY DEF BranchInv, FixBranchesTypeOK
<1>2. fixes \in Nat /\ fixes <= MaxFixes /\ fixes \in Branches /\ Fixes \subseteq Branches
  BY <1>1 DEF Branches, Fixes
<1>3. 1 .. fixes \subseteq Fixes
  BY <1>2 DEF Fixes
<1>4. Waiters \subseteq Fixes
  <2>1. fixAt = "applying" => fixes \in Fixes
    BY <1>2 DEF BranchInv, BranchesApart, Fixes
  <2>. QED
    BY <1>1, <1>3, <2>1 DEF Waiters
<1>. QED
  BY <1>1, <1>2, <1>3, <1>4

\* The history of no branch that waits, and no base, has changed.
LEMMA TrialsStay ==
  ASSUME BranchInv, UNCHANGED <<history, base, keptFixes>>, Waiters' \subseteq Waiters
  PROVE  FixesComeKept'
  BY DEF BranchInv, FixesComeKept, CameKept

LEMMA OperatorKeepsBranches ==
  ASSUME BranchInv, OperatorEdits \/ OperatorCommits \/ OperatorSwitches
  PROVE  BranchInv'
<1>. USE FixBranchesAssumption
<1>1. FixBranchesTypeOK /\ BranchesApart /\ PinnedIsSafe /\ FixesComeKept
  BY DEF BranchInv
<1>2. CASE OperatorEdits
  <2>1. <<"own", ownEdits + 1>> \in Edits
    BY <1>1, <1>2 DEF OperatorEdits, FixBranchesTypeOK, Edits
  <2>2. FixBranchesTypeOK'
    BY <1>1, <1>2, <2>1 DEF OperatorEdits, FixBranchesTypeOK
  <2>3. BranchesApart' /\ PinnedIsSafe'
    BY <1>1, <1>2 DEF OperatorEdits, BranchesApart, PinnedIsSafe
  <2>4. FixesComeKept'
    BY <1>2, TrialsStay DEF OperatorEdits, Waiters
  <2>. QED
    BY <2>2, <2>3, <2>4 DEF BranchInv
<1>3. CASE OperatorCommits
  <2>. DEFINE his == {e \in unstaged \cup staged : e[1] = "own"}
  <2>1. /\ history' = [history EXCEPT ![checkedOut] = @ \cup his]
        /\ unstaged' = unstaged \ his /\ staged' = staged \ his
        /\ UNCHANGED <<autoMerge, existing, checkedOut, fixes, fixAt, onTrial, keptFixes, base,
                       ownEdits, pinned, gitFailures>>
    BY <1>3 DEF OperatorCommits
  <2>2. /\ history \in [Branches -> SUBSET Edits] /\ his \subseteq Edits
    BY <1>1 DEF FixBranchesTypeOK
  <2>3. \A e \in his : ~IsFix(e)
    BY DEF IsFix
  <2>. HIDE DEF his
  <2>4. history' \in [Branches -> SUBSET Edits]
    BY <2>1, <2>2, WaitersAreBranches
  <2>5. \A b \in Branches : history'[b] = history[b] \/ history'[b] = history[b] \cup his
    BY <2>1, <2>2
  <2>6. FixBranchesTypeOK'
    BY <1>1, <2>1, <2>4 DEF FixBranchesTypeOK
  <2>7. BranchesApart'
    BY <1>1, <2>1 DEF BranchesApart
  <2>8. PinnedIsSafe'
    <3>1. his \subseteq history'[checkedOut]
      BY <2>1, <2>2, WaitersAreBranches
    <3>2. checkedOut \in existing' /\ existing' = existing /\ pinned' = pinned
      BY <2>1, WaitersAreBranches
    <3>3. \A b \in existing : history[b] \subseteq history'[b]
      BY <2>5, WaitersAreBranches
    <3>. QED
      BY <1>1, <2>1, <3>1, <3>2, <3>3 DEF PinnedIsSafe
  <2>9. FixesComeKept'
    <3>1. Waiters' = Waiters /\ keptFixes' = keptFixes /\ base' = base
      BY <2>1 DEF Waiters
    <3>2. Waiters \subseteq Branches /\ 0 \in Branches
      BY WaitersAreBranches
    <3>3. \A b \in Branches : \A e \in history'[b] : IsFix(e) => e \in history[b]
      BY <2>3, <2>5
    <3>. QED
      BY <1>1, <3>1, <3>2, <3>3 DEF FixesComeKept, CameKept
  <2>. QED
    BY <2>6, <2>7, <2>8, <2>9 DEF BranchInv
<1>4. CASE OperatorSwitches
  <2>1. FixBranchesTypeOK'
    BY <1>1, <1>4 DEF OperatorSwitches, FixBranchesTypeOK
  <2>2. BranchesApart' /\ PinnedIsSafe'
    BY <1>1, <1>4 DEF OperatorSwitches, BranchesApart, PinnedIsSafe
  <2>3. FixesComeKept'
    BY <1>4, TrialsStay DEF OperatorSwitches, Waiters
  <2>. QED
    BY <2>1, <2>2, <2>3 DEF BranchInv
<1>. QED
  BY <1>2, <1>3, <1>4

LEMMA TrialKeepsBranches ==
  ASSUME BranchInv, AgentEdits \/ ApplyFix \/ FixCrashes \/ FixesForgotten
  PROVE  BranchInv'
<1>. USE FixBranchesAssumption
<1>1. FixBranchesTypeOK /\ BranchesApart /\ PinnedIsSafe /\ FixesComeKept
  BY DEF BranchInv
<1>2. CASE AgentEdits
  <2>1. <<"fix", fixes + 1>> \in Edits /\ fixes + 1 \in 0 .. MaxFixes
    BY <1>1, <1>2 DEF AgentEdits, FixBranchesTypeOK, Edits, Fixes
  <2>2. /\ fixes' = fixes + 1 /\ fixAt' = "edited" /\ fixes \in Nat
        /\ unstaged' = unstaged \cup {<<"fix", fixes + 1>>}
        /\ UNCHANGED <<autoMerge, existing, history, checkedOut, staged, onTrial, keptFixes, base,
                       ownEdits, pinned, gitFailures>>
    BY <1>1, <1>2 DEF AgentEdits, FixBranchesTypeOK
  <2>3. FixBranchesTypeOK'
    BY <1>1, <2>1, <2>2 DEF FixBranchesTypeOK
  <2>4. BranchesApart'
    BY <1>1, <2>2 DEF BranchesApart, FixBranchesTypeOK
  <2>5. PinnedIsSafe'
    BY <1>1, <2>2 DEF PinnedIsSafe
  <2>6. FixesComeKept'
    BY <2>2, TrialsStay DEF Waiters
  <2>. QED
    BY <2>3, <2>4, <2>5, <2>6 DEF BranchInv
<1>3. CASE ApplyFix
  <2>1. /\ fixAt = "applying" /\ fixAt' = "idle" /\ onTrial' = onTrial \cup {fixes}
        /\ UNCHANGED <<autoMerge, existing, history, checkedOut, unstaged, staged, fixes, keptFixes,
                       base, ownEdits, pinned, gitFailures>>
    BY <1>3 DEF ApplyFix
  <2>2. fixes \in 1 .. fixes
    BY <1>1, <2>1 DEF BranchesApart, FixBranchesTypeOK
  <2>3. FixBranchesTypeOK'
    BY <1>1, <2>1, <2>2 DEF FixBranchesTypeOK
  <2>4. BranchesApart' /\ PinnedIsSafe'
    BY <1>1, <2>1 DEF BranchesApart, PinnedIsSafe
  <2>5. FixesComeKept'
    BY <2>1, TrialsStay DEF Waiters
  <2>. QED
    BY <2>3, <2>4, <2>5 DEF BranchInv
<1>4. CASE FixCrashes
  <2>1. /\ fixAt = "applying" /\ fixAt' = "idle" /\ onTrial' = onTrial /\ unstaged' = {}
        /\ UNCHANGED <<autoMerge, existing, history, checkedOut, staged, fixes, keptFixes, base,
                       ownEdits, pinned, gitFailures>>
    BY <1>4 DEF FixCrashes, Discard
  <2>2. FixBranchesTypeOK'
    BY <1>1, <2>1 DEF FixBranchesTypeOK
  <2>3. BranchesApart' /\ PinnedIsSafe'
    BY <1>1, <2>1 DEF BranchesApart, PinnedIsSafe
  <2>4. FixesComeKept'
    BY <2>1, TrialsStay DEF Waiters
  <2>. QED
    BY <2>2, <2>3, <2>4 DEF BranchInv
<1>5. CASE FixesForgotten
  <2>1. /\ gitFailures < MaxGitFailures /\ gitFailures' = gitFailures + 1
        /\ fixAt' = "idle" /\ onTrial' = {}
        /\ UNCHANGED <<autoMerge, existing, history, checkedOut, unstaged, staged, fixes, keptFixes,
                       base, ownEdits, pinned>>
    BY <1>5 DEF FixesForgotten, Fails
  <2>2. FixBranchesTypeOK'
    BY <1>1, <2>1 DEF FixBranchesTypeOK
  <2>3. BranchesApart' /\ PinnedIsSafe'
    BY <1>1, <2>1 DEF BranchesApart, PinnedIsSafe
  <2>4. FixesComeKept'
    BY <2>1, TrialsStay DEF Waiters
  <2>. QED
    BY <2>2, <2>3, <2>4 DEF BranchInv
<1>. QED
  BY <1>2, <1>3, <1>4, <1>5


LEMMA CommitKeepsBranches ==
  ASSUME BranchInv, CreateFixBranch \/ StageAndCommitAll
  PROVE  BranchInv'
<1>. USE FixBranchesAssumption
<1>1. FixBranchesTypeOK /\ BranchesApart /\ PinnedIsSafe /\ FixesComeKept
  BY DEF BranchInv
<1>2. history \in [Branches -> SUBSET Edits] /\ base \in [Fixes -> SUBSET Edits]
  BY <1>1 DEF FixBranchesTypeOK
<1>3. CASE CreateFixBranch
  <2>1. /\ fixAt = "edited" /\ fixes # 0 /\ fixes \notin existing
        /\ fixes \notin onTrial \cup keptFixes
        /\ UNCHANGED <<autoMerge, unstaged, staged, fixes, onTrial, keptFixes, base, ownEdits, pinned>>
    BY <1>1, <1>3 DEF CreateFixBranch, BranchesApart
  <2>2. CASE Fails /\ fixAt' = "idle" /\ UNCHANGED <<existing, checkedOut, history>>
    <3>1. gitFailures' \in 0 .. MaxGitFailures
      BY <1>1, <2>2 DEF Fails, FixBranchesTypeOK
    <3>2. FixBranchesTypeOK'
      BY <1>1, <2>1, <2>2, <3>1 DEF FixBranchesTypeOK
    <3>3. BranchesApart' /\ PinnedIsSafe'
      BY <1>1, <2>1, <2>2 DEF BranchesApart, PinnedIsSafe
    <3>4. FixesComeKept'
      BY <2>1, <2>2, TrialsStay DEF Waiters
    <3>. QED
      BY <3>2, <3>3, <3>4 DEF BranchInv
  <2>3. CASE /\ existing' = existing \cup {fixes} /\ checkedOut' = fixes
             /\ history' = [history EXCEPT ![fixes] = history[checkedOut]]
             /\ fixAt' = "branched" /\ UNCHANGED gitFailures
    <3>1. /\ history' \in [Branches -> SUBSET Edits]
          /\ \A b \in Branches : b # fixes => history'[b] = history[b]
      BY <1>2, <2>3, WaitersAreBranches
    <3>2. existing' \subseteq Branches /\ {0, checkedOut'} \subseteq existing'
      BY <1>1, <2>3, WaitersAreBranches DEF FixBranchesTypeOK
    <3>3. FixBranchesTypeOK'
      BY <1>1, <2>1, <2>3, <3>1, <3>2 DEF FixBranchesTypeOK
    <3>4. BranchesApart'
      <4>1. fixes \in 0 .. fixes
        BY <1>1 DEF FixBranchesTypeOK
      <4>. QED
        BY <1>1, <2>1, <2>3, <4>1 DEF BranchesApart
    <3>5. PinnedIsSafe'
      BY <1>1, <2>1, <2>3, <3>1, WaitersAreBranches DEF PinnedIsSafe
    <3>6. FixesComeKept'
      <4>1. Waiters' = onTrial /\ onTrial \subseteq Waiters
        BY <2>1, <2>3 DEF Waiters
      <4>2. \A b \in {0} \cup onTrial : history'[b] = history[b]
        BY <2>1, <3>1, WaitersAreBranches
      <4>. QED
        BY <1>1, <2>1, <4>1, <4>2 DEF FixesComeKept, CameKept
    <3>. QED
      BY <3>3, <3>4, <3>5, <3>6 DEF BranchInv
  <2>. QED
    BY <1>3, <2>2, <2>3 DEF CreateFixBranch
<1>4. CASE StageAndCommitAll
  <2>1. /\ fixAt = "branched" /\ fixAt' = "applying" /\ checkedOut = fixes /\ fixes # 0
        /\ fixes \notin onTrial \cup keptFixes /\ fixes \in Fixes
        /\ pinned' = pinned \cup unstaged \cup staged /\ unstaged' = {}
        /\ base' = [base EXCEPT ![fixes] = history'[checkedOut]]
        /\ UNCHANGED <<autoMerge, existing, checkedOut, fixes, onTrial, keptFixes, ownEdits>>
    BY <1>1, <1>4 DEF StageAndCommitAll, BranchesApart, FixBranchesTypeOK, Fixes
  <2>2. /\ unstaged \subseteq Edits /\ staged \subseteq Edits /\ pinned \subseteq Edits
    BY <1>1 DEF FixBranchesTypeOK
  <2>3. \/ /\ history' = [history EXCEPT ![fixes] = @ \cup unstaged \cup staged]
           /\ staged' = {} /\ gitFailures' = gitFailures
        \/ Fails /\ staged' = staged \cup unstaged /\ history' = history
    BY <1>4, <2>1 DEF StageAndCommitAll
  <2>4. gitFailures' \in 0 .. MaxGitFailures
    BY <1>1, <2>3 DEF Fails, FixBranchesTypeOK
  <2>5. /\ history' \in [Branches -> SUBSET Edits] /\ staged' \subseteq Edits
        /\ \A b \in Branches : history[b] \subseteq history'[b]
        /\ \A b \in Branches : b # fixes => history'[b] = history[b]
    BY <1>2, <2>2, <2>3, WaitersAreBranches
  <2>6. /\ base' \in [Fixes -> SUBSET Edits] /\ base'[fixes] = history'[fixes]
        /\ \A f \in Fixes : f # fixes => base'[f] = base[f]
    BY <1>2, <2>1, <2>5, WaitersAreBranches
  <2>7. unstaged \cup staged \subseteq staged' \cup history'[fixes]
    BY <1>2, <2>3, WaitersAreBranches
  <2>8. FixBranchesTypeOK'
    BY <1>1, <2>1, <2>2, <2>4, <2>5, <2>6 DEF FixBranchesTypeOK
  <2>9. BranchesApart'
    BY <1>1, <2>1 DEF BranchesApart
  <2>10. PinnedIsSafe'
    <3>1. fixes \in existing'
      BY <2>1, WaitersAreBranches
    <3>2. \A b \in existing : b \in existing' /\ history[b] \subseteq history'[b]
      BY <2>1, <2>5, WaitersAreBranches
    <3>3. \A e \in unstaged \cup staged : e \in staged' \/ \E b \in existing' : e \in history'[b]
      BY <2>7, <3>1
    <3>. QED
      BY <1>1, <2>1, <3>2, <3>3 DEF PinnedIsSafe
  <2>11. FixesComeKept'
    <3>1. Waiters' = onTrial \cup {fixes} /\ onTrial \subseteq Waiters
      BY <2>1 DEF Waiters
    <3>2. \A b \in {0} \cup onTrial : history'[b] = history[b]
      BY <2>1, <2>5, WaitersAreBranches
    <3>3. \A f \in onTrial \cup keptFixes : base'[f] = base[f]
      BY <2>1, <2>6, WaitersAreBranches
    <3>4. \A e : CameKept(e)' <=> CameKept(e)
      BY <2>1, <3>3 DEF CameKept
    <3>. QED
      BY <1>1, <2>6, <3>1, <3>2, <3>3, <3>4 DEF FixesComeKept
  <2>. QED
    BY <2>8, <2>9, <2>10, <2>11 DEF BranchInv
<1>. QED
  BY <1>3, <1>4

LEMMA VerdictKeepsBranches ==
  ASSUME BranchInv, NEW f \in Fixes, FixRegresses(f) \/ FixVerified(f)
  PROVE  BranchInv'
<1>. USE FixBranchesAssumption
<1>1. FixBranchesTypeOK /\ BranchesApart /\ PinnedIsSafe /\ FixesComeKept
  BY DEF BranchInv
<1>2. CASE FixRegresses(f)
  <2>1. /\ fixAt = "idle" /\ fixAt' = fixAt /\ onTrial' = onTrial \ {f}
        /\ unstaged' = {} \/ unstaged' = unstaged
        /\ UNCHANGED <<autoMerge, existing, history, checkedOut, staged, fixes, keptFixes, base,
                       ownEdits, pinned, gitFailures>>
    BY <1>2 DEF FixRegresses, Discard
  <2>2. FixBranchesTypeOK'
    BY <1>1, <2>1 DEF FixBranchesTypeOK
  <2>3. BranchesApart' /\ PinnedIsSafe'
    BY <1>1, <2>1 DEF BranchesApart, PinnedIsSafe
  <2>4. FixesComeKept'
    BY <2>1, TrialsStay DEF Waiters
  <2>. QED
    BY <2>2, <2>3, <2>4 DEF BranchInv
<1>3. CASE FixVerified(f)
  <2>1. /\ fixAt = "idle" /\ fixAt' = fixAt /\ f \in onTrial
        /\ onTrial' = onTrial \ {f} /\ keptFixes' = keptFixes \cup {f}
        /\ UNCHANGED <<autoMerge, checkedOut, unstaged, staged, fixes, base, ownEdits, pinned,
                       gitFailures>>
    BY <1>3 DEF FixVerified
  <2>2. /\ history \in [Branches -> SUBSET Edits] /\ f \in Branches /\ f # 0
        /\ checkedOut \in Branches
    BY <1>1, WaitersAreBranches DEF FixBranchesTypeOK, Fixes
  <2>3. \/ /\ history' = [history EXCEPT ![checkedOut] = @ \cup history[f]]
           /\ \/ history[checkedOut] \cup history[f] = history[f]
              \/ history[checkedOut] \cup history[f] = history[checkedOut]
           /\ existing' = existing \ ({f} \ {checkedOut})
        \/ existing' = existing /\ history' = history
    BY <1>3 DEF FixVerified, KeepBranch
  <2>4. /\ history' \in [Branches -> SUBSET Edits]
        /\ existing' \subseteq existing /\ 0 \in existing' /\ checkedOut \in existing'
    <3>1. 0 \in existing /\ checkedOut \in existing
      BY <1>1 DEF FixBranchesTypeOK
    <3>. QED
      BY <2>2, <2>3, <3>1
  <2>5. /\ \A b \in Branches : history[b] \subseteq history'[b]
        /\ \A b \in Branches : history'[b] = history[b] \/ history'[b] = history[f]
        /\ f \notin existing' => history[f] \subseteq history'[checkedOut] \/ f \notin existing
        /\ \A b \in existing : b \in existing' \/ b = f
    BY <2>2, <2>3
  <2>6. FixBranchesTypeOK'
    BY <1>1, <2>1, <2>4 DEF FixBranchesTypeOK
  <2>7. BranchesApart'
    BY <1>1, <2>1, <2>4 DEF BranchesApart
  <2>8. PinnedIsSafe'
    <3>1. \A b \in existing : \E c \in existing' : history[b] \subseteq history'[c]
      <4>. SUFFICES ASSUME NEW b \in existing
                    PROVE  \E c \in existing' : history[b] \subseteq history'[c]
        OBVIOUS
      <4>1. CASE b \in existing'
        BY <2>5, <4>1, WaitersAreBranches
      <4>2. CASE b \notin existing'
        BY <2>4, <2>5, <4>2
      <4>. QED
        BY <4>1, <4>2
    <3>. QED
      BY <1>1, <2>1, <3>1 DEF PinnedIsSafe
  <2>9. FixesComeKept'
    <3>1. Waiters' \subseteq Waiters /\ f \in Waiters /\ Waiters \subseteq Branches /\ 0 \in Branches
      BY <2>1, WaitersAreBranches DEF Waiters
    <3>2. \A e : CameKept(e) \/ e \in base[f] => CameKept(e)'
      BY <2>1 DEF CameKept
    <3>3. \A e \in history[f] : IsFix(e) => CameKept(e)'
      BY <1>1, <3>1, <3>2 DEF FixesComeKept
    <3>4. \A e \in history'[0] : IsFix(e) => CameKept(e)'
      BY <1>1, <2>5, <3>1, <3>2, <3>3 DEF FixesComeKept
    <3>5. \A b \in Waiters' : \A e \in history'[b] : IsFix(e) => e \in base[b] \/ CameKept(e)'
      BY <1>1, <2>5, <3>1, <3>2, <3>3 DEF FixesComeKept
    <3>. QED
      BY <2>1, <3>4, <3>5 DEF FixesComeKept
  <2>. QED
    BY <2>6, <2>7, <2>8, <2>9 DEF BranchInv
<1>. QED
  BY <1>2, <1>3

LEMMA BranchesKeep ==
  ASSUME BranchInv, [FixBranchesNext]_branchVars
  PROVE  BranchInv'
<1>1. CASE OperatorEdits \/ OperatorCommits \/ OperatorSwitches
  BY <1>1, OperatorKeepsBranches
<1>2. CASE AgentEdits \/ ApplyFix \/ FixCrashes \/ FixesForgotten
  BY <1>2, TrialKeepsBranches
<1>3. CASE CreateFixBranch \/ StageAndCommitAll
  BY <1>3, CommitKeepsBranches
<1>4. CASE \E f \in Fixes : FixRegresses(f) \/ FixVerified(f)
  BY <1>4, VerdictKeepsBranches
<1>5. CASE UNCHANGED branchVars
  BY <1>5 DEF branchVars, BranchInv, FixBranchesTypeOK, BranchesApart, PinnedIsSafe,
              FixesComeKept, Waiters, CameKept
<1>. QED
  BY <1>1, <1>2, <1>3, <1>4, <1>5 DEF FixBranchesNext

\* What was there when a fix was committed is in a branch or in the working tree, and
\* an edit of the agent is in the operator's branch only because a fix it was part of
\* was kept (git_ops.py, discard_branch and keep_branch), whatever the operator edits,
\* commits and checks out, however often a git command fails or the monitor is killed.
THEOREM WorkIsKept == ComponentsSpec => []WorkKept
<1>1. ComponentsInit => BranchInv
  BY BranchInitially DEF ComponentsInit
<1>2. BranchInv /\ [ComponentsNext]_allVars => BranchInv'
  BY Projections, BranchesKeep
<1>3. BranchInv => WorkKept
  BY DEF BranchInv, PinnedIsSafe, FixesComeKept, CameKept, IsFix, WorkKept
<1>. QED
  BY <1>1, <1>2, <1>3, PTL DEF ComponentsSpec

-----------------------------------------------------------------------------
(* state.json *)

\* Rows of reset_history that any document can have: a reset that has read the file
\* and not recorded itself has none yet.
RowsBegun == IF resetAt = "loaded" THEN resetsBegun - 1 ELSE resetsBegun

Stations == [at : {"idle", "open", "write", "rename", "rewrite", "done"}, ino : {0} \cup FileInodes]

FileTypes ==
  /\ content \in [FileInodes -> Docs \cup {Torn}]
  /\ stateName \in {0} \cup FileInodes /\ tmpName \in {0} \cup FileInodes
  /\ memory \in [Writers -> Docs] /\ saving \in [Writers -> Stations]
  /\ resetAt \in {"none", "loaded", "saving"} /\ kept \in 0 .. MaxResets
  /\ resetsBegun \in 0 .. MaxResets
  /\ resetAt = "loaded" => resetsBegun # 0

FileFlags ==
  /\ upAndRunning \in BOOLEAN /\ alone \in BOOLEAN /\ cleared \in BOOLEAN
  /\ overlapped \in BOOLEAN /\ fallenBack \in BOOLEAN

\* No document has more rows than resets have begun.
RowsAreBegun ==
  /\ \A i \in FileInodes : content[i] = Torn \/ content[i].resets <= RowsBegun
  /\ \A w \in Writers : memory[w].resets <= RowsBegun

\* Who saves runs, and has an inode open between open() and the rename.
SaversRun ==
  /\ saving["monitor"].at # "idle" => upAndRunning
  /\ saving["reset"].at # "idle" => resetAt = "saving"
  /\ \A w \in Writers :
       /\ saving[w].at \in {"idle", "open"} => saving[w].ino = 0
       /\ saving[w].at \in {"write", "rename", "rewrite"} => saving[w].ino # 0

\* Of two saves that are past their open() one has overlapped the other; a save that
\* has not writes a file that nobody reads yet, and that alone can be state.json.tmp.
SaveApart(w) ==
  /\ \A v \in Writers \ {w} : saving[v].at \in {"idle", "open"}
  /\ saving[w].at # "rewrite"
  /\ saving[w].at = "write" => saving[w].ino # stateName /\ content[saving[w].ino] = Torn
  /\ saving[w].at \in {"write", "rename"} => tmpName \in {0, saving[w].ino}
  /\ saving[w].at = "rename" => content[saving[w].ino] # Torn

SavesApart ==
  /\ stateName # 0 => stateName # tmpName
  /\ \A w \in Writers :
       overlapped \/ fallenBack \/ saving[w].at \in {"idle", "open"} \/ SaveApart(w)

\* What a reset can count on that has no monitor beside it: the file that is read when
\* it ends is the one it has written.
AloneSaves ==
  LET s == saving["reset"]
  IN alone /\ resetAt # "none" =>
       /\ ~upAndRunning
       /\ s.at = "write" => tmpName \in {0, s.ino} /\ content[s.ino] = Torn
       /\ s.at = "rename" /\ tmpName # 0 => content[tmpName] = memory["reset"]
       /\ s.at = "rewrite" => tmpName = 0 /\ s.ino = stateName /\ content[s.ino] = Torn
       /\ s.at = "done" => /\ tmpName = 0 /\ stateName # 0
                           /\ content[stateName] = memory["reset"]

\* Every document a later start or save can use has the rows that were kept, and no
\* restarts when none was counted since.
Keeps(doc) == kept <= doc.resets /\ (cleared => doc.restarts = 0)

DocumentsKeep ==
  /\ stateName # 0 => Keeps(content[stateName])
  /\ tmpName # 0 => Keeps(content[tmpName])
  /\ stateName = 0 => kept = 0
  /\ upAndRunning => Keeps(memory["monitor"])
  /\ resetAt # "none" => kept <= memory["reset"].resets
  /\ resetAt = "saving" => memory["reset"].restarts = 0
  /\ alone /\ resetAt = "saving" => kept < memory["reset"].resets

FileInv ==
  /\ FileTypes /\ FileFlags /\ RowsAreBegun /\ SaversRun /\ SavesApart /\ ReadersSeeWhole
  /\ AloneSaves /\ DocumentsKeep

LEMMA DocFacts ==
  /\ Fresh \in Docs /\ Torn \notin Docs
  /\ Fresh.resets = 0 /\ Fresh.restarts = 0 /\ Torn.resets = MaxResets + 1 /\ Torn.restarts = 0
  /\ \A d \in Docs : /\ d.restarts \in 0 .. MaxCounted /\ d.resets \in 0 .. MaxResets
                     /\ \A m \in 0 .. MaxCounted : [d EXCEPT !.restarts = m] \in Docs
                     /\ \A m \in 0 .. MaxCounted : [d EXCEPT !.restarts = m].restarts = m
                     /\ \A m \in 0 .. MaxCounted : [d EXCEPT !.restarts = m].resets = d.resets
  /\ \A m \in 0 .. MaxCounted, n \in 0 .. MaxResets : [restarts |-> m, resets |-> n] \in Docs
<1>. USE StateFileAssumption
<1>1. Fresh \in Docs /\ Fresh.resets = 0 /\ Fresh.restarts = 0
  BY DEF Fresh, Docs
<1>2. Torn.resets = MaxResets + 1 /\ Torn.restarts = 0
  BY DEF Torn
<1>3. ASSUME NEW d \in Docs
      PROVE  /\ d.restarts \in 0 .. MaxCounted /\ d.resets \in 0 .. MaxResets
             /\ \A m \in 0 .. MaxCounted : [d EXCEPT !.restarts = m] \in Docs
             /\ \A m \in 0 .. MaxCounted : [d EXCEPT !.restarts = m].restarts = m
             /\ \A m \in 0 .. MaxCounted : [d EXCEPT !.restarts = m].resets = d.resets
  BY DEF Docs
<1>4. Torn \notin Docs
  BY <1>2, <1>3
<1>5. \A m \in 0 .. MaxCounted, n \in 0 .. MaxResets : [restarts |-> m, resets |-> n] \in Docs
  BY DEF Docs
<1>. QED
  BY <1>1, <1>2, <1>3, <1>4, <1>5

LEMMA WriterFacts ==
  /\ "monitor" \in Writers /\ "reset" \in Writers
  /\ \A w \in Writers : w \in {"monitor", "reset"}
  /\ Idle \in Stations /\ Idle.at = "idle" /\ Idle.ino = 0
  /\ \A s \in Stations : /\ s.at \in {"idle", "open", "write", "rename", "rewrite", "done"}
                         /\ s.ino \in {0} \cup FileInodes
  BY DEF Writers, Idle, Stations

\* One save takes a step, the other one stays where it is.
LEMMA SavingStep ==
  ASSUME FileTypes, NEW w \in Writers, NEW i \in {0} \cup FileInodes,
         NEW a \in {"idle", "open", "write", "rename", "rewrite", "done"},
         saving' = [saving EXCEPT ![w] = [at |-> a, ino |-> i]]
  PROVE  /\ saving' \in [Writers -> Stations]
         /\ saving'[w].at = a /\ saving'[w].ino = i
         /\ \A v \in Writers \ {w} : saving'[v] = saving[v]
<1>1. [at |-> a, ino |-> i] \in Stations
  BY DEF Stations
<1>2. saving \in [Writers -> Stations]
  BY DEF FileTypes
<1>. QED
  BY <1>1, <1>2

\* There are inodes enough.
LEMMA InodeIsFree ==
  ASSUME FileTypes, tmpName = 0 \/ stateName = 0
  PROVE  /\ NewInode \in FileInodes /\ NewInode # stateName /\ NewInode # tmpName
         /\ \A w \in Writers : NewInode # saving[w].ino
<1>1. /\ saving["monitor"].ino \in 0 .. 4 /\ saving["reset"].ino \in 0 .. 4
      /\ stateName \in 0 .. 4 /\ tmpName \in 0 .. 4
  BY WriterFacts DEF FileTypes, FileInodes
<1>2. \E i \in FileInodes : /\ i # stateName /\ i # tmpName /\ i # saving["monitor"].ino
                            /\ i # saving["reset"].ino
  BY <1>1 DEF FileInodes
<1>3. \E i \in FileInodes : i \notin InUse
  BY <1>2 DEF InUse, Writers
<1>4. NewInode \in FileInodes /\ NewInode \notin InUse
  BY <1>3 DEF NewInode
<1>. QED
  BY <1>4, WriterFacts DEF InUse

\* Nothing on the disk changes, and a save that takes a step begins or ends.
LEMMA DiskRests ==
  ASSUME FileInv, UNCHANGED <<content, stateName, tmpName, overlapped, fallenBack>>,
         saving' \in [Writers -> Stations],
         \A w \in Writers : saving'[w] = saving[w] \/
                            (saving'[w].at \in {"idle", "open"} /\ saving'[w].ino = 0)
  PROVE  /\ SavesApart' /\ ReadersSeeWhole'
         /\ \A w \in Writers :
              /\ saving'[w].at \in {"idle", "open"} => saving'[w].ino = 0
              /\ saving'[w].at \in {"write", "rename", "rewrite"} => saving'[w].ino # 0
<1>1. SavesApart /\ ReadersSeeWhole /\ SaversRun
  BY DEF FileInv
<1>2. ReadersSeeWhole'
  BY <1>1 DEF ReadersSeeWhole, Readable
<1>3. \A w \in Writers : saving'[w].at \in {"idle", "open"} \/ (saving'[w] = saving[w])
  OBVIOUS
<1>4. \A w \in Writers : SaveApart(w) /\ saving'[w] = saving[w] => SaveApart(w)'
  BY <1>3 DEF SaveApart
<1>5. SavesApart'
  BY <1>1, <1>3, <1>4 DEF SavesApart
<1>6. \A w \in Writers :
        /\ saving'[w].at \in {"idle", "open"} => saving'[w].ino = 0
        /\ saving'[w].at \in {"write", "rename", "rewrite"} => saving'[w].ino # 0
  BY <1>1 DEF SaversRun
<1>. QED
  BY <1>2, <1>5, <1>6

LEMMA FileInitially == StateFileInit => FileInv
<1>. SUFFICES ASSUME StateFileInit PROVE FileInv
  OBVIOUS
<1>. USE StateFileAssumption, DocFacts, WriterFacts
<1>1. /\ content \in [FileInodes -> Docs \cup {Torn}] /\ \A i \in FileInodes : content[i] = Torn
      /\ memory \in [Writers -> Docs] /\ \A w \in Writers : memory[w] = Fresh
      /\ saving \in [Writers -> Stations] /\ \A w \in Writers : saving[w] = Idle
  BY DEF StateFileInit
<1>2. /\ stateName = 0 /\ tmpName = 0 /\ upAndRunning = FALSE /\ resetAt = "none" /\ alone = FALSE
      /\ resetsBegun = 0 /\ kept = 0 /\ cleared = FALSE /\ overlapped = FALSE /\ fallenBack = FALSE
  BY DEF StateFileInit
<1>3. FileTypes
  BY <1>1, <1>2 DEF FileTypes
<1>4. FileFlags
  BY <1>2 DEF FileFlags
<1>5. RowsAreBegun
  BY <1>1, <1>2 DEF RowsAreBegun, RowsBegun
<1>6. SaversRun /\ SavesApart
  BY <1>1, <1>2 DEF SaversRun, SavesApart
<1>7. ReadersSeeWhole /\ AloneSaves /\ DocumentsKeep
  BY <1>2 DEF ReadersSeeWhole, Readable, AloneSaves, DocumentsKeep
<1>. QED
  BY <1>3, <1>4, <1>5, <1>6, <1>7 DEF FileInv

\* The monitor starts with the document it reads.
LEMMA StartKeepsFile ==
  ASSUME FileInv, MonitorStarts
  PROVE  FileInv'
<1>. USE StateFileAssumption, DocFacts, WriterFacts
<1>1. /\ FileTypes /\ FileFlags /\ RowsAreBegun /\ SaversRun /\ SavesApart /\ ReadersSeeWhole
      /\ AloneSaves /\ DocumentsKeep
  BY DEF FileInv
<1>2. /\ ~upAndRunning /\ Readable /\ upAndRunning' = TRUE /\ alone' = FALSE
      /\ memory' = [memory EXCEPT !["monitor"] = Saved]
      /\ saving' = [saving EXCEPT !["monitor"] = [at |-> "open", ino |-> 0]]
      /\ UNCHANGED <<content, stateName, tmpName, resetAt, resetsBegun, kept, cleared, overlapped,
                     fallenBack>>
  BY DEF MonitorStarts, BeginSave, diskVars
<1>3. Saved \in Docs /\ Keeps(Saved) /\ Saved.resets <= RowsBegun
  <2>1. CASE stateName = 0
    BY <1>1, <2>1 DEF Saved, Keeps, DocumentsKeep, RowsBegun, FileTypes
  <2>2. CASE stateName # 0
    <3>1. stateName \in FileInodes /\ content[stateName] # Torn
      BY <1>1, <1>2, <2>2 DEF FileTypes, Readable
    <3>. QED
      BY <1>1, <2>2, <3>1 DEF Saved, Keeps, DocumentsKeep, RowsAreBegun, FileTypes
  <2>. QED
    BY <2>1, <2>2
<1>4. /\ saving' \in [Writers -> Stations] /\ saving'["monitor"].at = "open"
      /\ saving'["monitor"].ino = 0 /\ \A v \in Writers \ {"monitor"} : saving'[v] = saving[v]
  BY <1>1, <1>2, SavingStep DEF FileInodes
<1>5. /\ memory' \in [Writers -> Docs] /\ memory'["monitor"] = Saved
      /\ memory'["reset"] = memory["reset"]
  BY <1>1, <1>2, <1>3 DEF FileTypes
<1>6. /\ SavesApart' /\ ReadersSeeWhole'
      /\ \A w \in Writers :
           /\ saving'[w].at \in {"idle", "open"} => saving'[w].ino = 0
           /\ saving'[w].at \in {"write", "rename", "rewrite"} => saving'[w].ino # 0
  BY <1>2, <1>4, DiskRests
<1>7. FileTypes' /\ FileFlags'
  BY <1>1, <1>2, <1>4, <1>5 DEF FileTypes, FileFlags
<1>8. RowsAreBegun'
  BY <1>1, <1>2, <1>3, <1>5 DEF RowsAreBegun, RowsBegun
<1>9. SaversRun'
  BY <1>1, <1>2, <1>4, <1>6 DEF SaversRun
<1>10. AloneSaves'
  BY <1>2 DEF AloneSaves
<1>11. DocumentsKeep'
  BY <1>1, <1>2, <1>3, <1>5 DEF DocumentsKeep, Keeps
<1>. QED
  BY <1>6, <1>7, <1>8, <1>9, <1>10, <1>11 DEF FileInv

\* The monitor counts a restart, or takes the count back.
LEMMA ChangeKeepsFile ==
  ASSUME FileInv, MonitorCounts \/ MonitorVerifies
  PROVE  FileInv'
<1>. USE StateFileAssumption, DocFacts, WriterFacts
<1>1. /\ FileTypes /\ FileFlags /\ RowsAreBegun /\ SaversRun /\ SavesApart /\ ReadersSeeWhole
      /\ AloneSaves /\ DocumentsKeep
  BY DEF FileInv
<1>2. /\ saving["monitor"].at = "idle"
      /\ \E m \in 0 .. MaxCounted :
           /\ memory' = [memory EXCEPT !["monitor"].restarts = m]
           /\ m = 0 \/ cleared' = FALSE
      /\ saving' = [saving EXCEPT !["monitor"] = [at |-> "open", ino |-> 0]] \/ saving' = saving
      /\ UNCHANGED <<content, stateName, tmpName, resetAt, upAndRunning, alone, resetsBegun, kept,
                     overlapped, fallenBack>>
      /\ cleared' = FALSE \/ cleared' = cleared
  <2>1. memory["monitor"].restarts \in 0 .. MaxCounted
    BY <1>1 DEF FileTypes
  <2>2. CASE MonitorCounts
    <3>. DEFINE m == IF memory["monitor"].restarts < MaxCounted THEN memory["monitor"].restarts + 1
                     ELSE memory["monitor"].restarts
    <3>1. m \in 0 .. MaxCounted
      BY <2>1
    <3>2. memory' = [memory EXCEPT !["monitor"].restarts = m] /\ cleared' = FALSE
      BY <2>2 DEF MonitorCounts
    <3>. QED
      BY <2>2, <3>1, <3>2 DEF MonitorCounts, BeginSave, diskVars
  <2>3. CASE MonitorVerifies
    BY <2>3 DEF MonitorVerifies, BeginSave, diskVars, flowVars
  <2>. QED
    BY <2>2, <2>3
<1>3. upAndRunning
  BY DEF MonitorCounts, MonitorVerifies, FileInv, FileTypes, SaversRun
<1>4. /\ saving' \in [Writers -> Stations] /\ saving'["reset"] = saving["reset"]
      /\ \/ saving'["monitor"].at = "open" /\ saving'["monitor"].ino = 0
         \/ saving'["monitor"] = saving["monitor"]
  <2>1. CASE saving' = saving
    BY <1>1, <2>1 DEF FileTypes
  <2>2. CASE saving' = [saving EXCEPT !["monitor"] = [at |-> "open", ino |-> 0]]
    <3>1. /\ saving' \in [Writers -> Stations] /\ saving'["monitor"].at = "open"
          /\ saving'["monitor"].ino = 0 /\ \A v \in Writers \ {"monitor"} : saving'[v] = saving[v]
      BY <1>1, <2>2, SavingStep DEF FileInodes
    <3>. QED
      BY <3>1
  <2>. QED
    BY <1>2, <2>1, <2>2
<1>5. PICK m \in 0 .. MaxCounted :
        /\ memory' = [memory EXCEPT !["monitor"].restarts = m]
        /\ m = 0 \/ cleared' = FALSE
  BY <1>2
<1>6. /\ memory' \in [Writers -> Docs] /\ memory'["reset"] = memory["reset"]
      /\ memory'["monitor"].resets = memory["monitor"].resets
      /\ memory'["monitor"].restarts = m
  <2>1. memory["monitor"] \in Docs /\ memory \in [Writers -> Docs]
    BY <1>1 DEF FileTypes
  <2>2. memory' = [memory EXCEPT !["monitor"] = [memory["monitor"] EXCEPT !.restarts = m]]
    BY <1>5, <2>1
  <2>. QED
    BY <2>1, <2>2
<1>7. /\ SavesApart' /\ ReadersSeeWhole'
      /\ \A w \in Writers :
           /\ saving'[w].at \in {"idle", "open"} => saving'[w].ino = 0
           /\ saving'[w].at \in {"write", "rename", "rewrite"} => saving'[w].ino # 0
  BY <1>2, <1>4, DiskRests
<1>8. FileTypes' /\ FileFlags'
  BY <1>1, <1>2, <1>4, <1>6 DEF FileTypes, FileFlags
<1>9. RowsAreBegun'
  BY <1>1, <1>2, <1>6 DEF RowsAreBegun, RowsBegun
<1>10. SaversRun'
  BY <1>1, <1>2, <1>3, <1>4, <1>7 DEF SaversRun
<1>11. AloneSaves'
  BY <1>1, <1>2, <1>4, <1>6 DEF AloneSaves
<1>12. DocumentsKeep'
  <2>1. \A d : Keeps(d) => Keeps(d)'
    BY <1>2 DEF Keeps
  <2>2. upAndRunning' => Keeps(memory["monitor"])'
    BY <1>1, <1>2, <1>5, <1>6 DEF DocumentsKeep, Keeps
  <2>. QED
    BY <1>1, <1>2, <1>6, <2>1, <2>2 DEF DocumentsKeep, Keeps
<1>. QED
  BY <1>7, <1>8, <1>9, <1>10, <1>11, <1>12 DEF FileInv

\* A save of the monitor ends, and the monitor may end with it.
LEMMA MonitorRestKeepsFile ==
  ASSUME FileInv, MonitorSaved \/ MonitorSaveFails \/ MonitorEnds
  PROVE  FileInv'
<1>. USE StateFileAssumption, DocFacts, WriterFacts
<1>1. /\ FileTypes /\ FileFlags /\ RowsAreBegun /\ SaversRun /\ SavesApart /\ ReadersSeeWhole
      /\ AloneSaves /\ DocumentsKeep
  BY DEF FileInv
<1>2. /\ saving' = [saving EXCEPT !["monitor"] = Idle]
      /\ upAndRunning' = FALSE \/ upAndRunning' = upAndRunning
      /\ UNCHANGED <<content, stateName, tmpName, memory, resetAt, alone, resetsBegun, kept, cleared,
                     overlapped, fallenBack>>
  BY DEF MonitorSaved, MonitorSaveFails, MonitorEnds, diskVars
<1>3. /\ saving' \in [Writers -> Stations] /\ saving'["monitor"] = Idle
      /\ saving'["reset"] = saving["reset"]
  BY <1>1, <1>2 DEF FileTypes
<1>4. /\ SavesApart' /\ ReadersSeeWhole'
      /\ \A w \in Writers :
           /\ saving'[w].at \in {"idle", "open"} => saving'[w].ino = 0
           /\ saving'[w].at \in {"write", "rename", "rewrite"} => saving'[w].ino # 0
  BY <1>2, <1>3, DiskRests
<1>5. FileTypes'
  BY <1>1, <1>2, <1>3 DEF FileTypes
<1>6. upAndRunning' => upAndRunning
  BY <1>2
<1>7. FileFlags'
  BY <1>1, <1>2 DEF FileFlags
<1>8. RowsAreBegun'
  BY <1>1, <1>2 DEF RowsAreBegun, RowsBegun
<1>9. SaversRun'
  BY <1>1, <1>2, <1>3, <1>4 DEF SaversRun
<1>10. AloneSaves'
  BY <1>1, <1>2, <1>3, <1>6 DEF AloneSaves
<1>11. DocumentsKeep'
  BY <1>1, <1>2, <1>6 DEF DocumentsKeep, Keeps
<1>. QED
  BY <1>4, <1>5, <1>7, <1>8, <1>9, <1>10, <1>11 DEF FileInv

\* A reset reads the file and, some time later, records itself in what it has read.
LEMMA ResetKeepsFile ==
  ASSUME FileInv, ResetLoads \/ ResetRecords
  PROVE  FileInv'
<1>. USE StateFileAssumption, DocFacts, WriterFacts
<1>1. /\ FileTypes /\ FileFlags /\ RowsAreBegun /\ SaversRun /\ SavesApart /\ ReadersSeeWhole
      /\ AloneSaves /\ DocumentsKeep
  BY DEF FileInv
<1>2. /\ memory \in [Writers -> Docs] /\ memory["reset"] \in Docs /\ resetsBegun \in 0 .. MaxResets
      /\ content \in [FileInodes -> Docs \cup {Torn}] /\ kept \in Nat
      /\ saving \in [Writers -> Stations]
  BY <1>1 DEF FileTypes
<1>3. CASE ResetLoads
  <2>1. /\ resetAt = "none" /\ stateName # 0 /\ Readable /\ resetsBegun < MaxResets
        /\ resetAt' = "loaded" /\ resetsBegun' = resetsBegun + 1
        /\ memory' = [memory EXCEPT !["reset"] = Saved]
        /\ alone' = ~upAndRunning
        /\ UNCHANGED <<content, stateName, tmpName, saving, upAndRunning, kept, cleared,
                       overlapped, fallenBack>>
    BY <1>3 DEF ResetLoads, diskVars
  <2>2. stateName \in FileInodes /\ content[stateName] # Torn /\ Saved = content[stateName]
    BY <1>1, <2>1 DEF FileTypes, Readable, Saved
  <2>3. Saved \in Docs /\ Keeps(Saved) /\ Saved.resets <= RowsBegun
    BY <1>1, <1>2, <2>1, <2>2 DEF DocumentsKeep, RowsAreBegun
  <2>4. /\ memory' \in [Writers -> Docs] /\ memory'["reset"] = Saved
        /\ memory'["monitor"] = memory["monitor"]
    BY <1>2, <2>1, <2>3
  <2>5. saving["reset"].at = "idle"
    BY <1>1, <2>1 DEF SaversRun
  <2>6. RowsBegun' = RowsBegun
    BY <1>2, <2>1 DEF RowsBegun
  <2>7. SavesApart' /\ ReadersSeeWhole'
    BY <1>2, <2>1, DiskRests
  <2>8. FileTypes'
    BY <1>1, <1>2, <2>1, <2>4 DEF FileTypes
  <2>9. FileFlags'
    BY <1>1, <2>1 DEF FileFlags
  <2>10. RowsAreBegun'
    BY <1>1, <2>1, <2>3, <2>4, <2>6 DEF RowsAreBegun
  <2>11. SaversRun'
    BY <1>1, <2>1, <2>5 DEF SaversRun
  <2>12. AloneSaves'
    BY <2>1, <2>5 DEF AloneSaves
  <2>13. DocumentsKeep'
    BY <1>1, <2>1, <2>3, <2>4 DEF DocumentsKeep, Keeps
  <2>. QED
    BY <2>7, <2>8, <2>9, <2>10, <2>11, <2>12, <2>13 DEF FileInv
<1>4. CASE ResetRecords
  <2>1. /\ resetAt = "loaded" /\ resetAt' = "saving"
        /\ memory' = [memory EXCEPT !["reset"] = [restarts |-> 0, resets |-> @.resets + 1]]
        /\ saving' = [saving EXCEPT !["reset"] = [at |-> "open", ino |-> 0]]
        /\ UNCHANGED <<content, stateName, tmpName, upAndRunning, alone, resetsBegun, kept, cleared,
                       overlapped, fallenBack>>
    BY <1>4 DEF ResetRecords, BeginSave, diskVars
  <2>. DEFINE n == memory["reset"].resets
  <2>2. /\ n \in Nat /\ n + 1 <= resetsBegun /\ n + 1 \in 0 .. MaxResets /\ kept <= n
    BY <1>1, <1>2, <2>1 DEF RowsAreBegun, RowsBegun, DocumentsKeep
  <2>3. [restarts |-> 0, resets |-> n + 1] \in Docs
    BY <2>2
  <2>4. /\ memory' \in [Writers -> Docs] /\ memory'["monitor"] = memory["monitor"]
        /\ memory'["reset"].resets = n + 1 /\ memory'["reset"].restarts = 0
    BY <1>2, <2>1, <2>3
  <2>. HIDE DEF n
  <2>5. /\ saving' \in [Writers -> Stations] /\ saving'["reset"].at = "open"
        /\ saving'["reset"].ino = 0 /\ \A v \in Writers \ {"reset"} : saving'[v] = saving[v]
    BY <1>1, <2>1, SavingStep DEF FileInodes
  <2>6. saving'["monitor"] = saving["monitor"]
    BY <2>5
  <2>7. RowsBegun' = RowsBegun + 1 /\ RowsBegun' = resetsBegun /\ RowsBegun \in Int
    BY <1>2, <2>1 DEF RowsBegun
  <2>8. /\ SavesApart' /\ ReadersSeeWhole'
        /\ \A w \in Writers :
             /\ saving'[w].at \in {"idle", "open"} => saving'[w].ino = 0
             /\ saving'[w].at \in {"write", "rename", "rewrite"} => saving'[w].ino # 0
    BY <2>1, <2>5, DiskRests
  <2>9. FileTypes'
    BY <1>1, <2>1, <2>4, <2>5 DEF FileTypes
  <2>10. FileFlags'
    BY <1>1, <2>1 DEF FileFlags
  <2>11. RowsAreBegun'
    <3>1. \A i \in FileInodes : content'[i] = Torn \/ content'[i].resets <= RowsBegun'
      BY <1>1, <1>2, <2>1, <2>7 DEF RowsAreBegun
    <3>2. \A w \in Writers : memory'[w].resets <= RowsBegun'
      BY <1>1, <1>2, <2>2, <2>4, <2>7 DEF RowsAreBegun
    <3>. QED
      BY <3>1, <3>2 DEF RowsAreBegun
  <2>12. SaversRun'
    BY <1>1, <2>1, <2>6, <2>8 DEF SaversRun
  <2>13. AloneSaves'
    BY <1>1, <2>1, <2>5 DEF AloneSaves
  <2>14. DocumentsKeep'
    BY <1>1, <1>2, <2>1, <2>2, <2>4 DEF DocumentsKeep, Keeps
  <2>. QED
    BY <2>8, <2>9, <2>10, <2>11, <2>12, <2>13, <2>14 DEF FileInv
<1>. QED
  BY <1>3, <1>4

\* A reset ends with its document in state.json, or dies.
LEMMA ResetRestKeepsFile ==
  ASSUME FileInv, ResetEnds \/ ResetDies
  PROVE  FileInv'
<1>. USE StateFileAssumption, DocFacts, WriterFacts
<1>1. /\ FileTypes /\ FileFlags /\ RowsAreBegun /\ SaversRun /\ SavesApart /\ ReadersSeeWhole
      /\ AloneSaves /\ DocumentsKeep
  BY DEF FileInv
<1>2. /\ memory \in [Writers -> Docs] /\ memory["reset"] \in Docs /\ kept \in 0 .. MaxResets
      /\ resetsBegun \in 0 .. MaxResets /\ content \in [FileInodes -> Docs \cup {Torn}]
      /\ saving \in [Writers -> Stations]
  BY <1>1 DEF FileTypes
<1>3. /\ saving' = [saving EXCEPT !["reset"] = Idle] /\ resetAt' = "none"
      /\ UNCHANGED <<content, stateName, tmpName, memory, upAndRunning, alone, resetsBegun,
                     overlapped, fallenBack>>
      /\ \/ kept' = kept /\ cleared' = cleared
         \/ saving["reset"].at = "done" /\ alone /\ kept' = kept + 1 /\ cleared' = TRUE
  <2>1. CASE ResetEnds
    <3>1. CASE alone
      BY <2>1, <3>1 DEF ResetEnds, diskVars
    <3>2. CASE ~alone
      <4>1. cleared' = cleared
        BY <1>1, <2>1, <3>2 DEF ResetEnds, FileFlags
      <4>. QED
        BY <2>1, <3>2, <4>1 DEF ResetEnds, diskVars
    <3>. QED
      BY <3>1, <3>2
  <2>2. CASE ResetDies
    BY <2>2 DEF ResetDies, diskVars
  <2>. QED
    BY <2>1, <2>2
<1>4. /\ saving' \in [Writers -> Stations] /\ saving'["reset"] = Idle
      /\ saving'["monitor"] = saving["monitor"]
  BY <1>2, <1>3
<1>5. /\ SavesApart' /\ ReadersSeeWhole'
      /\ \A w \in Writers :
           /\ saving'[w].at \in {"idle", "open"} => saving'[w].ino = 0
           /\ saving'[w].at \in {"write", "rename", "rewrite"} => saving'[w].ino # 0
  BY <1>3, <1>4, DiskRests
<1>6. saving["reset"].at = "done" /\ alone =>
        /\ kept < memory["reset"].resets /\ memory["reset"].restarts = 0 /\ ~upAndRunning
        /\ tmpName = 0 /\ stateName # 0 /\ content[stateName] = memory["reset"]
  BY <1>1 DEF SaversRun, AloneSaves, DocumentsKeep
<1>7. kept' \in 0 .. MaxResets
  BY <1>2, <1>3, <1>6
<1>8. RowsBegun <= RowsBegun' /\ RowsBegun \in Int /\ RowsBegun' \in Int
  BY <1>2, <1>3 DEF RowsBegun
<1>9. FileTypes'
  BY <1>1, <1>3, <1>4, <1>7 DEF FileTypes
<1>10. FileFlags'
  BY <1>1, <1>3 DEF FileFlags
<1>11. RowsAreBegun'
  <2>1. \A i \in FileInodes : content'[i] = Torn \/ content'[i].resets <= RowsBegun'
    BY <1>1, <1>2, <1>3, <1>8 DEF RowsAreBegun
  <2>2. \A w \in Writers : memory'[w].resets <= RowsBegun'
    BY <1>1, <1>2, <1>3, <1>8 DEF RowsAreBegun
  <2>. QED
    BY <2>1, <2>2 DEF RowsAreBegun
<1>12. SaversRun'
  BY <1>1, <1>3, <1>4, <1>5 DEF SaversRun
<1>13. AloneSaves'
  BY <1>3 DEF AloneSaves
<1>14. DocumentsKeep'
  <2>1. CASE kept' = kept /\ cleared' = cleared
    BY <1>1, <1>3, <2>1 DEF DocumentsKeep, Keeps
  <2>2. CASE saving["reset"].at = "done" /\ alone /\ kept' = kept + 1 /\ cleared' = TRUE
    BY <1>2, <1>3, <1>6, <2>2 DEF DocumentsKeep, Keeps
  <2>. QED
    BY <1>3, <2>1, <2>2
<1>. QED
  BY <1>5, <1>9, <1>10, <1>11, <1>12, <1>13, <1>14 DEF FileInv

\* A save of the monitor is one beside which no reset is alone.
LEMMA AloneIsReset ==
  ASSUME FileInv, NEW w \in Writers, saving[w].at # "idle", alone, resetAt # "none"
  PROVE  w = "reset"
  BY WriterFacts DEF FileInv, SaversRun, AloneSaves

\* What a save may put into a file keeps what is kept.
LEMMA SavedKeeps ==
  ASSUME FileInv
  PROVE  /\ Keeps(Torn)
         /\ \A w \in Writers : saving[w].at # "idle" => Keeps(memory[w])
<1>1. Keeps(Torn)
  BY DocFacts, StateFileAssumption DEF FileInv, FileTypes, Keeps
<1>2. saving["monitor"].at # "idle" => Keeps(memory["monitor"])
  BY DEF FileInv, SaversRun, DocumentsKeep
<1>3. saving["reset"].at # "idle" => Keeps(memory["reset"])
  BY DEF FileInv, SaversRun, DocumentsKeep, Keeps
<1>. QED
  BY <1>1, <1>2, <1>3, WriterFacts

LEMMA OpenKeepsFile ==
  ASSUME FileInv, NEW w \in Writers, OpenTmp(w)
  PROVE  FileInv'
<1>. USE StateFileAssumption, DocFacts, WriterFacts
<1>1. /\ FileTypes /\ FileFlags /\ RowsAreBegun /\ SaversRun /\ SavesApart /\ ReadersSeeWhole
      /\ AloneSaves /\ DocumentsKeep
  BY DEF FileInv
<1>2. /\ content \in [FileInodes -> Docs \cup {Torn}] /\ tmpName \in {0} \cup FileInodes
      /\ saving \in [Writers -> Stations] /\ 0 \notin FileInodes
  BY <1>1 DEF FileTypes, FileInodes
<1>. DEFINE i == IF tmpName # 0 THEN tmpName ELSE NewInode
<1>3. /\ saving[w].at = "open"
      /\ tmpName' = i /\ content' = [content EXCEPT ![i] = Torn]
      /\ saving' = [saving EXCEPT ![w] = [at |-> "write", ino |-> i]]
      /\ overlapped' = (overlapped \/ \E v \in Writers \ {w} : saving[v].at # "idle")
      /\ UNCHANGED <<stateName, memory, upAndRunning, resetAt, alone, resetsBegun, kept, cleared,
                     fallenBack>>
  BY DEF OpenTmp, flowVars
<1>4. i \in FileInodes /\ i # stateName /\ i # 0
  <2>1. CASE tmpName = 0
    BY <1>1, <1>2, <2>1, InodeIsFree
  <2>2. CASE tmpName # 0
    BY <1>1, <1>2, <2>2 DEF SavesApart
  <2>. QED
    BY <2>1, <2>2
<1>. HIDE DEF i
<1>5. /\ saving' \in [Writers -> Stations] /\ saving'[w].at = "write" /\ saving'[w].ino = i
      /\ \A v \in Writers \ {w} : saving'[v] = saving[v]
  BY <1>1, <1>3, <1>4, SavingStep
<1>6. /\ content' \in [FileInodes -> Docs \cup {Torn}] /\ content'[i] = Torn
      /\ \A j \in FileInodes : j # i => content'[j] = content[j]
  BY <1>2, <1>3, <1>4
<1>7. FileTypes'
  BY <1>1, <1>3, <1>4, <1>5, <1>6 DEF FileTypes
<1>8. overlapped' \in BOOLEAN /\ (~overlapped' => ~overlapped /\ \A v \in Writers \ {w} : saving[v].at = "idle")
  BY <1>1, <1>3 DEF FileFlags
<1>9. FileFlags'
  BY <1>1, <1>3, <1>8 DEF FileFlags
<1>10. RowsAreBegun'
  BY <1>1, <1>3, <1>6 DEF RowsAreBegun, RowsBegun
<1>11. SaversRun'
  <2>1. (saving'["monitor"].at # "idle" => upAndRunning) /\ (saving'["reset"].at # "idle" => resetAt = "saving")
    BY <1>1, <1>3, <1>5 DEF SaversRun
  <2>2. \A v \in Writers :
          /\ saving'[v].at \in {"idle", "open"} => saving'[v].ino = 0
          /\ saving'[v].at \in {"write", "rename", "rewrite"} => saving'[v].ino # 0
    BY <1>1, <1>4, <1>5 DEF SaversRun
  <2>. QED
    BY <1>3, <2>1, <2>2 DEF SaversRun
<1>12. SavesApart'
  <2>1. stateName' # tmpName'
    BY <1>3, <1>4
  <2>2. ~overlapped' => SaveApart(w)'
    BY <1>3, <1>4, <1>5, <1>6, <1>8 DEF SaveApart
  <2>3. ~overlapped' => \A v \in Writers \ {w} : saving'[v].at = "idle"
    BY <1>5, <1>8
  <2>. QED
    BY <2>1, <2>2, <2>3 DEF SavesApart
<1>13. ReadersSeeWhole'
  BY <1>1, <1>3, <1>4, <1>6, <1>8 DEF ReadersSeeWhole, Readable, FileTypes
<1>14. AloneSaves'
  <2>1. alone /\ resetAt # "none" => w = "reset" /\ ~upAndRunning
    BY <1>1, <1>3, AloneIsReset DEF AloneSaves
  <2>. QED
    BY <1>3, <1>5, <1>6, <2>1 DEF AloneSaves
<1>15. DocumentsKeep'
  <2>1. \A d : Keeps(d)' <=> Keeps(d)
    BY <1>3 DEF Keeps
  <2>2. stateName # 0 => content'[stateName] = content[stateName]
    BY <1>1, <1>4, <1>6 DEF FileTypes
  <2>. QED
    BY <1>1, <1>3, <1>6, <2>1, <2>2, SavedKeeps DEF DocumentsKeep
<1>. QED
  BY <1>7, <1>9, <1>10, <1>11, <1>12, <1>13, <1>14, <1>15 DEF FileInv

LEMMA WriteKeepsFile ==
  ASSUME FileInv, NEW w \in Writers, WriteDoc(w)
  PROVE  FileInv'
<1>. USE StateFileAssumption, DocFacts, WriterFacts
<1>1. /\ FileTypes /\ FileFlags /\ RowsAreBegun /\ SaversRun /\ SavesApart /\ ReadersSeeWhole
      /\ AloneSaves /\ DocumentsKeep
  BY DEF FileInv
<1>2. /\ content \in [FileInodes -> Docs \cup {Torn}] /\ memory \in [Writers -> Docs]
      /\ saving \in [Writers -> Stations]
  BY <1>1 DEF FileTypes
<1>. DEFINE i == saving[w].ino
            a == IF saving[w].at = "write" THEN "rename" ELSE "done"
<1>3. /\ saving[w].at \in {"write", "rewrite"}
      /\ UNCHANGED <<stateName, tmpName, memory, upAndRunning, resetAt, alone, resetsBegun, kept,
                     cleared, overlapped, fallenBack>>
  BY DEF WriteDoc, flowVars
<1>4. i \in FileInodes
  BY <1>1, <1>2, <1>3 DEF SaversRun
<1>5. saving' = [saving EXCEPT ![w] = [at |-> a, ino |-> i]]
  <2>1. saving' = [saving EXCEPT ![w].at = a]
    BY <1>2 DEF WriteDoc
  <2>2. [saving[w] EXCEPT !.at = a] = [at |-> a, ino |-> i]
    BY <1>2 DEF Stations
  <2>. QED
    BY <1>2, <2>1, <2>2
<1>6. /\ saving' \in [Writers -> Stations] /\ saving'[w].at = a /\ saving'[w].ino = i
      /\ \A v \in Writers \ {w} : saving'[v] = saving[v]
  <2>1. a \in {"idle", "open", "write", "rename", "rewrite", "done"} /\ i \in {0} \cup FileInodes
    BY <1>4
  <2>. HIDE DEF a, i
  <2>. QED
    BY <1>1, <1>5, <2>1, SavingStep
<1>7. PICK c : /\ content' = [content EXCEPT ![i] = c]
               /\ c = memory[w] \/ (c = Torn /\ content[i] # Torn)
  BY DEF WriteDoc
<1>8. c \in Docs \cup {Torn} /\ (content[i] = Torn => c = memory[w] /\ c # Torn)
  BY <1>2, <1>7
<1>9. /\ content' \in [FileInodes -> Docs \cup {Torn}] /\ content'[i] = c
      /\ \A j \in FileInodes : j # i => content'[j] = content[j]
  BY <1>2, <1>4, <1>7, <1>8
<1>10. FileTypes'
  BY <1>1, <1>3, <1>6, <1>9 DEF FileTypes
<1>11. FileFlags'
  BY <1>1, <1>3 DEF FileFlags
<1>12. RowsAreBegun'
  BY <1>1, <1>3, <1>7, <1>9 DEF RowsAreBegun, RowsBegun
<1>13. SaversRun'
  <2>1. (saving'["monitor"].at # "idle" => upAndRunning) /\ (saving'["reset"].at # "idle" => resetAt = "saving")
    BY <1>1, <1>3, <1>6 DEF SaversRun
  <2>2. \A v \in Writers :
          /\ saving'[v].at \in {"idle", "open"} => saving'[v].ino = 0
          /\ saving'[v].at \in {"write", "rename", "rewrite"} => saving'[v].ino # 0
    BY <1>1, <1>3, <1>4, <1>6 DEF SaversRun, FileInodes
  <2>. QED
    BY <1>3, <2>1, <2>2 DEF SaversRun
<1>14. ~overlapped /\ ~fallenBack => SaveApart(w)
  BY <1>1, <1>3 DEF SavesApart
<1>15. SavesApart'
  <2>1. ~overlapped /\ ~fallenBack => SaveApart(w)'
    BY <1>3, <1>6, <1>8, <1>9, <1>14 DEF SaveApart
  <2>2. ~overlapped /\ ~fallenBack => \A v \in Writers \ {w} : saving'[v].at \in {"idle", "open"}
    BY <1>6, <1>14 DEF SaveApart
  <2>. QED
    BY <1>1, <1>3, <2>1, <2>2 DEF SavesApart
<1>16. ReadersSeeWhole'
  <2>1. ~overlapped /\ ~fallenBack => i # stateName
    BY <1>3, <1>14 DEF SaveApart
  <2>. QED
    BY <1>1, <1>3, <1>9, <2>1 DEF ReadersSeeWhole, Readable, FileTypes
<1>17. AloneSaves'
  <2>1. alone /\ resetAt # "none" => w = "reset" /\ ~upAndRunning
    BY <1>1, <1>3, AloneIsReset DEF AloneSaves
  <2>2. CASE saving[w].at = "write"
    BY <1>1, <1>3, <1>6, <1>8, <1>9, <2>1, <2>2 DEF AloneSaves
  <2>3. CASE saving[w].at = "rewrite"
    BY <1>1, <1>3, <1>4, <1>6, <1>8, <1>9, <2>1, <2>3 DEF AloneSaves, FileInodes
  <2>. QED
    BY <1>3, <2>2, <2>3
<1>18. DocumentsKeep'
  <2>1. \A d : Keeps(d)' <=> Keeps(d)
    BY <1>3 DEF Keeps
  <2>2. Keeps(c)
    BY <1>3, <1>7, SavedKeeps
  <2>3. \A j \in FileInodes : Keeps(content[j]) => Keeps(content'[j])
    BY <1>9, <2>2
  <2>. QED
    BY <1>1, <1>3, <2>1, <2>3 DEF DocumentsKeep, FileTypes
<1>. QED
  BY <1>10, <1>11, <1>12, <1>13, <1>15, <1>16, <1>17, <1>18 DEF FileInv

LEMMA RenameKeepsFile ==
  ASSUME FileInv, NEW w \in Writers, Rename(w)
  PROVE  FileInv'
<1>. USE StateFileAssumption, DocFacts, WriterFacts
<1>1. /\ FileTypes /\ FileFlags /\ RowsAreBegun /\ SaversRun /\ SavesApart /\ ReadersSeeWhole
      /\ AloneSaves /\ DocumentsKeep
  BY DEF FileInv
<1>2. /\ saving[w].at = "rename" /\ tmpName # 0 /\ tmpName \in FileInodes
      /\ stateName' = tmpName /\ tmpName' = 0
      /\ saving' = [saving EXCEPT ![w] = [at |-> "done", ino |-> 0]]
      /\ UNCHANGED <<content, memory, upAndRunning, resetAt, alone, resetsBegun, kept, cleared,
                     overlapped, fallenBack>>
  BY <1>1 DEF Rename, flowVars, FileTypes
<1>3. /\ saving' \in [Writers -> Stations] /\ saving'[w].at = "done" /\ saving'[w].ino = 0
      /\ \A v \in Writers \ {w} : saving'[v] = saving[v]
  BY <1>1, <1>2, SavingStep
<1>4. FileTypes'
  BY <1>1, <1>2, <1>3 DEF FileTypes
<1>5. FileFlags'
  BY <1>1, <1>2 DEF FileFlags
<1>6. RowsAreBegun'
  BY <1>1, <1>2 DEF RowsAreBegun, RowsBegun
<1>7. SaversRun'
  <2>1. (saving'["monitor"].at # "idle" => upAndRunning) /\ (saving'["reset"].at # "idle" => resetAt = "saving")
    BY <1>1, <1>2, <1>3 DEF SaversRun
  <2>2. \A v \in Writers :
          /\ saving'[v].at \in {"idle", "open"} => saving'[v].ino = 0
          /\ saving'[v].at \in {"write", "rename", "rewrite"} => saving'[v].ino # 0
    BY <1>1, <1>3 DEF SaversRun
  <2>. QED
    BY <1>2, <2>1, <2>2 DEF SaversRun
<1>8. ~overlapped /\ ~fallenBack => SaveApart(w)
  BY <1>1, <1>2 DEF SavesApart
<1>9. SavesApart'
  <2>1. ~overlapped /\ ~fallenBack => SaveApart(w)'
    BY <1>3, <1>8 DEF SaveApart
  <2>2. ~overlapped /\ ~fallenBack => \A v \in Writers \ {w} : saving'[v].at \in {"idle", "open"}
    BY <1>3, <1>8 DEF SaveApart
  <2>. QED
    BY <1>2, <2>1, <2>2 DEF SavesApart
<1>10. ReadersSeeWhole'
  BY <1>2, <1>8 DEF ReadersSeeWhole, Readable, SaveApart
<1>11. AloneSaves'
  <2>1. alone /\ resetAt # "none" => w = "reset" /\ ~upAndRunning
    BY <1>1, <1>2, AloneIsReset DEF AloneSaves
  <2>. QED
    BY <1>1, <1>2, <1>3, <2>1 DEF AloneSaves
<1>12. DocumentsKeep'
  BY <1>1, <1>2 DEF DocumentsKeep, Keeps
<1>. QED
  BY <1>4, <1>5, <1>6, <1>7, <1>9, <1>10, <1>11, <1>12 DEF FileInv

LEMMA FallBackKeepsFile ==
  ASSUME FileInv, NEW w \in Writers, FallBack(w)
  PROVE  FileInv'
<1>. USE StateFileAssumption, DocFacts, WriterFacts
<1>1. /\ FileTypes /\ FileFlags /\ RowsAreBegun /\ SaversRun /\ SavesApart /\ ReadersSeeWhole
      /\ AloneSaves /\ DocumentsKeep
  BY DEF FileInv
<1>2. content \in [FileInodes -> Docs \cup {Torn}] /\ stateName \in {0} \cup FileInodes
  BY <1>1 DEF FileTypes
<1>. DEFINE i == IF stateName # 0 THEN stateName ELSE NewInode
<1>3. /\ saving[w].at = "rename" /\ tmpName = 0 /\ tmpName' = 0
      /\ stateName' = i /\ content' = [content EXCEPT ![i] = Torn]
      /\ saving' = [saving EXCEPT ![w] = [at |-> "rewrite", ino |-> i]]
      /\ fallenBack' = TRUE
      /\ UNCHANGED <<memory, upAndRunning, resetAt, alone, resetsBegun, kept, cleared, overlapped>>
  BY DEF FallBack, flowVars
<1>4. i \in FileInodes /\ i # 0
  <2>1. 0 \notin FileInodes
    BY DEF FileInodes
  <2>. QED
    BY <1>1, <1>2, <1>3, <2>1, InodeIsFree
<1>. HIDE DEF i
<1>5. /\ saving' \in [Writers -> Stations] /\ saving'[w].at = "rewrite" /\ saving'[w].ino = i
      /\ \A v \in Writers \ {w} : saving'[v] = saving[v]
  BY <1>1, <1>3, <1>4, SavingStep
<1>6. /\ content' \in [FileInodes -> Docs \cup {Torn}] /\ content'[i] = Torn
      /\ \A j \in FileInodes : j # i => content'[j] = content[j]
  BY <1>2, <1>3, <1>4
<1>7. FileTypes'
  BY <1>1, <1>3, <1>4, <1>5, <1>6 DEF FileTypes
<1>8. FileFlags'
  BY <1>1, <1>3 DEF FileFlags
<1>9. RowsAreBegun'
  BY <1>1, <1>3, <1>6 DEF RowsAreBegun, RowsBegun
<1>10. SaversRun'
  <2>1. (saving'["monitor"].at # "idle" => upAndRunning) /\ (saving'["reset"].at # "idle" => resetAt = "saving")
    BY <1>1, <1>3, <1>5 DEF SaversRun
  <2>2. \A v \in Writers :
          /\ saving'[v].at \in {"idle", "open"} => saving'[v].ino = 0
          /\ saving'[v].at \in {"write", "rename", "rewrite"} => saving'[v].ino # 0
    BY <1>1, <1>4, <1>5 DEF SaversRun
  <2>. QED
    BY <1>3, <2>1, <2>2 DEF SaversRun
<1>11. SavesApart' /\ ReadersSeeWhole'
  BY <1>3, <1>4 DEF SavesApart, ReadersSeeWhole
<1>12. AloneSaves'
  <2>1. alone /\ resetAt # "none" => w = "reset" /\ ~upAndRunning
    BY <1>1, <1>3, AloneIsReset DEF AloneSaves
  <2>. QED
    BY <1>3, <1>5, <1>6, <2>1 DEF AloneSaves
<1>13. DocumentsKeep'
  <2>1. \A d : Keeps(d)' <=> Keeps(d)
    BY <1>3 DEF Keeps
  <2>. QED
    BY <1>1, <1>3, <1>4, <1>6, <2>1, SavedKeeps DEF DocumentsKeep
<1>. QED
  BY <1>7, <1>8, <1>9, <1>10, <1>11, <1>12, <1>13 DEF FileInv

LEMMA EvictKeepsFile ==
  ASSUME FileInv, Evict
  PROVE  FileInv'
<1>1. /\ FileTypes /\ FileFlags /\ RowsAreBegun /\ SaversRun /\ SavesApart /\ ReadersSeeWhole
      /\ AloneSaves /\ DocumentsKeep
  BY DEF FileInv
<1>2. /\ tmpName # 0 /\ tmpName' = 0
      /\ UNCHANGED <<content, stateName, memory, saving, upAndRunning, resetAt, alone, resetsBegun,
                     kept, cleared, overlapped, fallenBack>>
  BY DEF Evict, flowVars
<1>3. FileTypes' /\ FileFlags'
  BY <1>1, <1>2 DEF FileTypes, FileFlags
<1>4. RowsAreBegun' /\ SaversRun'
  BY <1>1, <1>2 DEF RowsAreBegun, RowsBegun, SaversRun
<1>5. SavesApart'
  BY <1>1, <1>2 DEF SavesApart, SaveApart
<1>6. ReadersSeeWhole'
  BY <1>1, <1>2 DEF ReadersSeeWhole, Readable
<1>7. AloneSaves'
  BY <1>1, <1>2 DEF AloneSaves
<1>8. DocumentsKeep'
  BY <1>1, <1>2 DEF DocumentsKeep, Keeps
<1>. QED
  BY <1>3, <1>4, <1>5, <1>6, <1>7, <1>8 DEF FileInv

LEMMA FileKeeps ==
  ASSUME FileInv, [StateFileNext]_fileVars
  PROVE  FileInv'
<1>1. CASE \E w \in Writers : SaveSteps(w)
  BY <1>1, OpenKeepsFile, WriteKeepsFile, RenameKeepsFile, FallBackKeepsFile DEF SaveSteps
<1>2. CASE Evict
  BY <1>2, EvictKeepsFile
<1>3. CASE MonitorStarts \/ MonitorCounts \/ MonitorVerifies
  BY <1>3, StartKeepsFile, ChangeKeepsFile
<1>4. CASE MonitorSaved \/ MonitorSaveFails \/ MonitorEnds
  BY <1>4, MonitorRestKeepsFile
<1>5. CASE ResetLoads \/ ResetRecords \/ ResetEnds \/ ResetDies
  BY <1>5, ResetKeepsFile, ResetRestKeepsFile
<1>6. CASE UNCHANGED fileVars
  <2>1. UNCHANGED <<content, stateName, tmpName, memory, saving, upAndRunning, resetAt, alone,
                    resetsBegun, kept, cleared, overlapped, fallenBack>>
    BY <1>6 DEF fileVars
  <2>2. FileTypes' /\ FileFlags' /\ RowsAreBegun' /\ SaversRun'
    BY <2>1 DEF FileInv, FileTypes, FileFlags, RowsAreBegun, RowsBegun, SaversRun
  <2>3. SavesApart' /\ ReadersSeeWhole' /\ AloneSaves' /\ DocumentsKeep'
    BY <2>1 DEF FileInv, SavesApart, SaveApart, ReadersSeeWhole, Readable, AloneSaves, DocumentsKeep,
                Keeps
  <2>. QED
    BY <2>2, <2>3 DEF FileInv
<1>. QED
  BY <1>1, <1>2, <1>3, <1>4, <1>5, <1>6 DEF StateFileNext

LEMMA FileInvariant == ComponentsSpec => []FileInv
<1>1. ComponentsInit => FileInv
  BY FileInitially DEF ComponentsInit
<1>2. FileInv /\ [ComponentsNext]_allVars => FileInv'
  BY Projections, FileKeeps
<1>. QED
  BY <1>1, <1>2, PTL DEF ComponentsSpec

\* Who opens state.json reads a whole document, at any moment of a save and after any
\* kill, unless a save had to write the file in place or two saves overlapped: the
\* temporary file is one, whoever saves (state.py, StateStore.save).
THEOREM SavesAreAtomic == ComponentsSpec => []ReadersSeeWhole
<1>1. FileInv => ReadersSeeWhole
  BY DEF FileInv
<1>. QED
  BY <1>1, FileInvariant, PTL

\* The row and the zero of a reset that no monitor ran beside are in every document
\* that is read afterwards, through saves that fail, kills, evictions, and later
\* resets that did run beside a monitor (cli/commands/reset.py).
THEOREM ResetsStick == ComponentsSpec => []ResetSticks
<1>1. FileInv => ResetSticks
  <2>. SUFFICES ASSUME FileInv, Readable PROVE kept <= Saved.resets /\ (cleared => Saved.restarts = 0)
    BY DEF ResetSticks
  <2>1. CASE stateName = 0
    BY <2>1, DocFacts DEF FileInv, DocumentsKeep, Saved
  <2>2. CASE stateName # 0
    BY <2>2 DEF FileInv, DocumentsKeep, Saved, Keeps
  <2>. QED
    BY <2>1, <2>2
<1>. QED
  BY <1>1, FileInvariant, PTL

-----------------------------------------------------------------------------
(* Session dispatch *)

\* The lines that were read are a stretch of the file; the lines before it are
\* consumed, and the last action that was carried out is one of them.
Lines == [id : 1 .. MaxActions, kind : ActionKinds]

BatchIsAfter(k) ==
  /\ k + Len(batch) <= Len(actions)
  /\ \A j \in 1 .. Len(batch) : batch[j] = actions[k + j]
  /\ \A i \in 1 .. k : Consumed(actions[i])
  /\ appliedId = 0 \/ \E m \in 1 .. k : actions[m].id = appliedId

\* Ids that are written as they are drawn stand in their order, and the cursor is not
\* before an id that was drawn and is not written.
IdsInOrder ==
  /\ \A i, j \in 1 .. Len(actions) : i < j => actions[i].id < actions[j].id
  /\ \A c \in Callers :
       drawn[c] # 0 =>
         /\ seenId < drawn[c] /\ appliedId < drawn[c]
         /\ \A i \in 1 .. Len(actions) : actions[i].id < drawn[c]
         /\ \A d \in Callers : d = c \/ drawn[d] = 0

IdsWereDrawn ==
  /\ \A c \in Callers : drawn[c] <= lastDrawn
  /\ \A i \in 1 .. Len(actions) : actions[i].id <= lastDrawn
  /\ seenId <= lastDrawn /\ appliedId <= lastDrawn
  /\ \A j \in 1 .. Len(batch) : batch[j].id <= lastDrawn

\* last_id is the cursor, or nothing when it could not be read, and what was applied
\* since comes after it.
DrainIsAfter ==
  drainAt = "reading" =>
    /\ lastId <= seenId /\ (appliedId = 0 \/ lastId < appliedId)
    /\ \E k \in 0 .. Len(actions) : BatchIsAfter(k)

BehindIsConsumed ==
  \A i \in 1 .. Len(actions) :
    actions[i].id <= seenId \/ actions[i].id <= appliedId => Consumed(actions[i])

\* Where the drain stands, and the action that was acted on last.  The latter is beyond
\* the former only by a kill or a fault that has not brought an action back yet.
AppliedUpTo ==
  IF drainAt = "reading" THEN IF appliedId # 0 THEN appliedId ELSE lastId ELSE seenId
LastApplied == IF applied = <<>> THEN 0 ELSE applied[Len(applied)]
AgainIsCounted ==
  /\ again <= drainCrashes + cursorFaults
  /\ LastApplied > AppliedUpTo => again + 1 <= drainCrashes + cursorFaults

QueueInv ==
  /\ SessionQueueTypeOK /\ IdsWereDrawn
  /\ ~crossed => IdsInOrder /\ DrainIsAfter /\ BehindIsConsumed /\ AgainIsCounted

LEMMA QueueInitially == SessionQueueInit => QueueInv
<1>. SUFFICES ASSUME SessionQueueInit PROVE QueueInv
  OBVIOUS
<1>. USE SessionQueueAssumption
<1>1. /\ drawn \in [Callers -> 0 .. MaxActions] /\ \A c \in Callers : drawn[c] = 0
      /\ lastDrawn = 0 /\ actions = <<>> /\ seenId = 0 /\ drainAt = "idle" /\ batch = <<>>
      /\ lastId = 0 /\ appliedId = 0 /\ applied = <<>> /\ over = FALSE /\ crossed = FALSE
      /\ drainCrashes = 0 /\ cursorFaults = 0 /\ again = 0
  BY DEF SessionQueueInit
<1>2. <<>> \in Seq(Lines) /\ <<>> \in Seq(1 .. MaxActions) /\ Len(<<>>) = 0
  OBVIOUS
<1>3. SessionQueueTypeOK
  <2>1. actions \in Seq(Lines) /\ batch \in Seq(Lines) /\ applied \in Seq(1 .. MaxActions)
    BY <1>1, <1>2
  <2>2. /\ 0 \in 0 .. MaxActions /\ 0 \in Nat
    OBVIOUS
  <2>3. over \in BOOLEAN /\ crossed \in BOOLEAN
    BY <1>1
  <2>. QED
    BY <1>1, <2>1, <2>2, <2>3 DEF SessionQueueTypeOK, Lines
<1>4. IdsWereDrawn /\ IdsInOrder
  BY <1>1, <1>2 DEF IdsWereDrawn, IdsInOrder
<1>5. DrainIsAfter /\ BehindIsConsumed /\ AgainIsCounted
  BY <1>1, <1>2 DEF DrainIsAfter, BehindIsConsumed, AgainIsCounted, AppliedUpTo, LastApplied
<1>. QED
  BY <1>3, <1>4, <1>5 DEF QueueInv

LEMMA QueueTypes ==
  ASSUME SessionQueueTypeOK
  PROVE  /\ drawn \in [Callers -> 0 .. MaxActions] /\ lastDrawn \in 0 .. MaxActions
         /\ actions \in Seq(Lines) /\ batch \in Seq(Lines) /\ applied \in Seq(1 .. MaxActions)
         /\ seenId \in 0 .. MaxActions /\ lastId \in 0 .. MaxActions
         /\ appliedId \in 0 .. MaxActions /\ drainCrashes \in Nat /\ cursorFaults \in Nat
         /\ again \in Nat
         /\ Len(actions) \in Nat /\ Len(batch) \in Nat /\ Len(applied) \in Nat
         /\ \A i \in 1 .. Len(actions) : actions[i] \in Lines /\ actions[i].id \in 1 .. MaxActions
         /\ \A i \in 1 .. Len(batch) : batch[i] \in Lines /\ batch[i].id \in 1 .. MaxActions
         /\ \A i \in 1 .. Len(applied) : applied[i] \in 1 .. MaxActions
<1>1. /\ drawn \in [Callers -> 0 .. MaxActions] /\ lastDrawn \in 0 .. MaxActions
      /\ actions \in Seq(Lines) /\ batch \in Seq(Lines) /\ applied \in Seq(1 .. MaxActions)
      /\ seenId \in 0 .. MaxActions /\ lastId \in 0 .. MaxActions
      /\ appliedId \in 0 .. MaxActions /\ drainCrashes \in Nat /\ cursorFaults \in Nat
      /\ again \in Nat
  BY DEF SessionQueueTypeOK, Lines
<1>2. \A e \in Lines : e.id \in 1 .. MaxActions
  BY DEF Lines
<1>. QED
  BY <1>1, <1>2, SeqHas

LEMMA LastAppliedType == SessionQueueTypeOK => LastApplied \in Nat
<1>. SUFFICES ASSUME SessionQueueTypeOK, applied # <<>> PROVE applied[Len(applied)] \in Nat
  BY DEF LastApplied
<1>1. applied \in Seq(1 .. MaxActions) /\ Len(applied) \in 1 .. Len(applied)
  BY QueueTypes, SeqHas
<1>. QED
  BY <1>1, QueueTypes

\* What was consumed stays so.
LEMMA ConsumedStays ==
  ASSUME SessionQueueTypeOK,
         applied' = applied \/ \E x \in 1 .. MaxActions : applied' = Append(applied, x)
  PROVE  \A e : Consumed(e) => Consumed(e)'
<1>1. applied \in Seq(1 .. MaxActions)
  BY DEF SessionQueueTypeOK
<1>2. /\ Len(applied) \in Nat /\ Len(applied') \in Nat /\ Len(applied) <= Len(applied')
      /\ \A i \in 1 .. Len(applied) : applied'[i] = applied[i]
  <2>1. CASE applied' = applied
    BY <1>1, <2>1, SeqHas
  <2>2. CASE \E x \in 1 .. MaxActions : applied' = Append(applied, x)
    BY <1>1, <2>2, AppendHas, SeqHas
  <2>. QED
    BY <2>1, <2>2
<1>. QED
  BY <1>2 DEF Consumed

LEMMA DrawKeepsQueue ==
  ASSUME QueueInv, NEW c \in Callers, DrawId(c)
  PROVE  QueueInv'
<1>. USE SessionQueueAssumption
<1>1. SessionQueueTypeOK /\ IdsWereDrawn
  BY DEF QueueInv
<1>2. /\ drawn[c] = 0 /\ lastDrawn < MaxActions /\ lastDrawn' = lastDrawn + 1
      /\ drawn' = [drawn EXCEPT ![c] = lastDrawn + 1]
      /\ crossed' = (crossed \/ \E d \in Callers : drawn[d] # 0)
      /\ UNCHANGED <<actions, seenId, drainAt, batch, lastId, appliedId, applied, again, over,
                     drainCrashes, cursorFaults>>
  BY DEF DrawId, drainVars
<1>3. /\ drawn \in [Callers -> 0 .. MaxActions] /\ lastDrawn \in 0 .. MaxActions
      /\ Len(actions) \in Nat /\ Len(batch) \in Nat
      /\ seenId \in 0 .. MaxActions /\ appliedId \in 0 .. MaxActions
      /\ \A i \in 1 .. Len(actions) : actions[i].id \in 1 .. MaxActions
      /\ \A i \in 1 .. Len(batch) : batch[i].id \in 1 .. MaxActions
  BY <1>1, QueueTypes
<1>4. lastDrawn + 1 \in 0 .. MaxActions
  BY <1>2, <1>3
<1>5. /\ drawn' \in [Callers -> 0 .. MaxActions] /\ drawn'[c] = lastDrawn + 1
      /\ \A d \in Callers : d # c => drawn'[d] = drawn[d]
  BY <1>2, <1>3, <1>4
<1>6. crossed \in BOOLEAN /\ crossed' \in BOOLEAN
  BY <1>1, <1>2 DEF SessionQueueTypeOK
<1>7. SessionQueueTypeOK'
  BY <1>1, <1>2, <1>4, <1>5, <1>6 DEF SessionQueueTypeOK
<1>8. IdsWereDrawn'
  BY <1>1, <1>2, <1>3, <1>5 DEF IdsWereDrawn
<1>9. ASSUME ~crossed' PROVE IdsInOrder' /\ DrainIsAfter' /\ BehindIsConsumed' /\ AgainIsCounted'
  <2>1. ~crossed /\ \A d \in Callers : drawn[d] = 0
    BY <1>2, <1>6, <1>9
  <2>2. IdsInOrder /\ DrainIsAfter /\ BehindIsConsumed /\ AgainIsCounted
    BY <2>1 DEF QueueInv
  <2>3. seenId < lastDrawn + 1 /\ appliedId < lastDrawn + 1
    BY <1>1, <1>3 DEF IdsWereDrawn
  <2>4. \A i \in 1 .. Len(actions) : actions[i].id < lastDrawn + 1
    BY <1>1, <1>3 DEF IdsWereDrawn
  <2>5. IdsInOrder'
    BY <1>2, <1>5, <2>1, <2>2, <2>3, <2>4 DEF IdsInOrder
  <2>6. DrainIsAfter' /\ BehindIsConsumed'
    BY <1>2, <2>2 DEF DrainIsAfter, BatchIsAfter, BehindIsConsumed, Consumed
  <2>7. AgainIsCounted'
    BY <1>2, <2>2 DEF AgainIsCounted, AppliedUpTo, LastApplied
  <2>. QED
    BY <2>5, <2>6, <2>7
<1>. QED
  BY <1>7, <1>8, <1>9 DEF QueueInv

LEMMA WriteKeepsQueue ==
  ASSUME QueueInv, NEW c \in Callers, WriteAction(c)
  PROVE  QueueInv'
<1>. USE SessionQueueAssumption
<1>1. SessionQueueTypeOK /\ IdsWereDrawn
  BY DEF QueueInv
<1>2. /\ drawn[c] # 0 /\ drawn' = [drawn EXCEPT ![c] = 0]
      /\ UNCHANGED <<lastDrawn, seenId, drainAt, batch, lastId, appliedId, applied, again, over,
                     crossed, drainCrashes, cursorFaults>>
  BY DEF WriteAction, drainVars
<1>3. PICK k \in ActionKinds : actions' = Append(actions, [id |-> drawn[c], kind |-> k])
  BY DEF WriteAction
<1>. DEFINE e == [id |-> drawn[c], kind |-> k]
            n == Len(actions) + 1
<1>4. /\ drawn \in [Callers -> 0 .. MaxActions] /\ lastDrawn \in 0 .. MaxActions
      /\ Len(actions) \in Nat /\ Len(batch) \in Nat /\ actions \in Seq(Lines)
      /\ seenId \in 0 .. MaxActions /\ appliedId \in 0 .. MaxActions
      /\ \A i \in 1 .. Len(actions) : actions[i].id \in 1 .. MaxActions
      /\ \A i \in 1 .. Len(batch) : batch[i].id \in 1 .. MaxActions
  BY <1>1, QueueTypes
<1>5. e \in Lines /\ e.id = drawn[c] /\ drawn[c] \in 1 .. MaxActions
  BY <1>2, <1>4 DEF Lines
<1>. HIDE DEF e
<1>6. /\ actions' \in Seq(Lines) /\ Len(actions') = n /\ actions'[n] = e
      /\ \A i \in 1 .. Len(actions) : actions'[i] = actions[i]
  BY <1>3, <1>4, <1>5, AppendHas DEF e
<1>7. /\ drawn' \in [Callers -> 0 .. MaxActions] /\ drawn'[c] = 0
      /\ \A d \in Callers : d # c => drawn'[d] = drawn[d]
  BY <1>2, <1>4
<1>8. SessionQueueTypeOK'
  BY <1>1, <1>2, <1>6, <1>7 DEF SessionQueueTypeOK, Lines
<1>9. \A i \in 1 .. n : i = n \/ i \in 1 .. Len(actions)
  BY <1>4
<1>10. IdsWereDrawn'
  <2>1. \A d \in Callers : drawn'[d] <= lastDrawn
    BY <1>1, <1>4, <1>7 DEF IdsWereDrawn
  <2>2. actions'[n].id <= lastDrawn
    BY <1>1, <1>5, <1>6 DEF IdsWereDrawn
  <2>3. \A i \in 1 .. Len(actions) : actions'[i].id <= lastDrawn
    BY <1>1, <1>6 DEF IdsWereDrawn
  <2>4. \A i \in 1 .. Len(actions') : actions'[i].id <= lastDrawn
    BY <1>6, <1>9, <2>2, <2>3
  <2>. QED
    BY <1>1, <1>2, <2>1, <2>4 DEF IdsWereDrawn
<1>11. ASSUME ~crossed' PROVE IdsInOrder' /\ DrainIsAfter' /\ BehindIsConsumed' /\ AgainIsCounted'
  <2>1. IdsInOrder /\ DrainIsAfter /\ BehindIsConsumed /\ AgainIsCounted
    BY <1>2, <1>11 DEF QueueInv
  <2>2. /\ seenId < drawn[c] /\ appliedId < drawn[c]
        /\ \A i \in 1 .. Len(actions) : actions[i].id < drawn[c]
        /\ \A d \in Callers : d = c \/ drawn[d] = 0
    BY <1>2, <2>1 DEF IdsInOrder
  <2>3. \A i, j \in 1 .. n : i < j => actions'[i].id < actions'[j].id
    <3>. SUFFICES ASSUME NEW i \in 1 .. n, NEW j \in 1 .. n, i < j
                  PROVE  actions'[i].id < actions'[j].id
      OBVIOUS
    <3>1. i \in 1 .. Len(actions) /\ actions'[i] = actions[i]
      BY <1>4, <1>6
    <3>2. CASE j = n
      BY <1>5, <1>6, <2>2, <3>1, <3>2
    <3>3. CASE j \in 1 .. Len(actions)
      BY <1>6, <2>1, <3>1, <3>3 DEF IdsInOrder
    <3>. QED
      BY <1>9, <3>2, <3>3
  <2>4. \A d \in Callers : drawn'[d] = 0
    BY <1>7, <2>2
  <2>5. IdsInOrder'
    BY <1>6, <2>3, <2>4 DEF IdsInOrder
  <2>6. DrainIsAfter'
    <3>1. \A m \in 0 .. Len(actions) : BatchIsAfter(m) => BatchIsAfter(m)'
      <4>. SUFFICES ASSUME NEW m \in 0 .. Len(actions), BatchIsAfter(m) PROVE BatchIsAfter(m)'
        OBVIOUS
      <4>1. m + Len(batch) <= n
        BY <1>4 DEF BatchIsAfter
      <4>2. \A j \in 1 .. Len(batch) : batch[j] = actions'[m + j]
        <5>. SUFFICES ASSUME NEW j \in 1 .. Len(batch) PROVE batch[j] = actions'[m + j]
          OBVIOUS
        <5>1. m + j \in 1 .. Len(actions)
          BY <1>4 DEF BatchIsAfter
        <5>. QED
          BY <1>6, <5>1 DEF BatchIsAfter
      <4>3. \A i \in 1 .. m : actions'[i] = actions[i]
        BY <1>4, <1>6
      <4>4. (\A i \in 1 .. m : Consumed(actions[i]))'
        BY <1>2, <4>3 DEF BatchIsAfter, Consumed
      <4>5. (appliedId = 0 \/ \E i \in 1 .. m : actions[i].id = appliedId)'
        BY <1>2, <4>3 DEF BatchIsAfter
      <4>6. (m + Len(batch) <= Len(actions))'
        BY <1>2, <1>6, <4>1
      <4>7. (\A j \in 1 .. Len(batch) : batch[j] = actions[m + j])'
        BY <1>2, <4>2
      <4>. QED
        BY <1>2, <4>4, <4>5, <4>6, <4>7 DEF BatchIsAfter
    <3>. QED
      BY <1>2, <1>4, <1>6, <2>1, <3>1 DEF DrainIsAfter
  <2>7. BehindIsConsumed'
    <3>1. ~(actions'[n].id <= seenId \/ actions'[n].id <= appliedId)
      BY <1>4, <1>5, <1>6, <2>2
    <3>. QED
      BY <1>2, <1>6, <1>9, <2>1, <3>1 DEF BehindIsConsumed, Consumed
  <2>8. AgainIsCounted'
    BY <1>2, <2>1 DEF AgainIsCounted, AppliedUpTo, LastApplied
  <2>. QED
    BY <2>5, <2>6, <2>7, <2>8
<1>. QED
  BY <1>8, <1>10, <1>11 DEF QueueInv

LEMMA DrainBeginKeepsQueue ==
  ASSUME QueueInv, DrainBegins
  PROVE  QueueInv'
<1>. USE SessionQueueAssumption
<1>1. SessionQueueTypeOK /\ IdsWereDrawn
  BY DEF QueueInv
<1>2. /\ drainAt = "idle" /\ drainAt' = "reading"
      /\ batch' = actions /\ appliedId' = 0
      /\ \/ lastId' = seenId /\ cursorFaults' = cursorFaults
         \/ lastId' = 0 /\ cursorFaults' = cursorFaults + 1
      /\ UNCHANGED <<drawn, lastDrawn, actions, crossed, seenId, applied, again, over, drainCrashes>>
  BY DEF DrainBegins, callerVars, CursorFault
<1>3. /\ drawn \in [Callers -> 0 .. MaxActions] /\ lastDrawn \in 0 .. MaxActions
      /\ Len(actions) \in Nat /\ seenId \in 0 .. MaxActions
      /\ \A i \in 1 .. Len(actions) : actions[i].id \in 1 .. MaxActions
      /\ cursorFaults \in Nat /\ drainCrashes \in Nat /\ again \in Nat
      /\ lastId' \in 0 .. MaxActions /\ lastId' <= seenId
  BY <1>1, <1>2, QueueTypes
<1>4. SessionQueueTypeOK'
  <2>1. cursorFaults' \in Nat
    BY <1>2, <1>3
  <2>. QED
    BY <1>1, <1>2, <1>3, <2>1 DEF SessionQueueTypeOK
<1>5. IdsWereDrawn'
  BY <1>1, <1>2, <1>3 DEF IdsWereDrawn
<1>6. ASSUME ~crossed' PROVE IdsInOrder' /\ DrainIsAfter' /\ BehindIsConsumed' /\ AgainIsCounted'
  <2>1. IdsInOrder /\ BehindIsConsumed /\ AgainIsCounted
    BY <1>2, <1>6 DEF QueueInv
  <2>2. IdsInOrder'
    BY <1>2, <1>3, <2>1 DEF IdsInOrder
  <2>3. BatchIsAfter(0)'
    BY <1>2, <1>3 DEF BatchIsAfter
  <2>4. DrainIsAfter'
    BY <1>2, <1>3, <2>3 DEF DrainIsAfter
  <2>5. BehindIsConsumed'
    BY <1>2, <1>3, <2>1 DEF BehindIsConsumed, Consumed
  <2>6. AgainIsCounted'
    <3>1. CASE lastId' = seenId /\ cursorFaults' = cursorFaults
      BY <1>2, <2>1, <3>1 DEF AgainIsCounted, AppliedUpTo, LastApplied
    <3>2. CASE cursorFaults' = cursorFaults + 1
      <4>1. again + 1 <= drainCrashes + (cursorFaults + 1) /\ again <= drainCrashes + (cursorFaults + 1)
        BY <1>3, <2>1 DEF AgainIsCounted
      <4>. QED
        BY <1>2, <3>2, <4>1 DEF AgainIsCounted
    <3>. QED
      BY <1>2, <3>1, <3>2
  <2>. QED
    BY <2>2, <2>4, <2>5, <2>6
<1>. QED
  BY <1>4, <1>5, <1>6 DEF QueueInv

LEMMA DrainLineKeepsQueue ==
  ASSUME QueueInv, DrainLineOfQueue
  PROVE  QueueInv'
<1>. USE SessionQueueAssumption
<1>1. SessionQueueTypeOK /\ IdsWereDrawn
  BY DEF QueueInv
<1>2. /\ drawn \in [Callers -> 0 .. MaxActions] /\ lastDrawn \in 0 .. MaxActions
      /\ Len(actions) \in Nat /\ Len(batch) \in Nat /\ batch \in Seq(Lines)
      /\ seenId \in 0 .. MaxActions /\ appliedId \in 0 .. MaxActions
      /\ Len(applied) \in Nat /\ applied \in Seq(1 .. MaxActions) /\ drainCrashes \in Nat
      /\ cursorFaults \in Nat /\ again \in Nat /\ lastId \in 0 .. MaxActions
      /\ \A i \in 1 .. Len(actions) : actions[i].id \in 1 .. MaxActions
      /\ \A i \in 1 .. Len(batch) : batch[i].id \in 1 .. MaxActions
      /\ \A i \in 1 .. Len(applied) : applied[i] \in 1 .. MaxActions
  BY <1>1, QueueTypes
<1>3. batch # <<>> /\ batch' = Tail(batch) /\ drainAt = "reading"
  BY DEF DrainLineOfQueue
<1>3a. PICK e \in Lines : e = Head(batch)
  BY <1>2, <1>3, TailHas
<1>4. /\ batch' \in Seq(Lines) /\ Len(batch') = Len(batch) - 1 /\ Len(batch) \in Nat \ {0}
      /\ batch[1] = e /\ \A i \in 1 .. Len(batch) - 1 : batch'[i] = batch[i + 1]
  BY <1>2, <1>3, <1>3a, TailHas
<1>5. /\ UNCHANGED <<drawn, lastDrawn, actions, crossed, seenId, drainAt, lastId, drainCrashes,
                     cursorFaults>>
      /\ \/ e.id <= lastId /\ UNCHANGED <<appliedId, applied, again, over>>
         \/ /\ ~(e.id <= lastId) /\ appliedId' = e.id
            /\ \/ e.kind = "invalid" /\ applied' = applied /\ again' = again
               \/ /\ e.kind # "invalid" /\ applied' = Append(applied, e.id)
                  /\ again' = IF ActedOn(e.id) THEN again + 1 ELSE again
            /\ over' \in BOOLEAN
  <2>1. over' \in {FALSE, e.kind = "abort"} => over' \in BOOLEAN
    OBVIOUS
  <2>. QED
    BY <1>3a, <1>1, <2>1 DEF DrainLineOfQueue, Apply, callerVars, SessionQueueTypeOK
<1>6. e.id \in 1 .. MaxActions /\ e.id <= lastDrawn
  <2>1. 1 \in 1 .. Len(batch)
    BY <1>4
  <2>. QED
    BY <1>1, <1>2, <1>4, <2>1 DEF IdsWereDrawn
<1>7. /\ applied' \in Seq(1 .. MaxActions) /\ appliedId' \in 0 .. MaxActions /\ appliedId' <= lastDrawn
      /\ over' \in BOOLEAN /\ again' \in Nat
  <2>0. again' \in Nat
    BY <1>2, <1>5
  <2>1. CASE e.id <= lastId /\ UNCHANGED <<appliedId, applied, over>>
    BY <1>1, <1>2, <2>0, <2>1 DEF IdsWereDrawn, SessionQueueTypeOK
  <2>2. CASE appliedId' = e.id /\ over' \in BOOLEAN /\ applied' = applied
    BY <1>2, <1>6, <2>0, <2>2
  <2>3. CASE appliedId' = e.id /\ over' \in BOOLEAN /\ applied' = Append(applied, e.id)
    BY <1>2, <1>6, <2>0, <2>3, AppendHas
  <2>. QED
    BY <1>5, <2>0, <2>1, <2>2, <2>3
<1>8. SessionQueueTypeOK'
  BY <1>1, <1>4, <1>5, <1>7 DEF SessionQueueTypeOK, Lines
<1>9. IdsWereDrawn'
  <2>1. ASSUME NEW j \in 1 .. Len(batch') PROVE batch'[j].id <= lastDrawn
    <3>1. j + 1 \in 1 .. Len(batch) /\ batch'[j] = batch[j + 1]
      BY <1>2, <1>4
    <3>. QED
      BY <1>1, <3>1 DEF IdsWereDrawn
  <2>. QED
    BY <1>1, <1>5, <1>7, <2>1 DEF IdsWereDrawn
<1>10. \A x : Consumed(x) => Consumed(x)'
  BY <1>1, <1>5, <1>6, ConsumedStays
<1>11. ASSUME ~crossed
       PROVE  \E k \in 0 .. Len(actions) - 1 :
                /\ BatchIsAfter(k) /\ e = actions[k + 1]
                /\ \A i \in 1 .. Len(actions) : actions[i].id < e.id <=> i <= k
  <2>1. IdsInOrder /\ DrainIsAfter
    BY <1>11 DEF QueueInv
  <2>2. PICK k \in 0 .. Len(actions) : BatchIsAfter(k)
    BY <1>3, <2>1 DEF DrainIsAfter
  <2>3. k \in 0 .. Len(actions) - 1 /\ e = actions[k + 1]
    BY <1>2, <1>4, <2>2 DEF BatchIsAfter
  <2>4. \A i \in 1 .. Len(actions) : actions[i].id < e.id <=> i <= k
    <3>. SUFFICES ASSUME NEW i \in 1 .. Len(actions) PROVE actions[i].id < e.id <=> i <= k
      OBVIOUS
    <3>1. k + 1 \in 1 .. Len(actions)
      BY <1>2, <2>3
    <3>2. CASE i <= k
      BY <1>2, <2>1, <2>3, <3>1, <3>2 DEF IdsInOrder
    <3>3. CASE i = k + 1
      BY <1>2, <1>6, <2>3, <3>3
    <3>4. CASE i > k + 1
      BY <1>2, <2>1, <2>3, <3>1, <3>4 DEF IdsInOrder
    <3>. QED
      BY <1>2, <3>2, <3>3, <3>4
  <2>. QED
    BY <2>2, <2>3, <2>4
<1>12. ASSUME ~crossed' PROVE IdsInOrder' /\ DrainIsAfter' /\ BehindIsConsumed' /\ AgainIsCounted'
  <2>1. ~crossed /\ IdsInOrder /\ DrainIsAfter /\ BehindIsConsumed /\ AgainIsCounted
    BY <1>5, <1>12 DEF QueueInv
  <2>2. PICK k \in 0 .. Len(actions) - 1 :
          /\ BatchIsAfter(k) /\ e = actions[k + 1]
          /\ \A i \in 1 .. Len(actions) : actions[i].id < e.id <=> i <= k
    BY <1>11, <2>1
  <2>3. lastId <= seenId /\ (appliedId = 0 \/ lastId < appliedId)
    BY <1>3, <2>1 DEF DrainIsAfter
  <2>4. k + 1 \in 1 .. Len(actions) /\ k \in Nat
    BY <1>2
  <2>5. appliedId' = appliedId \/ appliedId' = e.id
    BY <1>5
  <2>6. \A c \in Callers : drawn[c] # 0 => appliedId' < drawn[c]
    BY <2>1, <2>2, <2>4, <2>5 DEF IdsInOrder
  <2>7. IdsInOrder'
    BY <1>5, <2>1, <2>6 DEF IdsInOrder
  <2>8. Consumed(e)'
    <3>1. CASE e.id <= lastId
      <4>1. e.id <= seenId
        BY <1>2, <1>6, <2>3, <3>1
      <4>. QED
        BY <1>10, <2>1, <2>2, <2>4, <4>1 DEF BehindIsConsumed
    <3>2. CASE e.kind = "invalid"
      BY <3>2 DEF Consumed
    <3>3. CASE applied' = Append(applied, e.id)
      <4>1. /\ Len(applied') = Len(applied) + 1 /\ applied'[Len(applied) + 1] = e.id
        BY <1>2, <1>6, <3>3, AppendHas
      <4>2. Len(applied) + 1 \in 1 .. Len(applied')
        BY <1>2, <4>1
      <4>. QED
        BY <4>1, <4>2 DEF Consumed
    <3>. QED
      BY <1>5, <3>1, <3>2, <3>3
  <2>9. \A i \in 1 .. k + 1 : Consumed(actions[i])'
    <3>1. \A i \in 1 .. k : Consumed(actions[i])'
      BY <1>5, <1>10, <2>2 DEF BatchIsAfter, Consumed
    <3>. QED
      BY <1>5, <2>2, <2>4, <2>8, <3>1 DEF Consumed
  <2>10. BatchIsAfter(k + 1)'
    <3>1. k + 1 + Len(batch') <= Len(actions)
      BY <1>2, <1>4, <2>2 DEF BatchIsAfter
    <3>2. \A j \in 1 .. Len(batch') : batch'[j] = actions[k + 1 + j]
      <4>. SUFFICES ASSUME NEW j \in 1 .. Len(batch') PROVE batch'[j] = actions[k + 1 + j]
        OBVIOUS
      <4>1. batch'[j] = batch[j + 1] /\ j + 1 \in 1 .. Len(batch)
        BY <1>2, <1>4
      <4>2. batch[j + 1] = actions[k + (j + 1)]
        BY <2>2, <4>1 DEF BatchIsAfter
      <4>. QED
        BY <1>2, <1>4, <2>4, <4>1, <4>2
    <3>3. appliedId' = 0 \/ \E m \in 1 .. k + 1 : actions[m].id = appliedId'
      BY <2>2, <2>4, <2>5 DEF BatchIsAfter
    <3>4. (\A i \in 1 .. k + 1 : Consumed(actions[i]))'
      BY <1>5, <2>9
    <3>. QED
      BY <1>5, <3>1, <3>2, <3>3, <3>4 DEF BatchIsAfter
  <2>11. DrainIsAfter'
    <3>1. k + 1 \in 0 .. Len(actions)
      BY <2>4
    <3>2. appliedId' = 0 \/ lastId' < appliedId'
      BY <1>2, <1>5, <1>6, <2>3
    <3>. QED
      BY <1>5, <2>3, <2>10, <3>1, <3>2 DEF DrainIsAfter
  <2>12. BehindIsConsumed'
    <3>. SUFFICES ASSUME NEW i \in 1 .. Len(actions),
                         actions[i].id <= seenId \/ actions[i].id <= appliedId'
                  PROVE  Consumed(actions[i])'
      BY <1>5 DEF BehindIsConsumed, Consumed
    <3>1. CASE actions[i].id <= seenId \/ actions[i].id <= appliedId
      BY <1>5, <1>10, <2>1, <3>1 DEF BehindIsConsumed, Consumed
    <3>2. CASE actions[i].id <= e.id
      <4>1. i \in 1 .. k + 1
        <5>1. CASE i <= k
          BY <2>4, <5>1
        <5>2. CASE i = k + 1
          BY <2>4, <5>2
        <5>3. CASE i > k + 1
          BY <1>2, <1>6, <2>1, <2>2, <2>4, <3>2, <5>3 DEF IdsInOrder
        <5>. QED
          BY <2>4, <5>1, <5>2, <5>3
      <4>. QED
        BY <2>9, <4>1
    <3>. QED
      BY <2>5, <3>1, <3>2
  <2>13. AgainIsCounted'
    <3>1. CASE UNCHANGED <<appliedId, applied, again>>
      BY <1>5, <2>1, <3>1 DEF AgainIsCounted, AppliedUpTo, LastApplied
    <3>2. CASE ~(e.id <= lastId) /\ appliedId' = e.id
      <4>1. appliedId = 0 \/ appliedId < e.id
        <5>1. CASE \E m \in 1 .. k : actions[m].id = appliedId
          <6>1. PICK m \in 1 .. k : actions[m].id = appliedId
            BY <5>1
          <6>2. m \in 1 .. Len(actions) /\ m <= k
            BY <1>2
          <6>. QED
            BY <2>2, <6>1, <6>2
        <5>. QED
          BY <2>2, <5>1 DEF BatchIsAfter
      <4>2. AppliedUpTo < e.id /\ AppliedUpTo \in Nat /\ e.id \in Nat
        BY <1>2, <1>3, <1>6, <3>2, <4>1 DEF AppliedUpTo
      <4>3. AppliedUpTo' = e.id
        BY <1>3, <1>5, <1>6, <3>2 DEF AppliedUpTo
      <4>4. LastApplied \in Nat /\ (ActedOn(e.id) => e.id <= LastApplied)
        <5>1. CASE applied = <<>>
          BY <5>1 DEF LastApplied, ActedOn
        <5>2. CASE applied # <<>>
          <6>1. Len(applied) \in 1 .. Len(applied)
            BY <1>2, <5>2, SeqHas
          <6>. QED
            BY <1>2, <5>2, <6>1 DEF LastApplied, ActedOn
        <5>. QED
          BY <5>1, <5>2
      <4>5. CASE applied' = applied /\ again' = again
        <5>1. LastApplied' = LastApplied
          BY <4>5 DEF LastApplied
        <5>2. LastApplied' > AppliedUpTo' => LastApplied > AppliedUpTo
          BY <4>2, <4>3, <4>4, <5>1
        <5>. QED
          BY <1>5, <2>1, <4>5, <5>2 DEF AgainIsCounted
      <4>6. CASE /\ applied' = Append(applied, e.id)
                 /\ again' = IF ActedOn(e.id) THEN again + 1 ELSE again
        <5>1. /\ applied' \in Seq(1 .. MaxActions) /\ Len(applied') = Len(applied) + 1
              /\ applied'[Len(applied) + 1] = e.id
          BY <1>2, <1>6, <4>6, AppendHas
        <5>2. LastApplied' = e.id
          <6>1. applied' # <<>>
            BY <1>2, <5>1
          <6>. QED
            BY <5>1, <6>1 DEF LastApplied
        <5>3. ~(LastApplied' > AppliedUpTo')
          BY <4>2, <4>3, <5>2
        <5>4. ActedOn(e.id) => LastApplied > AppliedUpTo
          BY <4>2, <4>4
        <5>5. again' <= drainCrashes + cursorFaults
          BY <2>1, <4>6, <5>4 DEF AgainIsCounted
        <5>. QED
          BY <1>5, <5>3, <5>5 DEF AgainIsCounted
      <4>. QED
        BY <1>5, <3>2, <4>5, <4>6
    <3>. QED
      BY <1>5, <3>1, <3>2
  <2>. QED
    BY <2>7, <2>11, <2>12, <2>13
<1>. QED
  BY <1>8, <1>9, <1>12 DEF QueueInv

LEMMA DrainEndKeepsQueue ==
  ASSUME QueueInv, DrainEnds
  PROVE  QueueInv'
<1>. USE SessionQueueAssumption
<1>1. SessionQueueTypeOK /\ IdsWereDrawn
  BY DEF QueueInv
<1>2. /\ drainAt = "reading" /\ drainAt' = "idle" /\ batch' = <<>>
      /\ \/ seenId' = (IF appliedId # 0 THEN appliedId ELSE seenId) /\ cursorFaults' = cursorFaults
         \/ seenId' \in {seenId, 0} /\ cursorFaults' = cursorFaults + 1
      /\ UNCHANGED <<drawn, lastDrawn, actions, crossed, lastId, appliedId, applied, again, over,
                     drainCrashes>>
  BY DEF DrainEnds, DrainOver, CursorFault, callerVars
<1>3. /\ drawn \in [Callers -> 0 .. MaxActions] /\ lastDrawn \in 0 .. MaxActions
      /\ Len(actions) \in Nat /\ seenId \in 0 .. MaxActions /\ appliedId \in 0 .. MaxActions
      /\ lastId \in 0 .. MaxActions
      /\ \A i \in 1 .. Len(actions) : actions[i].id \in 1 .. MaxActions
      /\ cursorFaults \in Nat /\ drainCrashes \in Nat /\ again \in Nat
  BY <1>1, QueueTypes
<1>4. /\ batch' \in Seq(Lines) /\ Len(batch') = 0 /\ seenId' \in 0 .. MaxActions
      /\ seenId' \in {0, seenId, appliedId} /\ cursorFaults' \in Nat
  BY <1>2, <1>3
<1>5. SessionQueueTypeOK'
  BY <1>1, <1>2, <1>3, <1>4 DEF SessionQueueTypeOK, Lines
<1>6. IdsWereDrawn'
  BY <1>1, <1>2, <1>3, <1>4 DEF IdsWereDrawn
<1>7. ASSUME ~crossed' PROVE IdsInOrder' /\ DrainIsAfter' /\ BehindIsConsumed' /\ AgainIsCounted'
  <2>1. IdsInOrder /\ DrainIsAfter /\ BehindIsConsumed /\ AgainIsCounted
    BY <1>2, <1>7 DEF QueueInv
  <2>2. IdsInOrder'
    BY <1>2, <1>3, <1>4, <2>1 DEF IdsInOrder
  <2>3. DrainIsAfter' /\ BehindIsConsumed'
    BY <1>2, <1>3, <1>4, <2>1 DEF DrainIsAfter, BehindIsConsumed, Consumed
  <2>4. LastApplied' = LastApplied
    BY <1>2 DEF LastApplied
  <2>5. LastApplied \in Nat
    BY <1>1, LastAppliedType
  <2>6. AgainIsCounted'
    <3>1. CASE seenId' = (IF appliedId # 0 THEN appliedId ELSE seenId) /\ cursorFaults' = cursorFaults
      <4>1. AppliedUpTo <= AppliedUpTo' /\ AppliedUpTo \in Nat /\ AppliedUpTo' \in Nat
        BY <1>2, <1>3, <1>4, <2>1, <3>1 DEF AppliedUpTo, DrainIsAfter
      <4>2. LastApplied' > AppliedUpTo' => LastApplied > AppliedUpTo
        BY <2>4, <2>5, <4>1
      <4>. QED
        BY <1>2, <2>1, <3>1, <4>2 DEF AgainIsCounted
    <3>2. CASE cursorFaults' = cursorFaults + 1
      <4>1. again + 1 <= drainCrashes + (cursorFaults + 1) /\ again <= drainCrashes + (cursorFaults + 1)
        BY <1>3, <2>1 DEF AgainIsCounted
      <4>. QED
        BY <1>2, <3>2, <4>1 DEF AgainIsCounted
    <3>. QED
      BY <1>2, <3>1, <3>2
  <2>. QED
    BY <2>2, <2>3, <2>6
<1>. QED
  BY <1>5, <1>6, <1>7 DEF QueueInv

LEMMA RestartKeepsQueue ==
  ASSUME QueueInv, MonitorRestarts
  PROVE  QueueInv'
<1>. USE SessionQueueAssumption
<1>1. SessionQueueTypeOK /\ IdsWereDrawn
  BY DEF QueueInv
<1>2. /\ drainAt' = "idle" /\ batch' = <<>> /\ lastId' = 0 /\ appliedId' = 0 /\ over' = FALSE
      /\ \/ drainAt = "idle" /\ drainCrashes' = drainCrashes /\ seenId' = seenId
         \/ drainCrashes' = drainCrashes + 1 /\ seenId' \in {seenId, 0}
      /\ UNCHANGED <<drawn, lastDrawn, actions, crossed, applied, again, cursorFaults>>
  BY DEF MonitorRestarts, callerVars
<1>3. /\ drawn \in [Callers -> 0 .. MaxActions] /\ lastDrawn \in 0 .. MaxActions
      /\ Len(actions) \in Nat /\ seenId \in 0 .. MaxActions /\ appliedId \in 0 .. MaxActions
      /\ \A i \in 1 .. Len(actions) : actions[i].id \in 1 .. MaxActions
      /\ drainCrashes \in Nat /\ cursorFaults \in Nat /\ again \in Nat
  BY <1>1, QueueTypes
<1>4. batch' \in Seq(Lines) /\ Len(batch') = 0 /\ 0 \in 0 .. MaxActions /\ seenId' \in {seenId, 0}
  BY <1>2
<1>5. over' \in BOOLEAN /\ drainCrashes' \in Nat
  <2>1. over' \in BOOLEAN
    BY <1>2
  <2>. QED
    BY <1>2, <1>3, <2>1
<1>6. SessionQueueTypeOK'
  BY <1>1, <1>2, <1>3, <1>4, <1>5 DEF SessionQueueTypeOK, Lines
<1>7. IdsWereDrawn'
  BY <1>1, <1>2, <1>3, <1>4 DEF IdsWereDrawn
<1>8. ASSUME ~crossed' PROVE IdsInOrder' /\ DrainIsAfter' /\ BehindIsConsumed' /\ AgainIsCounted'
  <2>1. IdsInOrder /\ BehindIsConsumed /\ AgainIsCounted
    BY <1>2, <1>8 DEF QueueInv
  <2>2. IdsInOrder'
    BY <1>2, <1>3, <1>4, <2>1 DEF IdsInOrder
  <2>3. DrainIsAfter' /\ BehindIsConsumed'
    BY <1>2, <1>3, <1>4, <2>1 DEF DrainIsAfter, BehindIsConsumed, Consumed
  <2>4. AgainIsCounted'
    <3>1. CASE drainAt = "idle" /\ drainCrashes' = drainCrashes /\ seenId' = seenId
      BY <1>2, <2>1, <3>1 DEF AgainIsCounted, AppliedUpTo, LastApplied
    <3>2. CASE drainCrashes' = drainCrashes + 1
      <4>1. again + 1 <= (drainCrashes + 1) + cursorFaults /\ again <= (drainCrashes + 1) + cursorFaults
        BY <1>3, <2>1 DEF AgainIsCounted
      <4>. QED
        BY <1>2, <3>2, <4>1 DEF AgainIsCounted
    <3>. QED
      BY <1>2, <3>1, <3>2
  <2>. QED
    BY <2>2, <2>3, <2>4
<1>. QED
  BY <1>6, <1>7, <1>8 DEF QueueInv

\* A signal, or nothing at all.
LEMMA SignalKeepsQueue ==
  ASSUME QueueInv, over' \in BOOLEAN,
         UNCHANGED <<drawn, lastDrawn, actions, seenId, drainAt, batch, lastId, appliedId, applied,
                     again, crossed, drainCrashes, cursorFaults>>
  PROVE  QueueInv'
<1>1. SessionQueueTypeOK' /\ IdsWereDrawn'
  BY DEF QueueInv, SessionQueueTypeOK, IdsWereDrawn
<1>2. ASSUME ~crossed' PROVE IdsInOrder' /\ DrainIsAfter' /\ BehindIsConsumed'
  BY <1>2 DEF QueueInv, IdsInOrder, DrainIsAfter, BatchIsAfter, BehindIsConsumed, Consumed
<1>3. ASSUME ~crossed' PROVE AgainIsCounted'
  BY <1>3 DEF QueueInv, AgainIsCounted, AppliedUpTo, LastApplied
<1>. QED
  BY <1>1, <1>2, <1>3 DEF QueueInv

LEMMA QueueKeeps ==
  ASSUME QueueInv, [SessionQueueNext]_queueVars
  PROVE  QueueInv'
<1>1. CASE \E c \in Callers : DrawId(c) \/ WriteAction(c)
  BY <1>1, DrawKeepsQueue, WriteKeepsQueue
<1>2. CASE DrainBegins \/ DrainLineOfQueue \/ DrainEnds \/ MonitorRestarts
  BY <1>2, DrainBeginKeepsQueue, DrainLineKeepsQueue, DrainEndKeepsQueue, RestartKeepsQueue
<1>3. CASE DrainSignalled
  BY <1>3, SignalKeepsQueue DEF DrainSignalled, callerVars
<1>4. CASE UNCHANGED queueVars
  <2>1. over \in BOOLEAN
    BY DEF QueueInv, SessionQueueTypeOK
  <2>. QED
    BY <1>4, <2>1, SignalKeepsQueue DEF queueVars
<1>. QED
  BY <1>1, <1>2, <1>3, <1>4 DEF SessionQueueNext

LEMMA CursorsAreSound == QueueInv => CursorPassesConsumed /\ AppliedOncePerId
  BY DEF QueueInv, BehindIsConsumed, AgainIsCounted, CursorPassesConsumed, AppliedOncePerId

-----------------------------------------------------------------------------
(* Incident folders and the session's cursor *)

\* The folder of an incident is one, stamps rise along the index, and what the
\* monitor is writing comes after all of it.
FoldersAreIds ==
  /\ second \in 1 .. MaxSeconds
  /\ folders \subseteq Ids /\ IsFiniteSet(folders)
  /\ \A id \in folders : id.second \in 1 .. second
  /\ writing \in folders \cup {NoId} /\ index \in Seq(Ids)
  /\ \A i \in 1 .. Len(index) : index[i] \in folders

IndexInOrder ==
  /\ \A i, j \in 1 .. Len(index) : i < j => index[i].second <= index[j].second
  /\ \A i, j \in 1 .. Len(index) : i # j => index[i] # index[j]
  /\ writing # NoId =>
       \A i \in 1 .. Len(index) : index[i] # writing /\ index[i].second <= writing.second

\* The cursor is on an incident the session has dealt with, and what it is shown are
\* the first of the lines behind the cursor.
CursorWasHandled ==
  /\ \A id \in handled : \E i \in 1 .. Len(index) : id = index[i]
  /\ cursor = NoId \/ cursor \in handled
ShownIsFirst ==
  /\ shown \subseteq Pending
  /\ \A i \in shown : \A j \in Pending : j <= i => j \in shown

\* The i-th line sorts before an earlier one of its second that was dealt with.
Overtaken(i) ==
  \E j \in 1 .. i - 1 : /\ index[j] \in handled /\ index[j].second = index[i].second
                        /\ Before(index[i], index[j])
DealtWith(i) == index[i] \in handled \/ Before(cursor, index[i]) \/ Overtaken(i)
AllDealtWith == \A i \in 1 .. Len(index) : DealtWith(i)

IncidentInv ==
  FoldersAreIds /\ IndexInOrder /\ CursorWasHandled /\ ShownIsFirst /\ AllDealtWith

LEMMA IdFacts ==
  /\ \A id \in Ids : id.second \in 0 .. MaxSeconds /\ id.slug \in Nat /\ id.sequence \in 0 .. MaxIncidents
  /\ NoId.second = 0
  /\ \A a, b \in Ids : a = b \/ Before(a, b) \/ Before(b, a)
<1>1. \A id \in Ids : id.second \in 0 .. MaxSeconds /\ id.slug \in Nat /\ id.sequence \in 0 .. MaxIncidents
  BY IncidentsAssumption DEF Ids
<1>2. NoId.second = 0
  BY DEF NoId
<1>3. ASSUME NEW a \in Ids, NEW b \in Ids PROVE a = b \/ Before(a, b) \/ Before(b, a)
  <2>1. /\ a = [second |-> a.second, slug |-> a.slug, sequence |-> a.sequence]
        /\ b = [second |-> b.second, slug |-> b.slug, sequence |-> b.sequence]
    BY DEF Ids
  <2>2. /\ a.second \in Nat /\ b.second \in Nat /\ a.slug \in Nat /\ b.slug \in Nat
        /\ a.sequence \in Nat /\ b.sequence \in Nat
    BY <1>1, IncidentsAssumption
  <2>3. a.second = b.second /\ a.slug = b.slug /\ a.sequence = b.sequence => a = b
    BY <2>1
  <2>. QED
    BY <2>2, <2>3 DEF Before
<1>. QED
  BY <1>1, <1>2, <1>3

LEMMA LeastOf ==
  ASSUME NEW T \in SUBSET Nat, T # {}
  PROVE  \E m \in T : \A k \in T : m <= k
<1>. DEFINE R == OpToRel(<, Nat)
<1>1. IsWellFoundedOn(R, Nat)
  BY NatLessThanWellFounded
<1>2. \A x, y \in Nat : <<x, y>> \in R <=> x < y
  BY DEF OpToRel
<1>. HIDE DEF R
<1>3. PICK x \in T : \A y \in T : ~(<<y, x>> \in R)
  BY <1>1, WFMin
<1>4. ASSUME NEW y \in T PROVE x <= y
  <2>1. x \in Nat /\ y \in Nat /\ ~(y < x)
    BY <1>2, <1>3
  <2>. QED
    BY <2>1
<1>. QED
  BY <1>4

\* As long as there is room for a folder, the loop over the numbers ends at one that
\* is free: fewer than MaxIncidents + 1 are taken.
LEMMA FolderIsFree ==
  ASSUME FoldersAreIds, Cardinality(folders) < MaxIncidents, NEW slug \in Sources
  PROVE  FolderFor(slug) \in Ids /\ FolderFor(slug).second = second /\ FolderFor(slug) \notin folders
<1>. DEFINE name(n) == [second |-> second, slug |-> slug, sequence |-> n]
            Free == {n \in 0 .. MaxIncidents : name(n) \notin folders}
<1>1. /\ MaxIncidents \in Nat /\ \A n \in 0 .. MaxIncidents : name(n) \in Ids
  BY IncidentsAssumption DEF FoldersAreIds, Ids
<1>2. Free # {}
  <2>. SUFFICES ASSUME \A n \in 0 .. MaxIncidents : name(n) \in folders PROVE FALSE
    OBVIOUS
  <2>. DEFINE S == 0 .. MaxIncidents
              f == [n \in S |-> name(n)]
  <2>1. f \in [S -> folders]
    OBVIOUS
  <2>2. \A m, n \in S : f[m] = f[n] => m = n
    <3>. SUFFICES ASSUME NEW m \in S, NEW n \in S, f[m] = f[n] PROVE m = n
      OBVIOUS
    <3>1. name(m) = name(n)
      OBVIOUS
    <3>2. name(m).sequence = m /\ name(n).sequence = n
      OBVIOUS
    <3>. QED
      BY <3>1, <3>2
  <2>3. f \in Injection(S, folders)
    BY <2>1, <2>2 DEF Injection, IsInjective
  <2>4. IsFiniteSet(folders) /\ Cardinality(folders) \in Nat
    BY FS_CardinalityType DEF FoldersAreIds
  <2>. HIDE DEF f
  <2>5. Cardinality(S) <= Cardinality(folders)
    BY <2>3, <2>4, FS_Injection
  <2>6. Cardinality(0 .. MaxIncidents) = MaxIncidents + 1
    <3>1. 0 \in Int /\ MaxIncidents \in Int /\ ~(0 > MaxIncidents)
      BY <1>1
    <3>2. Cardinality(0 .. MaxIncidents) = IF 0 > MaxIncidents THEN 0 ELSE MaxIncidents - 0 + 1
      BY <3>1, FS_Interval
    <3>. QED
      BY <1>1, <3>1, <3>2
  <2>. QED
    BY <1>1, <2>4, <2>5, <2>6
<1>3. PICK m \in Free : \A k \in Free : m <= k
  <2>1. Free \in SUBSET Nat
    OBVIOUS
  <2>. QED
    BY <1>2, <2>1, LeastOf
<1>4. /\ name(m) \in Ids /\ name(m) \notin folders
      /\ \A n \in 0 .. m - 1 : [name(m) EXCEPT !.sequence = n] \in folders
  <2>1. ASSUME NEW n \in 0 .. m - 1 PROVE [name(m) EXCEPT !.sequence = n] \in folders
    <3>1. n \in 0 .. MaxIncidents /\ ~(m <= n)
      BY <1>1
    <3>2. [name(m) EXCEPT !.sequence = n] = name(n)
      OBVIOUS
    <3>. QED
      BY <1>3, <3>1, <3>2
  <2>. QED
    BY <1>1, <2>1
<1>5. \E id \in Ids :
        /\ id.second = second /\ id.slug = slug /\ id \notin folders
        /\ \A n \in 0 .. id.sequence - 1 : [id EXCEPT !.sequence = n] \in folders
  <2>1. name(m).second = second /\ name(m).slug = slug /\ name(m).sequence = m
    OBVIOUS
  <2>. HIDE DEF name
  <2>. QED
    BY <1>4, <2>1
<1>. QED
  BY <1>5 DEF FolderFor

LEMMA IncidentInitially == IncidentsInit => IncidentInv
<1>. SUFFICES ASSUME IncidentsInit PROVE IncidentInv
  OBVIOUS
<1>1. /\ second = 1 /\ folders = {} /\ writing = NoId /\ index = <<>>
      /\ cursor = NoId /\ shown = {} /\ handled = {}
  BY DEF IncidentsInit
<1>2. IsFiniteSet({}) /\ 1 \in 1 .. MaxSeconds /\ <<>> \in Seq(Ids) /\ Len(<<>>) = 0
  BY IncidentsAssumption, FS_EmptySet
<1>3. FoldersAreIds
  BY <1>1, <1>2 DEF FoldersAreIds
<1>4. IndexInOrder /\ CursorWasHandled /\ ShownIsFirst /\ AllDealtWith
  BY <1>1, <1>2 DEF IndexInOrder, CursorWasHandled, ShownIsFirst, AllDealtWith
<1>. QED
  BY <1>3, <1>4 DEF IncidentInv

LEMMA FolderKeepsIncidents ==
  ASSUME IncidentInv, SecondPasses \/ WriterDies \/ \E slug \in Sources : WriteFolder(slug)
  PROVE  IncidentInv'
<1>1. FoldersAreIds /\ IndexInOrder /\ CursorWasHandled /\ ShownIsFirst /\ AllDealtWith
  BY DEF IncidentInv
<1>2. UNCHANGED <<index, cursor, shown, handled>>
  BY DEF SecondPasses, WriterDies, WriteFolder
<1>3. CursorWasHandled' /\ ShownIsFirst' /\ AllDealtWith'
  BY <1>1, <1>2
     DEF CursorWasHandled, ShownIsFirst, Pending, AllDealtWith, DealtWith, Overtaken
<1>4. CASE SecondPasses
  <2>1. /\ second < MaxSeconds /\ second' = second + 1 /\ UNCHANGED <<folders, writing>>
    BY <1>4 DEF SecondPasses
  <2>2. FoldersAreIds'
    BY <1>1, <1>2, <2>1, IncidentsAssumption DEF FoldersAreIds
  <2>3. IndexInOrder'
    BY <1>1, <1>2, <2>1 DEF IndexInOrder
  <2>. QED
    BY <1>3, <2>2, <2>3 DEF IncidentInv
<1>5. CASE WriterDies
  <2>1. writing' = NoId /\ UNCHANGED <<second, folders>>
    BY <1>5 DEF WriterDies
  <2>2. FoldersAreIds' /\ IndexInOrder'
    BY <1>1, <1>2, <2>1 DEF FoldersAreIds, IndexInOrder
  <2>. QED
    BY <1>3, <2>2 DEF IncidentInv
<1>6. ASSUME NEW slug \in Sources, WriteFolder(slug) PROVE IncidentInv'
  <2>. DEFINE id == FolderFor(slug)
  <2>1. /\ Cardinality(folders) < MaxIncidents
        /\ writing' = id /\ folders' = folders \cup {id} /\ second' = second
    BY <1>6 DEF WriteFolder
  <2>2. id \in Ids /\ id.second = second /\ id \notin folders
    BY <1>1, <2>1, FolderIsFree
  <2>. HIDE DEF id
  <2>3. IsFiniteSet(folders')
    BY <1>1, <2>1, FS_AddElement DEF FoldersAreIds
  <2>4. FoldersAreIds'
    BY <1>1, <1>2, <2>1, <2>2, <2>3 DEF FoldersAreIds
  <2>5. \A i \in 1 .. Len(index) : index[i] # id /\ index[i].second <= id.second
    BY <1>1, <2>2, IncidentsAssumption DEF FoldersAreIds
  <2>6. IndexInOrder'
    BY <1>1, <1>2, <2>1, <2>5 DEF IndexInOrder
  <2>. QED
    BY <1>3, <2>4, <2>6 DEF IncidentInv
<1>. QED
  BY <1>4, <1>5, <1>6

\* The incident that is indexed is after the cursor, or in its second and before it.
LEMMA IndexKeepsIncidents ==
  ASSUME IncidentInv, AppendIndex
  PROVE  IncidentInv'
<1>1. FoldersAreIds /\ IndexInOrder /\ CursorWasHandled /\ ShownIsFirst /\ AllDealtWith
  BY DEF IncidentInv
<1>. DEFINE n == Len(index) + 1
<1>2. /\ writing # NoId /\ index' = Append(index, writing) /\ writing' = NoId
      /\ UNCHANGED <<second, folders, cursor, shown, handled>>
  BY DEF AppendIndex
<1>3. writing \in folders /\ writing \in Ids /\ index \in Seq(Ids) /\ Len(index) \in Nat
  BY <1>1, <1>2, SeqHas DEF FoldersAreIds
<1>4. PICK w \in Ids : w = writing
  BY <1>3
<1>5. /\ index' \in Seq(Ids) /\ Len(index') = n /\ index'[n] = w
      /\ \A i \in 1 .. Len(index) : index'[i] = index[i]
  BY <1>2, <1>3, <1>4, AppendHas
<1>6. \A i \in 1 .. n : i = n \/ i \in 1 .. Len(index)
  BY <1>3
<1>7. \A i \in 1 .. Len(index) : index[i] # w /\ index[i].second <= w.second /\ index[i] \in Ids
  BY <1>1, <1>2, <1>4, SeqHas DEF IndexInOrder, FoldersAreIds
<1>8. 1 .. Len(index) \subseteq 1 .. n /\ n \in 1 .. n /\ n \in Nat
  BY <1>3
<1>9. FoldersAreIds'
  <2>1. \A i \in 1 .. n : index'[i] \in folders
    BY <1>1, <1>3, <1>4, <1>5, <1>6 DEF FoldersAreIds
  <2>. QED
    BY <1>1, <1>2, <1>5, <2>1 DEF FoldersAreIds
<1>10. IndexInOrder'
  <2>1. ASSUME NEW i \in 1 .. n, NEW j \in 1 .. n, i < j
        PROVE  index'[i].second <= index'[j].second /\ index'[i] # index'[j]
    <3>1. i \in 1 .. Len(index)
      BY <1>3, <2>1
    <3>2. CASE j = n
      BY <1>5, <1>7, <3>1, <3>2
    <3>3. CASE j \in 1 .. Len(index)
      BY <1>1, <1>5, <2>1, <3>1, <3>3 DEF IndexInOrder
    <3>. QED
      BY <1>6, <3>2, <3>3
  <2>2. \A i, j \in 1 .. n : i # j => i < j \/ j < i
    BY <1>3
  <2>. QED
    BY <1>2, <1>5, <2>1, <2>2 DEF IndexInOrder
<1>11. CursorWasHandled'
  BY <1>1, <1>2, <1>5, <1>8 DEF CursorWasHandled
<1>12. \A i \in 1 .. Len(index) : i \in Pending' <=> i \in Pending
  BY <1>2, <1>5, <1>8 DEF Pending
<1>13. ShownIsFirst'
  <2>1. \A i \in Pending' : i = n \/ i \in Pending
    BY <1>5, <1>6, <1>12 DEF Pending
  <2>2. shown \subseteq 1 .. Len(index) /\ shown \subseteq Pending'
    BY <1>1, <1>12 DEF ShownIsFirst, Pending
  <2>3. \A i \in shown : ~(n <= i)
    BY <1>3, <2>2
  <2>. QED
    BY <1>1, <1>2, <2>1, <2>2, <2>3 DEF ShownIsFirst
<1>14. \/ Before(cursor, w)
       \/ \E m \in 1 .. Len(index) :
            index[m] \in handled /\ index[m].second = w.second /\ Before(w, index[m])
  <2>1. w.second \in Nat \ {0}
    BY <1>1, <1>3, <1>4 DEF FoldersAreIds
  <2>2. CASE cursor = NoId
    BY <2>1, <2>2, IdFacts DEF Before
  <2>3. CASE cursor \in handled
    <3>1. PICK i \in 1 .. Len(index) : cursor = index[i]
      BY <1>1, <2>3 DEF CursorWasHandled
    <3>2. cursor \in Ids /\ cursor # w /\ cursor.second <= w.second /\ cursor.second \in Nat
      BY <1>7, <3>1, IdFacts
    <3>3. CASE cursor.second < w.second
      BY <3>3 DEF Before
    <3>4. CASE cursor.second = w.second
      <4>1. Before(cursor, w) \/ Before(w, cursor)
        BY <3>2, IdFacts
      <4>. QED
        BY <2>3, <3>1, <3>4, <4>1
    <3>. QED
      BY <2>1, <3>2, <3>3, <3>4
  <2>. QED
    BY <1>1, <2>2, <2>3 DEF CursorWasHandled
<1>15. AllDealtWith'
  <2>1. \A i \in 1 .. Len(index) : \A m \in 1 .. i - 1 : m \in 1 .. Len(index)
    BY <1>3
  <2>2. ASSUME NEW i \in 1 .. Len(index) PROVE DealtWith(i)'
    <3>1. DealtWith(i) /\ index'[i] = index[i]
      BY <1>1, <1>5 DEF AllDealtWith
    <3>2. \A m \in 1 .. i - 1 : index'[m] = index[m]
      BY <1>5, <2>1
    <3>. QED
      BY <1>2, <3>1, <3>2 DEF DealtWith, Overtaken
  <2>3. PICK k : k = n
    OBVIOUS
  <2>4. DealtWith(k)'
    <3>1. \A m \in 1 .. Len(index) : m \in 1 .. k - 1 /\ index'[m] = index[m]
      BY <1>3, <1>5, <2>3
    <3>2. index'[k] = w
      BY <1>5, <2>3
    <3>3. CASE Before(cursor, w)
      BY <1>2, <3>2, <3>3 DEF DealtWith
    <3>4. ASSUME NEW m \in 1 .. Len(index),
                 index[m] \in handled, index[m].second = w.second, Before(w, index[m])
          PROVE  DealtWith(k)'
      BY <1>2, <3>1, <3>2, <3>4 DEF DealtWith, Overtaken
    <3>. QED
      BY <1>14, <3>3, <3>4
  <2>5. Len(index') = k /\ \A i \in 1 .. k : i = k \/ i \in 1 .. Len(index)
    BY <1>5, <1>6, <2>3
  <2>. HIDE DEF n
  <2>6. \A i \in 1 .. k : DealtWith(i)'
    BY <2>2, <2>4, <2>5
  <2>. QED
    BY <2>5, <2>6 DEF AllDealtWith
<1>. QED
  BY <1>9, <1>10, <1>11, <1>13, <1>15 DEF IncidentInv

\* What is behind the new cursor was shown, or sorts before it in its second.
LEMMA SessionKeepsIncidents ==
  ASSUME IncidentInv, Probe \/ AdvanceCursor
  PROVE  IncidentInv'
<1>1. FoldersAreIds /\ IndexInOrder /\ CursorWasHandled /\ ShownIsFirst /\ AllDealtWith
  BY DEF IncidentInv
<1>2. UNCHANGED <<second, folders, writing, index>>
  BY DEF Probe, AdvanceCursor
<1>3. FoldersAreIds' /\ IndexInOrder'
  BY <1>1, <1>2 DEF FoldersAreIds, IndexInOrder
<1>4. /\ index \in Seq(Ids) /\ Len(index) \in Nat /\ \A i \in 1 .. Len(index) : index[i] \in Ids
  BY <1>1, SeqHas DEF FoldersAreIds
<1>5. CASE Probe
  <2>1. UNCHANGED <<cursor, handled>>
    BY <1>5 DEF Probe
  <2>2. CursorWasHandled' /\ AllDealtWith'
    BY <1>1, <1>2, <2>1 DEF CursorWasHandled, AllDealtWith, DealtWith, Overtaken
  <2>3. PICK last \in Pending : shown' = {i \in Pending : i <= last}
    BY <1>5 DEF Probe
  <2>4. Pending' = Pending /\ Pending \subseteq Nat
    BY <1>2, <1>4, <2>1 DEF Pending
  <2>5. ShownIsFirst'
    BY <2>3, <2>4 DEF ShownIsFirst
  <2>. QED
    BY <1>3, <2>2, <2>5 DEF IncidentInv
<1>6. CASE AdvanceCursor
  <2>1. /\ shown # {} /\ shown' = {}
        /\ handled' = handled \cup {index[i] : i \in shown} /\ cursor' = index[LastShown]
    BY <1>6 DEF AdvanceCursor
  <2>2. shown \subseteq Pending /\ shown \subseteq 1 .. Len(index)
    BY <1>1 DEF ShownIsFirst, Pending
  <2>3. LastShown \in shown /\ \A j \in shown : j <= LastShown
    <3>1. \E i \in shown : \A j \in shown : j <= i
      <4>. DEFINE T == {Len(index) - i : i \in shown}
      <4>1. T \in SUBSET Nat /\ T # {}
        <5>1. \A i \in shown : Len(index) - i \in Nat
          BY <1>4, <2>2
        <5>. QED
          BY <2>1, <5>1
      <4>2. PICK m \in T : \A k \in T : m <= k
        BY <4>1, LeastOf
      <4>3. PICK i \in shown : m = Len(index) - i
        BY <4>2
      <4>4. \A j \in shown : Len(index) - i <= Len(index) - j
        BY <4>2, <4>3
      <4>5. \A j \in shown : j <= i
        BY <1>4, <2>2, <4>4
      <4>. QED
        BY <4>5
    <3>. QED
      BY <3>1 DEF LastShown
  <2>4. PICK m \in 1 .. Len(index) : m = LastShown
    BY <2>2, <2>3
  <2>5. PICK c \in Ids : c = index[m]
    BY <1>4, <2>4
  <2>6. cursor' = c /\ c \in handled' /\ m \in shown
    BY <2>1, <2>3, <2>4, <2>5
  <2>7. CursorWasHandled'
    BY <1>1, <1>2, <2>1, <2>2, <2>6 DEF CursorWasHandled
  <2>8. ShownIsFirst'
    BY <2>1 DEF ShownIsFirst
  <2>9. ASSUME NEW i \in 1 .. Len(index) PROVE DealtWith(i)'
    <3>1. CASE index[i] \in handled \/ Overtaken(i)
      BY <1>2, <2>1, <3>1 DEF DealtWith, Overtaken
    <3>2. CASE Before(cursor, index[i])
      <4>1. i \in Pending
        BY <3>2 DEF Pending
      <4>2. CASE i <= m
        <5>1. index[i] \in handled'
          BY <1>1, <2>1, <2>6, <4>1, <4>2 DEF ShownIsFirst
        <5>. QED
          BY <1>2, <5>1 DEF DealtWith
      <4>3. CASE m < i
        <5>1. c # index[i] /\ c.second <= index[i].second /\ m \in 1 .. i - 1
          BY <1>1, <2>5, <4>3 DEF IndexInOrder
        <5>2. c.second \in Nat /\ index[i].second \in Nat /\ index[i] \in Ids
          BY <1>4, IdFacts
        <5>3. CASE c.second < index[i].second
          <6>1. Before(c, index[i])
            BY <5>3 DEF Before
          <6>. QED
            BY <1>2, <2>6, <6>1 DEF DealtWith
        <5>4. CASE c.second = index[i].second
          <6>1. Before(c, index[i]) \/ Before(index[i], c)
            BY <5>1, <5>2, IdFacts
          <6>2. c \in handled' /\ c = index[m]
            BY <2>5, <2>6
          <6>. QED
            BY <1>2, <2>6, <5>1, <5>4, <6>1, <6>2 DEF DealtWith, Overtaken
        <5>. QED
          BY <5>1, <5>2, <5>3, <5>4
      <4>. QED
        BY <4>2, <4>3
    <3>. QED
      BY <1>1, <3>1, <3>2 DEF AllDealtWith, DealtWith
  <2>10. AllDealtWith'
    BY <1>2, <2>9 DEF AllDealtWith
  <2>. QED
    BY <1>3, <2>7, <2>8, <2>10 DEF IncidentInv
<1>. QED
  BY <1>5, <1>6

LEMMA IncidentsKeep ==
  ASSUME IncidentInv, [IncidentsNext]_incidentVars
  PROVE  IncidentInv'
<1>1. CASE SecondPasses \/ WriterDies \/ \E slug \in Sources : WriteFolder(slug)
  BY <1>1, FolderKeepsIncidents
<1>2. CASE AppendIndex
  BY <1>2, IndexKeepsIncidents
<1>3. CASE Probe \/ AdvanceCursor
  BY <1>3, SessionKeepsIncidents
<1>4. CASE UNCHANGED incidentVars
  BY <1>4 DEF incidentVars, IncidentInv, FoldersAreIds, IndexInOrder, CursorWasHandled,
              ShownIsFirst, Pending, AllDealtWith, DealtWith, Overtaken
<1>. QED
  BY <1>1, <1>2, <1>3, <1>4 DEF IncidentsNext

LEMMA NoneIsSkipped == IncidentInv => NoneSkipped
  BY DEF IncidentInv, IndexInOrder, AllDealtWith, DealtWith, Overtaken, NoneSkipped

\* What a cursor has passed was dealt with.  The monitor's, for actions that are written
\* in the order they are drawn, through kills on both sides of the write of the cursor
\* and reads and writes of it that fail; an action is carried out again at most once for
\* each of these (monitor.py, _drain_session_action_queue).  The session's, for incidents
\* of any number that are shown any number at a time, but for one that sorts before an
\* incident of its own second that was indexed first (cli/commands/probe.py).
THEOREM CursorsPassOverNothing == ComponentsSpec => []NonePassedOver
<1>. DEFINE Inv == QueueInv /\ IncidentInv
<1>1. ComponentsInit => Inv
  BY QueueInitially, IncidentInitially DEF ComponentsInit
<1>2. Inv /\ [ComponentsNext]_allVars => Inv'
  BY Projections, QueueKeeps, IncidentsKeep
<1>3. Inv => NonePassedOver
  BY CursorsAreSound, NoneIsSkipped DEF NonePassedOver
<1>. QED
  BY <1>1, <1>2, <1>3, PTL DEF ComponentsSpec

-----------------------------------------------------------------------------
(* The detectors that read lines and clocks *)

Heard  == [text : TraceTexts \cup StepTexts, at : 0 .. MaxClock]
Alarms == [at : Int, upTo : Nat, lines : Seq(Nat), launched : Int, anew : BOOLEAN]
Traces == [lang : {"none", "python", "javascript"}, lines : Seq(Nat), quiet : {0, 1}]

DetectorTypes ==
  /\ detectorKind \in {"traceback", "progress", "output"} /\ clock \in 0 .. MaxClock
  /\ observed \in Seq(Heard) /\ alarms \in Seq(Alarms) /\ trace \in Traces
  /\ firedAt \in Int /\ progressAt \in Int /\ lineAt \in Int /\ launchedAt \in Int
  /\ prev \in 0 .. Len(observed) /\ value \in StepTexts \cup {"none"}
  /\ ticking \in BOOLEAN /\ up \in BOOLEAN
  /\ starts \in Nat /\ knownStart \in Nat /\ knownStart <= starts /\ launchedAt <= clock
  /\ \A i \in 1 .. Len(observed) : observed[i].at <= clock

\* What was reported is there, in lines that were read; and a report is one cooldown
\* after the others, the last of which is not before the time that is remembered.
IsThere(ls) == Len(ls) > 0 /\ \A i \in 1 .. Len(ls) : ls[i] \in 1 .. Len(observed)
Reported(a) ==
  /\ a.upTo <= Len(observed)
  /\ IF detectorKind = "traceback" THEN IsThere(a.lines) /\ IsTrace(a.lines) ELSE IsStall(a)

AlarmsApart ==
  /\ \A i \in 1 .. Len(alarms) : alarms[i].at <= firedAt /\ Reported(alarms[i])
  /\ \A i, j \in 1 .. Len(alarms) : i < j => alarms[j].at - alarms[i].at >= Cooldown

\* A trace that is open ends in the line that was read last; its language has an
\* error at its head, and how its last line was read is what `quiet` counts.  An
\* error line that may open one is the line that was read last, although _prev_line
\* is not kept while a trace is open.
Text(ls, i) == observed[ls[i]].text
PythonOpen(ls, quiet) ==
  /\ Text(ls, 1) = "head"
  /\ \A i \in 2 .. Len(ls) : Text(ls, i) # "exception"
  /\ \A i \in 2 .. Len(ls) - 1 : Text(ls, i) = "frame" \/ Text(ls, i + 1) = "frame"
  /\ quiet = 0 => Len(ls) = 1 \/ Text(ls, Len(ls)) = "frame"
NodeOpen(ls, quiet) ==
  /\ Len(ls) > 1 /\ Text(ls, 1) = "exception" /\ Text(ls, 2) = "nodeFrame"
  /\ \A i \in 2 .. Len(ls) - 1 : Text(ls, i) = "nodeFrame" \/ Text(ls, i + 1) = "nodeFrame"
  /\ quiet = 0 => Text(ls, Len(ls)) = "nodeFrame"
OpenTrace(ls) ==
  /\ Len(ls) \in 1 .. MaxTraceLines /\ IsThere(ls) /\ ls[Len(ls)] = Len(observed)
  /\ \A i \in 1 .. Len(ls) - 1 : ls[i + 1] = ls[i] + 1
  /\ \A i \in 1 .. Len(ls) : Text(ls, i) # "blank"
TraceInv ==
  /\ trace # NoTrace =>
       /\ OpenTrace(trace.lines)
       /\ \/ trace.lang = "python" /\ PythonOpen(trace.lines, trace.quiet)
          \/ trace.lang = "javascript" /\ NodeOpen(trace.lines, trace.quiet)
  /\ prev # 0 /\ observed[prev].text = "exception" => trace = NoTrace /\ prev = Len(observed)

\* The marks of the stall detector are not before the start of a restarted child that
\* it knows of, nor before the lines they are about.
BegunAnew == starts > 1 /\ knownStart = starts
SameSince(j, i) ==
  /\ observed[j].text = observed[i].text
  /\ \A k \in j .. i : observed[k].text \in {"other", observed[i].text}
StallInv ==
  /\ BegunAnew => launchedAt <= progressAt /\ launchedAt <= lineAt
  /\ \A i \in 1 .. Len(observed) : observed[i].at <= lineAt
  /\ detectorKind = "progress" /\ value # "none" =>
       \E j \in 1 .. Len(observed) :
         /\ observed[j].text = value
         /\ \A k \in j .. Len(observed) : observed[k].text \in {"other", value}
  /\ detectorKind = "progress" =>
       \A i \in 1 .. Len(observed) :
         observed[i].at > progressAt /\ observed[i].text # "other" =>
           \E j \in 1 .. i - 1 : SameSince(j, i)

DetectorInv ==
  /\ DetectorTypes /\ AlarmsApart
  /\ detectorKind = "traceback" => TraceInv
  /\ detectorKind # "traceback" => StallInv

LEMMA DetectorFacts ==
  ASSUME DetectorTypes
  PROVE  /\ Len(observed) \in Nat /\ Len(alarms) \in Nat /\ clock \in Nat
         /\ \A i \in 1 .. Len(observed) :
              /\ observed[i] \in Heard /\ observed[i].at \in Nat
              /\ observed[i].text \in TraceTexts \cup StepTexts
         /\ \A i \in 1 .. Len(alarms) : alarms[i] \in Alarms /\ alarms[i].at \in Int
         /\ trace.lines \in Seq(Nat) /\ Len(trace.lines) \in Nat /\ trace.quiet \in {0, 1}
         /\ MaxTraceLines \in Nat /\ MaxTraceLines >= 2 /\ Cooldown \in Nat /\ NoProgress \in Nat \ {0}
<1>1. \A h \in Heard : h.at \in Nat /\ h.text \in TraceTexts \cup StepTexts
  BY DEF Heard
<1>2. \A a \in Alarms : a.at \in Int
  BY DEF Alarms
<1>3. trace.lines \in Seq(Nat) /\ trace.quiet \in {0, 1}
  BY DEF DetectorTypes, Traces
<1>4. MaxTraceLines \in Nat /\ MaxTraceLines >= 2 /\ Cooldown \in Nat /\ NoProgress \in Nat \ {0}
  BY LineDetectorsAssumption
<1>5. observed \in Seq(Heard) /\ alarms \in Seq(Alarms) /\ clock \in Nat
  BY LineDetectorsAssumption DEF DetectorTypes
<1>6. Len(observed) \in Nat /\ \A i \in 1 .. Len(observed) : observed[i] \in Heard
  BY <1>5, SeqHas
<1>7. Len(alarms) \in Nat /\ \A i \in 1 .. Len(alarms) : alarms[i] \in Alarms
  BY <1>5, SeqHas
<1>8. Len(trace.lines) \in Nat
  BY <1>3, SeqHas
<1>. QED
  BY <1>1, <1>2, <1>3, <1>4, <1>5, <1>6, <1>7, <1>8

\* A line that is read leaves the lines before it.
LEMMA LinesStay ==
  ASSUME DetectorTypes, NEW t \in TraceTexts \cup StepTexts, Hear(t)
  PROVE  /\ observed' \in Seq(Heard) /\ Len(observed') = Len(observed) + 1
         /\ observed'[Coming].text = t /\ observed'[Coming].at = clock
         /\ \A i \in 1 .. Len(observed) : observed'[i] = observed[i]
         /\ Coming = Len(observed) + 1 /\ Coming \in 1 .. Len(observed')
<1>1. [text |-> t, at |-> clock] \in Heard
  BY DEF DetectorTypes, Heard
<1>2. observed \in Seq(Heard) /\ Len(observed) \in Nat
  BY DetectorFacts DEF DetectorTypes
<1>. QED
  BY <1>1, <1>2, AppendHas DEF Hear, Coming

\* What was reported stays true of a log that grows.
LEMMA ReportsStay ==
  ASSUME DetectorTypes, NEW a \in Alarms, Reported(a), detectorKind' = detectorKind,
         observed' = observed \/ \E t \in TraceTexts \cup StepTexts : Hear(t)
  PROVE  Reported(a)'
<1>1. CASE observed' = observed
  BY <1>1 DEF Reported, IsThere, IsTrace, IsStall
<1>2. CASE \E t \in TraceTexts \cup StepTexts : Hear(t)
  <2>1. /\ Len(observed') = Len(observed) + 1 /\ Len(observed) \in Nat
        /\ \A i \in 1 .. Len(observed) : observed'[i] = observed[i]
    BY <1>2, LinesStay, DetectorFacts
  <2>2. a.upTo \in Nat /\ a.lines \in Seq(Nat) /\ Len(a.lines) \in Nat
    BY SeqHas DEF Alarms
  <2>3. CASE detectorKind = "traceback"
    <3>1. IsThere(a.lines) /\ IsTrace(a.lines)
      BY <2>3 DEF Reported
    <3>2. \A i \in 1 .. Len(a.lines) : observed'[a.lines[i]] = observed[a.lines[i]]
      BY <2>1, <3>1 DEF IsThere
    <3>3. IsThere(a.lines)'
      BY <2>1, <3>1 DEF IsThere
    <3>4. IsTrace(a.lines)'
      <4>1. /\ 1 \in 1 .. Len(a.lines) /\ (Len(a.lines) > 1 => 2 \in 1 .. Len(a.lines))
            /\ \A i \in 2 .. Len(a.lines) - 1 : i \in 1 .. Len(a.lines) /\ i + 1 \in 1 .. Len(a.lines)
        BY <2>2, <3>1 DEF IsThere
      <4>. QED
        BY <2>2, <3>1, <3>2, <4>1 DEF IsTrace
    <3>. QED
      BY <2>1, <2>2, <2>3, <3>3, <3>4 DEF Reported
  <2>4. CASE detectorKind # "traceback"
    <3>1. IsStall(a) /\ a.upTo <= Len(observed)
      BY <2>4 DEF Reported
    <3>2. \A i \in 1 .. a.upTo : observed'[i] = observed[i]
      BY <2>1, <2>2, <3>1
    <3>3. IsStall(a)'
      <4>1. ASSUME NEW i \in 1 .. a.upTo, a.at - observed'[i].at < NoProgress
            PROVE  /\ detectorKind' = "progress"
                   /\ observed'[i].text # "other" =>
                        \E j \in 1 .. i - 1 : observed'[j].text = observed'[i].text
                          /\ \A k \in j .. i : observed'[k].text \in {"other", observed'[i].text}
        <5>1. detectorKind = "progress" /\ observed'[i] = observed[i]
          BY <3>1, <3>2, <4>1 DEF IsStall
        <5>2. ASSUME observed'[i].text # "other"
              PROVE  \E j \in 1 .. i - 1 : observed'[j].text = observed'[i].text
                       /\ \A k \in j .. i : observed'[k].text \in {"other", observed'[i].text}
          <6>1. PICK j \in 1 .. i - 1 : observed[j].text = observed[i].text
                  /\ \A k \in j .. i : observed[k].text \in {"other", observed[i].text}
            BY <3>1, <4>1, <5>1, <5>2 DEF IsStall
          <6>2. j \in 1 .. a.upTo /\ \A k \in j .. i : k \in 1 .. a.upTo
            BY <2>2
          <6>. QED
            BY <3>2, <5>1, <6>1, <6>2
        <5>. QED
          BY <5>1, <5>2
      <4>. QED
        BY <3>1, <4>1 DEF IsStall
    <3>. QED
      BY <2>1, <2>2, <2>4, <3>1, <3>3 DEF Reported
  <2>. QED
    BY <2>3, <2>4
<1>. QED
  BY <1>1, <1>2

LEMMA DetectorInitially == LineDetectorsInit => DetectorInv
<1>. SUFFICES ASSUME LineDetectorsInit PROVE DetectorInv
  OBVIOUS
<1>1. /\ Len(observed) = 0 /\ Len(alarms) = 0 /\ trace = NoTrace /\ prev = 0
      /\ clock = 0 /\ value = "none" /\ launchedAt = 0 /\ progressAt = 0 /\ lineAt = 0
      /\ starts = 0 /\ knownStart = 0
  BY DEF LineDetectorsInit
<1>2. observed \in Seq(Heard) /\ alarms \in Seq(Alarms)
  BY DEF LineDetectorsInit
<1>3. trace \in Traces
  BY <1>1 DEF NoTrace, Traces
<1>4. DetectorTypes
  <2>1. ticking \in BOOLEAN /\ up \in BOOLEAN
    BY DEF LineDetectorsInit
  <2>2. \A i \in 1 .. Len(observed) : observed[i].at <= clock
    BY <1>1
  <2>. QED
    BY <1>1, <1>2, <1>3, <2>1, <2>2, LineDetectorsAssumption DEF LineDetectorsInit, DetectorTypes
<1>5. AlarmsApart /\ TraceInv /\ StallInv
  BY <1>1 DEF AlarmsApart, TraceInv, StallInv, BegunAnew
<1>. QED
  BY <1>4, <1>5 DEF DetectorInv

\* A report that is not inside the cooldown of the last is one cooldown after all.
LEMMA RaiseKeeps ==
  ASSUME DetectorTypes, AlarmsApart, NEW ls \in Seq(Nat), Raise(ls), ~OnCooldown,
         detectorKind' = detectorKind,
         observed' = observed \/ \E t \in TraceTexts \cup StepTexts : Hear(t),
         NEW b \in Alarms, Reported(b)',
         b = [at |-> clock, upTo |-> Len(observed), lines |-> ls, launched |-> launchedAt,
              anew |-> starts > 1 /\ knownStart = starts]
  PROVE  AlarmsApart' /\ alarms' \in Seq(Alarms) /\ firedAt' \in Int
<1>1. Len(observed) \in Nat /\ Len(alarms) \in Nat /\ clock \in Nat /\ Cooldown \in Nat
  BY DetectorFacts
<1>3. alarms' = Append(alarms, b) /\ firedAt' = clock /\ b.at = clock
  BY DEF Raise
<1>4. alarms \in Seq(Alarms) /\ firedAt \in Int
  BY DEF DetectorTypes
<1>5. /\ alarms' \in Seq(Alarms) /\ Len(alarms') = Len(alarms) + 1
      /\ alarms'[Len(alarms) + 1] = b
      /\ \A i \in 1 .. Len(alarms) : alarms'[i] = alarms[i] /\ alarms[i] \in Alarms
  BY <1>3, <1>4, AppendHas, SeqHas
<1>7. clock - firedAt >= Cooldown
  BY <1>1, <1>4 DEF OnCooldown
<1>8. \A i \in 1 .. Len(alarms) : alarms[i].at \in Int /\ alarms[i].at <= firedAt
  BY <1>5, DetectorFacts DEF AlarmsApart
<1>9. \A i \in 1 .. Len(alarms') : alarms'[i].at <= firedAt' /\ Reported(alarms[i])'
  <2>1. ASSUME NEW i \in 1 .. Len(alarms)
        PROVE  alarms'[i].at <= firedAt' /\ Reported(alarms[i])'
    <3>1. PICK c \in Alarms : c = alarms[i]
      BY <1>5, <2>1
    <3>2. Reported(c)
      BY <2>1, <3>1 DEF AlarmsApart
    <3>3. Reported(c)'
      BY <3>2, ReportsStay
    <3>4. alarms'[i] = c
      BY <1>5, <2>1, <3>1
    <3>5. Reported(alarms[i])'
      BY <3>3, <3>4 DEF Reported, IsThere, IsTrace, IsStall
    <3>. QED
      BY <1>1, <1>3, <1>4, <1>5, <1>7, <1>8, <2>1, <3>5
  <2>2. ASSUME NEW i \in {Len(alarms')}
        PROVE  Reported(alarms[i])'
    <3>1. alarms'[i] = b
      BY <1>5, <2>2
    <3>. QED
      BY <3>1 DEF Reported, IsThere, IsTrace, IsStall
  <2>. QED
    BY <1>1, <1>3, <1>5, <2>1, <2>2
<1>10. ASSUME NEW i \in 1 .. Len(alarms'), NEW j \in 1 .. Len(alarms'), i < j
       PROVE  alarms'[j].at - alarms'[i].at >= Cooldown
  <2>1. i \in 1 .. Len(alarms) /\ (j \in 1 .. Len(alarms) \/ j = Len(alarms) + 1)
    <3>1. i \in 1 .. Len(alarms) + 1 /\ j \in 1 .. Len(alarms) + 1 /\ i < j
      BY <1>5, <1>10
    <3>2. i \in Int /\ j \in Int /\ 1 <= i /\ i < j /\ j <= Len(alarms) + 1
      BY <1>1, <3>1
    <3>. QED
      BY <1>1, <3>2
  <2>2. CASE j \in 1 .. Len(alarms)
    <3>1. alarms'[i] = alarms[i] /\ alarms'[j] = alarms[j]
      BY <1>5, <2>1, <2>2
    <3>. QED
      BY <1>10, <2>1, <2>2, <3>1 DEF AlarmsApart
  <2>3. CASE j = Len(alarms) + 1
    <3>1. alarms'[i] = alarms[i] /\ alarms'[j].at = clock
      BY <1>3, <1>5, <2>1, <2>3
    <3>2. alarms[i].at \in Int /\ alarms[i].at <= firedAt
      BY <1>8, <2>1
    <3>. QED
      BY <1>1, <1>4, <1>7, <3>1, <3>2
  <2>. QED
    BY <2>1, <2>2, <2>3
<1>. QED
  BY <1>1, <1>3, <1>5, <1>9, <1>10 DEF AlarmsApart

\* Without a report, what was reported stays.
LEMMA NoReportKeeps ==
  ASSUME DetectorTypes, AlarmsApart, UNCHANGED <<alarms, firedAt, detectorKind>>,
         observed' = observed \/ \E t \in TraceTexts \cup StepTexts : Hear(t)
  PROVE  AlarmsApart' /\ alarms' \in Seq(Alarms) /\ firedAt' \in Int
<1>1. alarms \in Seq(Alarms) /\ firedAt \in Int /\ Len(alarms) \in Nat
  BY DetectorFacts DEF DetectorTypes
<1>2. \A i \in 1 .. Len(alarms) : Reported(alarms[i])'
  <2>1. ASSUME NEW i \in 1 .. Len(alarms)
        PROVE  Reported(alarms[i])'
    <3>1. PICK c \in Alarms : c = alarms[i]
      BY <2>1, DetectorFacts
    <3>2. Reported(c)
      BY <2>1, <3>1 DEF AlarmsApart
    <3>3. Reported(c)'
      BY <3>2, ReportsStay
    <3>4. alarms'[i] = c
      BY <3>1
    <3>. QED
      BY <3>3, <3>4 DEF Reported, IsThere, IsTrace, IsStall
  <2>. QED
    BY <2>1
<1>. QED
  BY <1>1, <1>2 DEF AlarmsApart

\* A trace that is open is one that may be reported.
LEMMA OpenIsTrace ==
  ASSUME DetectorTypes, NEW ls \in Seq(Nat), OpenTrace(ls),
         PythonOpen(ls, trace.quiet) \/ NodeOpen(ls, trace.quiet)
  PROVE  IsThere(ls) /\ IsTrace(ls)
<1>1. Len(ls) \in Nat /\ Len(ls) <= MaxTraceLines
  BY SeqHas DEF OpenTrace
<1>2. CASE PythonOpen(ls, trace.quiet)
  <2>1. \A i \in 2 .. Len(ls) - 1 :
          /\ i \in 2 .. Len(ls)
          /\ observed[ls[i]].text # "exception"
          /\ observed[ls[i]].text = "frame" \/ observed[ls[i + 1]].text = "frame"
    BY <1>1, <1>2 DEF PythonOpen, Text
  <2>2. observed[ls[1]].text = "head"
    BY <1>2 DEF PythonOpen, Text
  <2>3. \A i \in 1 .. Len(ls) : observed[ls[i]].text # "blank"
    BY DEF OpenTrace, Text
  <2>. QED
    BY <1>1, <2>1, <2>2, <2>3 DEF OpenTrace, IsTrace
<1>3. CASE NodeOpen(ls, trace.quiet)
  BY <1>1, <1>3 DEF OpenTrace, NodeOpen, IsTrace, Text
<1>. QED
  BY <1>2, <1>3 DEF OpenTrace

\* A trace that is open and has room takes the next line.
LEMMA TraceGrows ==
  ASSUME DetectorTypes, NEW t \in TraceTexts \cup StepTexts, Hear(t), t # "blank",
         NEW ls \in Seq(Nat), OpenTrace(ls), Len(ls) < MaxTraceLines,
         NEW m, m = Append(ls, Coming)
  PROVE  /\ m \in Seq(Nat) /\ Len(m) = Len(ls) + 1 /\ Len(ls) \in Nat /\ Len(ls) >= 1
         /\ OpenTrace(m)'
         /\ \A i \in 1 .. Len(ls) : m[i] = ls[i] /\ Text(m, i)' = Text(ls, i)
         /\ Text(m, Len(ls) + 1)' = t
<1>1. /\ Len(observed) \in Nat /\ Coming = Len(observed) + 1 /\ Len(observed') = Len(observed) + 1
      /\ observed'[Coming].text = t
      /\ \A i \in 1 .. Len(observed) : observed'[i] = observed[i]
  BY LinesStay, DetectorFacts
<1>2. /\ m \in Seq(Nat) /\ Len(m) = Len(ls) + 1 /\ Len(ls) \in Nat
      /\ m[Len(ls) + 1] = Coming
      /\ \A i \in 1 .. Len(ls) : m[i] = ls[i]
  BY <1>1, AppendHas, SeqHas
<1>3. /\ Len(ls) >= 1 /\ Len(ls) \in 1 .. Len(ls) /\ ls[Len(ls)] = Len(observed)
      /\ \A i \in 1 .. Len(ls) : ls[i] \in 1 .. Len(observed)
      /\ \A i \in 1 .. Len(ls) - 1 : ls[i + 1] = ls[i] + 1
      /\ \A i \in 1 .. Len(ls) : observed[ls[i]].text # "blank"
  BY <1>2 DEF OpenTrace, IsThere, Text
<1>4. /\ \A i \in 1 .. Len(ls) : Text(m, i)' = Text(ls, i)
      /\ Text(m, Len(ls) + 1)' = t
  BY <1>1, <1>2, <1>3 DEF Text
<1>5. \A i \in 1 .. Len(m) : m[i] \in 1 .. Len(observed')
  BY <1>1, <1>2, <1>3
<1>6. \A i \in 1 .. Len(m) - 1 : m[i + 1] = m[i] + 1
  <2>1. ASSUME NEW i \in 1 .. Len(m) - 1
        PROVE  m[i + 1] = m[i] + 1
    <3>1. CASE i = Len(ls)
      BY <1>1, <1>2, <1>3, <3>1
    <3>2. CASE i # Len(ls)
      <4>1. i \in 1 .. Len(ls) - 1 /\ i \in 1 .. Len(ls) /\ i + 1 \in 1 .. Len(ls)
        BY <1>2, <3>2
      <4>. QED
        BY <1>2, <1>3, <4>1
    <3>. QED
      BY <3>1, <3>2
  <2>. QED
    BY <2>1
<1>7. \A i \in 1 .. Len(m) : Text(m, i)' # "blank"
  <2>1. ASSUME NEW i \in 1 .. Len(m)
        PROVE  Text(m, i)' # "blank"
    <3>1. CASE i = Len(ls) + 1
      BY <1>4, <3>1
    <3>2. CASE i \in 1 .. Len(ls)
      BY <1>3, <1>4, <3>2 DEF Text
    <3>. QED
      BY <1>2, <3>1, <3>2
  <2>. QED
    BY <2>1
<1>8. Len(m) \in 1 .. MaxTraceLines
  BY <1>2, <1>3, DetectorFacts
<1>9. m[Len(m)] = Len(observed')
  BY <1>1, <1>2
<1>10. OpenTrace(m)'
  BY <1>2, <1>5, <1>6, <1>7, <1>8, <1>9 DEF OpenTrace, IsThere
<1>. QED
  BY <1>2, <1>3, <1>4, <1>10

\* A line that is read while no trace is open opens one, or is remembered.
LEMMA MaybeOpenKeeps ==
  ASSUME DetectorInv, detectorKind = "traceback", NEW t \in TraceTexts, Hear(t),
         trace = NoTrace, MaybeOpen(t)
  PROVE  TraceInv' /\ trace' \in Traces /\ prev' \in 0 .. Len(observed')
<1>1. DetectorTypes /\ TraceInv
  BY DEF DetectorInv
<1>2. /\ Len(observed) \in Nat /\ Coming = Len(observed) + 1 /\ Len(observed') = Len(observed) + 1
      /\ observed'[Coming].text = t
      /\ \A i \in 1 .. Len(observed) : observed'[i] = observed[i]
      /\ prev \in 0 .. Len(observed) /\ MaxTraceLines \in Nat /\ MaxTraceLines >= 2
  BY <1>1, LinesStay, DetectorFacts DEF DetectorTypes
<1>3. prev' = Coming
  BY DEF MaybeOpen
<1>4. CASE t = "head"
  <2>1. PICK ls : ls = <<Coming>>
    OBVIOUS
  <2>2. trace' = [lang |-> "python", lines |-> ls, quiet |-> 0]
    BY <1>4, <2>1 DEF MaybeOpen
  <2>3. trace'.lines = ls /\ trace'.lang = "python" /\ trace'.quiet = 0
    BY <2>2
  <2>4. ls \in Seq(Nat) /\ Len(ls) = 1 /\ ls[1] = Coming
    BY <1>2, <2>1
  <2>5. trace' \in Traces
    BY <2>2, <2>4 DEF Traces
  <2>6. OpenTrace(ls)' /\ PythonOpen(ls, 0)'
    BY <1>2, <1>4, <2>4 DEF OpenTrace, PythonOpen, IsThere, Text
  <2>7. TraceInv'
    BY <1>2, <1>3, <1>4, <2>3, <2>6 DEF TraceInv
  <2>. QED
    BY <1>2, <1>3, <2>5, <2>7
<1>5. CASE t = "nodeFrame" /\ prev # 0 /\ observed[prev].text = "exception"
  <2>1. PICK ls : ls = <<prev, Coming>>
    OBVIOUS
  <2>2. trace' = [lang |-> "javascript", lines |-> ls, quiet |-> 0]
    BY <1>5, <2>1 DEF MaybeOpen
  <2>3. trace'.lines = ls /\ trace'.lang = "javascript" /\ trace'.quiet = 0
    BY <2>2
  <2>4. ls \in Seq(Nat) /\ Len(ls) = 2 /\ ls[1] = prev /\ ls[2] = Coming
    BY <1>2, <2>1
  <2>5. trace' \in Traces
    BY <2>2, <2>4 DEF Traces
  <2>6. prev = Len(observed) /\ prev \in 1 .. Len(observed)
    BY <1>1, <1>2, <1>5 DEF TraceInv
  <2>7. Text(ls, 1)' = "exception" /\ Text(ls, 2)' = "nodeFrame"
    BY <1>2, <1>5, <2>4, <2>6 DEF Text
  <2>8. OpenTrace(ls)'
    <3>1. IsThere(ls)'
      BY <1>2, <2>4, <2>6 DEF IsThere
    <3>2. \A i \in 1 .. Len(ls) : i = 1 \/ i = 2
      BY <2>4
    <3>3. \A i \in 1 .. Len(ls) : Text(ls, i)' # "blank"
      BY <2>7, <3>2
    <3>4. \A i \in 1 .. Len(ls) - 1 : ls[i + 1] = ls[i] + 1
      BY <1>2, <2>4, <2>6
    <3>. QED
      BY <1>2, <2>4, <3>1, <3>3, <3>4 DEF OpenTrace
  <2>9. NodeOpen(ls, 0)'
    BY <2>4, <2>7 DEF NodeOpen
  <2>10. TraceInv'
    BY <1>2, <1>3, <1>5, <2>3, <2>8, <2>9 DEF TraceInv
  <2>. QED
    BY <1>2, <1>3, <2>5, <2>10
<1>6. CASE ~(t = "head") /\ ~(t = "nodeFrame" /\ prev # 0 /\ observed[prev].text = "exception")
  <2>1. trace' = NoTrace
    BY <1>6 DEF MaybeOpen
  <2>2. trace' \in Traces
    BY <2>1 DEF Traces, NoTrace
  <2>. QED
    BY <1>2, <1>3, <2>1, <2>2 DEF TraceInv
<1>. QED
  BY <1>4, <1>5, <1>6

\* A trace that is closed is reported, or dropped inside the cooldown.
LEMMA CloseKeeps ==
  ASSUME DetectorTypes, AlarmsApart, detectorKind = "traceback", detectorKind' = detectorKind,
         NEW t \in TraceTexts \cup StepTexts, Hear(t), NEW ls \in Seq(Nat), CloseTrace(ls),
         IsThere(ls)', IsTrace(ls)'
  PROVE  trace' = NoTrace /\ AlarmsApart' /\ alarms' \in Seq(Alarms) /\ firedAt' \in Int
<1>1. trace' = NoTrace
  BY DEF CloseTrace
<1>2. CASE OnCooldown
  BY <1>1, <1>2, NoReportKeeps DEF CloseTrace
<1>3. CASE ~OnCooldown
  <2>1. Raise(ls)
    BY <1>3 DEF CloseTrace
  <2>2. Len(observed) \in Nat /\ clock \in Int /\ launchedAt \in Int /\ Len(observed') = Len(observed) + 1
    BY DetectorFacts, LinesStay DEF DetectorTypes
  <2>3. PICK b \in Alarms :
          b = [at |-> clock, upTo |-> Len(observed), lines |-> ls, launched |-> launchedAt,
               anew |-> starts > 1 /\ knownStart = starts]
    <3>1. PICK e \in BOOLEAN : e = (starts > 1 /\ knownStart = starts)
      OBVIOUS
    <3>2. [at |-> clock, upTo |-> Len(observed), lines |-> ls, launched |-> launchedAt, anew |-> e]
             \in Alarms
      BY <2>2 DEF Alarms
    <3>. QED
      BY <3>1, <3>2
  <2>4. b.upTo = Len(observed) /\ b.lines = ls
    BY <2>3
  <2>5. Reported(b)'
    BY <2>2, <2>4 DEF Reported, IsThere, IsTrace
  <2>. QED
    BY <1>1, <1>3, <2>1, <2>3, <2>5, RaiseKeeps
<1>. QED
  BY <1>2, <1>3

LEMMA OpenStaysThere ==
  ASSUME DetectorTypes, NEW t \in TraceTexts \cup StepTexts, Hear(t),
         NEW ls \in Seq(Nat), IsThere(ls), IsTrace(ls)
  PROVE  IsThere(ls)' /\ IsTrace(ls)'
<1>1. /\ Len(observed') = Len(observed) + 1 /\ Len(observed) \in Nat /\ Len(ls) \in Nat
      /\ \A i \in 1 .. Len(observed) : observed'[i] = observed[i]
  BY LinesStay, DetectorFacts, SeqHas
<1>2. \A i \in 1 .. Len(ls) : observed'[ls[i]] = observed[ls[i]]
  BY <1>1 DEF IsThere
<1>3. IsThere(ls)'
  BY <1>1 DEF IsThere
<1>4. /\ 1 \in 1 .. Len(ls) /\ (Len(ls) > 1 => 2 \in 1 .. Len(ls))
      /\ \A i \in 2 .. Len(ls) - 1 : i \in 1 .. Len(ls) /\ i + 1 \in 1 .. Len(ls)
  BY <1>1 DEF IsThere
<1>5. IsTrace(ls)'
  BY <1>1, <1>2, <1>4 DEF IsTrace
<1>. QED
  BY <1>3, <1>5

\* A line that is read while a trace is open goes on with it or closes it.
LEMMA CollectKeeps ==
  ASSUME DetectorInv, detectorKind = "traceback", detectorKind' = detectorKind,
         NEW t \in TraceTexts, Hear(t), trace # NoTrace, Collect(t)
  PROVE  /\ TraceInv' /\ trace' \in Traces /\ prev' \in 0 .. Len(observed')
         /\ AlarmsApart' /\ alarms' \in Seq(Alarms) /\ firedAt' \in Int
<1>1. DetectorTypes /\ AlarmsApart /\ TraceInv
  BY DEF DetectorInv
<1>2. /\ Len(observed) \in Nat /\ Coming = Len(observed) + 1 /\ Len(observed') = Len(observed) + 1
      /\ \A i \in 1 .. Len(observed) : observed'[i] = observed[i]
      /\ prev \in 0 .. Len(observed) /\ prev' = prev
  BY <1>1, LinesStay, DetectorFacts DEF DetectorTypes, Collect
<1>3. ~(prev # 0 /\ observed[prev].text = "exception")
  BY <1>1 DEF TraceInv
<1>4. prev' \in 0 .. Len(observed') /\ ~(prev' # 0 /\ observed'[prev'].text = "exception")
  BY <1>2, <1>3
<1>5. PICK ls \in Seq(Nat) : ls = trace.lines
  BY <1>1, DetectorFacts
<1>6. PICK q \in {0, 1} : q = trace.quiet
  BY <1>1, DetectorFacts
<1>7. /\ OpenTrace(ls)
      /\ \/ trace.lang = "python" /\ PythonOpen(ls, q)
         \/ trace.lang = "javascript" /\ NodeOpen(ls, q)
  BY <1>1, <1>5, <1>6 DEF TraceInv
<1>8. IsThere(ls)' /\ IsTrace(ls)'
  <2>1. IsThere(ls) /\ IsTrace(ls)
    BY <1>1, <1>6, <1>7, OpenIsTrace
  <2>. QED
    BY <1>1, <2>1, OpenStaysThere
<1>9. Len(ls) \in Nat /\ MaxTraceLines \in Nat
  BY <1>1, <1>5, DetectorFacts
<1>10. ASSUME CloseTrace(ls)
       PROVE  /\ TraceInv' /\ trace' \in Traces
              /\ AlarmsApart' /\ alarms' \in Seq(Alarms) /\ firedAt' \in Int
  <2>1. trace' = NoTrace /\ AlarmsApart' /\ alarms' \in Seq(Alarms) /\ firedAt' \in Int
    BY <1>1, <1>8, <1>10, CloseKeeps
  <2>2. NoTrace \in Traces
    BY DEF NoTrace, Traces
  <2>. QED
    BY <1>4, <2>1, <2>2 DEF TraceInv
<1>11. PICK m : m = Append(ls, Coming)
  OBVIOUS
<1>12. ASSUME t # "blank", Len(ls) < MaxTraceLines
       PROVE  /\ m \in Seq(Nat) /\ Len(m) = Len(ls) + 1 /\ Len(ls) >= 1
              /\ OpenTrace(m)'
              /\ \A i \in 1 .. Len(ls) : m[i] = ls[i] /\ Text(m, i)' = Text(ls, i)
              /\ Text(m, Len(ls) + 1)' = t
  BY <1>1, <1>7, <1>11, <1>12, TraceGrows
<1>13. CASE Len(ls) >= MaxTraceLines
  BY <1>4, <1>5, <1>10, <1>13 DEF Collect
<1>14. CASE Len(ls) < MaxTraceLines /\ IsFrame(trace.lang, t) /\ trace.lang = "python" /\ t = "exception"
  <2>1. CloseTrace(m)
    BY <1>5, <1>9, <1>11, <1>14 DEF Collect
  <2>2. /\ m \in Seq(Nat) /\ Len(m) = Len(ls) + 1 /\ Len(ls) >= 1 /\ OpenTrace(m)'
        /\ \A i \in 1 .. Len(ls) : Text(m, i)' = Text(ls, i)
        /\ Text(m, Len(ls) + 1)' = "exception"
    BY <1>12, <1>14
  <2>3. PythonOpen(ls, q)
    BY <1>7, <1>14
  <2>4. \A i \in 2 .. Len(m) - 1 : /\ Text(m, i)' # "exception"
                                   /\ \/ Text(m, i)' = "frame" \/ Text(m, i + 1)' = "frame"
                                      \/ Text(m, i + 1)' = "exception"
    <3>1. ASSUME NEW i \in 2 .. Len(m) - 1
          PROVE  /\ Text(m, i)' # "exception"
                 /\ \/ Text(m, i)' = "frame" \/ Text(m, i + 1)' = "frame"
                    \/ Text(m, i + 1)' = "exception"
      <4>1. i \in 2 .. Len(ls) /\ i \in 1 .. Len(ls)
        BY <1>9, <2>2, <3>1
      <4>2. CASE i = Len(ls)
        BY <2>2, <2>3, <4>1, <4>2 DEF PythonOpen
      <4>3. CASE i # Len(ls)
        <5>1. i \in 2 .. Len(ls) - 1 /\ i + 1 \in 1 .. Len(ls)
          BY <1>9, <4>1, <4>3
        <5>. QED
          BY <2>2, <2>3, <4>1, <5>1 DEF PythonOpen
      <4>. QED
        BY <4>2, <4>3
    <3>. QED
      BY <3>1
  <2>5. Text(m, 1)' = "head"
    <3>1. 1 \in 1 .. Len(ls)
      BY <1>9, <2>2
    <3>. QED
      BY <2>2, <2>3, <3>1 DEF PythonOpen
  <2>6. IsThere(m)' /\ IsTrace(m)'
    <3>1. Len(m) <= MaxTraceLines
      BY <1>9, <1>14, <2>2
    <3>. QED
      BY <1>9, <2>2, <2>4, <2>5, <3>1 DEF OpenTrace, IsTrace, Text
  <2>7. trace' = NoTrace /\ AlarmsApart' /\ alarms' \in Seq(Alarms) /\ firedAt' \in Int
    BY <1>1, <2>1, <2>2, <2>6, CloseKeeps
  <2>8. NoTrace \in Traces
    BY DEF NoTrace, Traces
  <2>. QED
    BY <1>4, <2>7, <2>8 DEF TraceInv
<1>15. CASE Len(ls) < MaxTraceLines /\ IsFrame(trace.lang, t) /\ ~(trace.lang = "python" /\ t = "exception")
  <2>1. /\ trace' = [trace EXCEPT !.lines = Append(@, Coming), !.quiet = 0]
        /\ UNCHANGED <<firedAt, alarms>>
    BY <1>5, <1>9, <1>15 DEF Collect
  <2>2. t # "blank" /\ (trace.lang = "python" => t = "frame") /\ (trace.lang = "javascript" => t = "nodeFrame")
    BY <1>15 DEF IsFrame
  <2>3. trace' = [lang |-> trace.lang, lines |-> m, quiet |-> 0]
    BY <1>1, <1>5, <1>11, <2>1 DEF DetectorTypes, Traces
  <2>4. trace'.lines = m /\ trace'.lang = trace.lang /\ trace'.quiet = 0
    BY <2>3
  <2>5. /\ m \in Seq(Nat) /\ Len(m) = Len(ls) + 1 /\ Len(ls) >= 1 /\ OpenTrace(m)'
        /\ \A i \in 1 .. Len(ls) : Text(m, i)' = Text(ls, i)
        /\ Text(m, Len(ls) + 1)' = t
    BY <1>12, <1>15, <2>2
  <2>6. ASSUME trace.lang = "python", PythonOpen(ls, q)
       PROVE  TraceInv'
    <3>1. PythonOpen(m, 0)'
      <4>1. 1 \in 1 .. Len(ls) /\ Len(m) = Len(ls) + 1 /\ t = "frame"
        BY <1>9, <2>2, <2>5, <2>6
      <4>2. \A i \in 2 .. Len(m) : (i \in 2 .. Len(ls) /\ i \in 1 .. Len(ls)) \/ i = Len(ls) + 1
        BY <1>9, <2>5
      <4>3. \A i \in 2 .. Len(m) - 1 :
              \/ i \in 2 .. Len(ls) - 1 /\ i \in 1 .. Len(ls) /\ i + 1 \in 1 .. Len(ls)
              \/ i + 1 = Len(ls) + 1
        BY <1>9, <2>5
      <4>. QED
        BY <2>5, <2>6, <4>1, <4>2, <4>3 DEF PythonOpen
    <3>. QED
      BY <1>4, <2>4, <2>5, <2>6, <3>1 DEF TraceInv
  <2>7. ASSUME trace.lang = "javascript", NodeOpen(ls, q)
       PROVE  TraceInv'
    <3>1. NodeOpen(m, 0)'
      <4>1. 1 \in 1 .. Len(ls) /\ 2 \in 1 .. Len(ls) /\ Len(m) = Len(ls) + 1 /\ t = "nodeFrame" /\ Len(m) > 1
        BY <1>9, <2>2, <2>5, <2>7 DEF NodeOpen
      <4>3. \A i \in 2 .. Len(m) - 1 :
              \/ i \in 2 .. Len(ls) - 1 /\ i \in 1 .. Len(ls) /\ i + 1 \in 1 .. Len(ls)
              \/ i + 1 = Len(ls) + 1
        BY <1>9, <2>5
      <4>. QED
        BY <2>5, <2>7, <4>1, <4>3 DEF NodeOpen
    <3>. QED
      BY <1>4, <2>4, <2>5, <2>7, <3>1 DEF TraceInv
  <2>8. trace' \in Traces
    BY <1>1, <2>3, <2>5 DEF DetectorTypes, Traces
  <2>9. TraceInv'
    BY <1>7, <2>6, <2>7
  <2>10. AlarmsApart' /\ alarms' \in Seq(Alarms) /\ firedAt' \in Int
    BY <1>1, <2>1, NoReportKeeps
  <2>. QED
    BY <1>4, <2>8, <2>9, <2>10
<1>16. CASE Len(ls) < MaxTraceLines /\ ~IsFrame(trace.lang, t) /\ (trace.quiet + 1 >= 2 \/ t = "blank")
  <2>1. CloseTrace(ls)
    BY <1>5, <1>9, <1>16 DEF Collect
  <2>. QED
    BY <1>4, <1>10, <2>1
<1>17. CASE Len(ls) < MaxTraceLines /\ ~IsFrame(trace.lang, t) /\ ~(trace.quiet + 1 >= 2 \/ t = "blank")
  <2>1. /\ trace' = [trace EXCEPT !.lines = Append(@, Coming), !.quiet = @ + 1]
        /\ UNCHANGED <<firedAt, alarms>>
    BY <1>5, <1>9, <1>17 DEF Collect
  <2>2. t # "blank" /\ trace.quiet = 0 /\ q = 0 /\ (trace.lang = "python" => t # "exception")
    BY <1>6, <1>17 DEF IsFrame
  <2>3. trace' = [lang |-> trace.lang, lines |-> m, quiet |-> 1]
    <3>1. trace' = [lang |-> trace.lang, lines |-> m, quiet |-> trace.quiet + 1]
      BY <1>1, <1>5, <1>11, <2>1 DEF DetectorTypes, Traces
    <3>2. trace.quiet + 1 = 1
      BY <2>2
    <3>. QED
      BY <3>1, <3>2
  <2>4. trace'.lines = m /\ trace'.lang = trace.lang /\ trace'.quiet = 1
    BY <2>3
  <2>5. /\ m \in Seq(Nat) /\ Len(m) = Len(ls) + 1 /\ Len(ls) >= 1 /\ OpenTrace(m)'
        /\ \A i \in 1 .. Len(ls) : Text(m, i)' = Text(ls, i)
        /\ Text(m, Len(ls) + 1)' = t
    BY <1>12, <1>17, <2>2
  <2>6. ASSUME trace.lang = "python", PythonOpen(ls, q)
       PROVE  TraceInv'
    <3>1. PythonOpen(m, 1)'
      <4>1. 1 \in 1 .. Len(ls) /\ Len(m) = Len(ls) + 1 /\ t # "exception"
        BY <1>9, <2>2, <2>5, <2>6
      <4>2. \A i \in 2 .. Len(m) : (i \in 2 .. Len(ls) /\ i \in 1 .. Len(ls)) \/ i = Len(ls) + 1
        BY <1>9, <2>5
      <4>3. \A i \in 2 .. Len(m) - 1 :
              \/ i \in 2 .. Len(ls) - 1 /\ i \in 1 .. Len(ls) /\ i + 1 \in 1 .. Len(ls)
              \/ i = Len(ls) /\ i \in 1 .. Len(ls) /\ Text(ls, i) = "frame"
        <5>1. Len(ls) = 1 \/ Text(ls, Len(ls)) = "frame"
          BY <2>2, <2>6 DEF PythonOpen
        <5>2. Len(m) - 1 = Len(ls)
          BY <1>9, <2>5
        <5>3. ASSUME NEW i \in 2 .. Len(ls)
              PROVE  i \in 1 .. Len(ls) /\ Len(ls) # 1
          <6>1. i \in Nat /\ 2 <= i /\ i <= Len(ls)
            BY <1>9
          <6>2. i \in 1 .. Len(ls)
            BY <1>9, <6>1
          <6>3. Len(ls) > 1
            BY <1>9, <6>1
          <6>4. ASSUME Len(ls) = 1 PROVE FALSE
            <7>1. 1 > 1
              BY ONLY <6>3, <6>4
            <7>. QED
              BY <7>1
          <6>. QED
            BY <6>2, <6>4
        <5>4. \A i \in 2 .. Len(ls) :
                i # Len(ls) => i \in 2 .. Len(ls) - 1 /\ i + 1 \in 1 .. Len(ls)
          BY <1>9
        <5>. QED
          BY <5>1, <5>2, <5>3, <5>4
      <4>. QED
        BY <2>5, <2>6, <4>1, <4>2, <4>3 DEF PythonOpen
    <3>. QED
      BY <1>4, <2>4, <2>5, <2>6, <3>1 DEF TraceInv
  <2>7. ASSUME trace.lang = "javascript", NodeOpen(ls, q)
       PROVE  TraceInv'
    <3>1. NodeOpen(m, 1)'
      <4>1. 1 \in 1 .. Len(ls) /\ 2 \in 1 .. Len(ls) /\ Len(m) = Len(ls) + 1 /\ Len(m) > 1
        BY <1>9, <2>5, <2>7 DEF NodeOpen
      <4>3. \A i \in 2 .. Len(m) - 1 :
              \/ i \in 2 .. Len(ls) - 1 /\ i \in 1 .. Len(ls) /\ i + 1 \in 1 .. Len(ls)
              \/ i = Len(ls) /\ i \in 1 .. Len(ls) /\ Text(ls, i) = "nodeFrame"
        BY <1>9, <2>2, <2>5, <2>7 DEF NodeOpen
      <4>. QED
        BY <2>5, <2>7, <4>1, <4>3 DEF NodeOpen
    <3>. QED
      BY <1>4, <2>4, <2>5, <2>7, <3>1 DEF TraceInv
  <2>8. trace' \in Traces
    BY <1>1, <2>3, <2>5 DEF DetectorTypes, Traces
  <2>9. TraceInv'
    BY <1>7, <2>6, <2>7
  <2>10. AlarmsApart' /\ alarms' \in Seq(Alarms) /\ firedAt' \in Int
    BY <1>1, <2>1, NoReportKeeps
  <2>. QED
    BY <1>4, <2>8, <2>9, <2>10
<1>. QED
  BY <1>9, <1>13, <1>14, <1>15, <1>16, <1>17

LEMMA TracebackKeeps ==
  ASSUME DetectorInv, NEW t \in TraceTexts, TracebackLine(t)
  PROVE  DetectorInv'
<1>1. /\ DetectorTypes /\ AlarmsApart /\ detectorKind = "traceback" /\ Hear(t)
      /\ UNCHANGED <<detectorKind, clock, value, progressAt, lineAt, ticking, up, starts, launchedAt,
                     knownStart>>
  BY DEF TracebackLine, DetectorInv, stallVars, childVars
<1>2. /\ observed' \in Seq(Heard) /\ Len(observed') = Len(observed) + 1 /\ Len(observed) \in Nat
      /\ observed'[Len(observed) + 1].at = clock
      /\ \A i \in 1 .. Len(observed) : observed'[i] = observed[i] /\ observed[i].at <= clock
  BY <1>1, LinesStay, DetectorFacts DEF DetectorTypes
<1>3. /\ TraceInv' /\ trace' \in Traces /\ prev' \in 0 .. Len(observed')
      /\ AlarmsApart' /\ alarms' \in Seq(Alarms) /\ firedAt' \in Int
  <2>1. CASE trace = NoTrace
    <3>1. MaybeOpen(t) /\ UNCHANGED <<firedAt, alarms>>
      BY <2>1 DEF TracebackLine, MaybeOpen
    <3>. QED
      BY <1>1, <2>1, <3>1, MaybeOpenKeeps, NoReportKeeps
  <2>2. CASE trace # NoTrace
    <3>1. Collect(t)
      BY <2>2 DEF TracebackLine
    <3>. QED
      BY <1>1, <2>2, <3>1, CollectKeeps
  <2>. QED
    BY <2>1, <2>2
<1>4. \A i \in 1 .. Len(observed') : observed'[i].at <= clock'
  <2>1. clock \in Nat
    BY <1>1, DetectorFacts
  <2>. QED
    BY <1>1, <1>2, <2>1
<1>5. DetectorTypes'
  BY <1>1, <1>2, <1>3, <1>4 DEF DetectorTypes
<1>. QED
  BY <1>1, <1>3, <1>5 DEF DetectorInv

LEMMA StallLineKeeps ==
  ASSUME DetectorInv, NEW t \in StepTexts, StallLine(t)
  PROVE  DetectorInv'
<1>1. /\ DetectorTypes /\ AlarmsApart /\ StallInv /\ detectorKind # "traceback" /\ Hear(t)
      /\ lineAt' = clock
      /\ UNCHANGED <<detectorKind, clock, prev, trace, firedAt, alarms, ticking, up, starts,
                     launchedAt, knownStart>>
  BY DEF StallLine, DetectorInv, alarmVars, childVars
<1>2. /\ observed' \in Seq(Heard) /\ Len(observed') = Len(observed) + 1 /\ Len(observed) \in Nat
      /\ observed'[Len(observed) + 1].at = clock /\ observed'[Len(observed) + 1].text = t
      /\ \A i \in 1 .. Len(observed) :
           observed'[i] = observed[i] /\ observed[i].at <= clock /\ observed[i].at \in Nat
      /\ clock \in Nat /\ lineAt \in Int /\ progressAt \in Int /\ launchedAt \in Int
  BY <1>1, LinesStay, DetectorFacts DEF DetectorTypes
<1>3. AlarmsApart' /\ alarms' \in Seq(Alarms) /\ firedAt' \in Int
  BY <1>1, NoReportKeeps
<1>4. /\ progressAt' \in Int /\ value' \in StepTexts \cup {"none"}
      /\ progressAt <= clock /\ lineAt <= clock => progressAt <= progressAt' /\ progressAt' <= clock
  BY <1>1, <1>2 DEF StallLine, DetectorTypes
<1>5. DetectorTypes'
  <2>1. \A i \in 1 .. Len(observed') : observed'[i].at <= clock'
    BY <1>1, <1>2
  <2>. QED
    BY <1>1, <1>2, <1>3, <1>4, <2>1 DEF DetectorTypes
<1>6. launchedAt <= clock /\ (BegunAnew => launchedAt <= progressAt)
  BY <1>1 DEF StallInv, DetectorTypes
<1>7. /\ BegunAnew' => launchedAt' <= progressAt' /\ launchedAt' <= lineAt'
      /\ \A i \in 1 .. Len(observed') : observed'[i].at <= lineAt'
  <2>1. BegunAnew' => launchedAt' <= progressAt'
    BY <1>1, <1>2, <1>6 DEF StallLine, BegunAnew
  <2>. QED
    BY <1>1, <1>2, <1>5, <1>6, <2>1 DEF DetectorTypes
<1>8. CASE detectorKind = "progress"
  <2>1. CASE t # "other" /\ t # value
    <3>1. value' = t /\ progressAt' = clock
      BY <1>8, <2>1 DEF StallLine
    <3>2. \E j \in 1 .. Len(observed') :
            /\ observed'[j].text = value'
            /\ \A k \in j .. Len(observed') : observed'[k].text \in {"other", value'}
      <4>1. Len(observed) + 1 \in 1 .. Len(observed')
        BY <1>2
      <4>2. \A k \in Len(observed) + 1 .. Len(observed') : k = Len(observed) + 1
        BY <1>2
      <4>. QED
        BY <1>2, <3>1, <4>1, <4>2
    <3>3. \A i \in 1 .. Len(observed') : ~(observed'[i].at > progressAt')
      BY <1>1, <1>2, <3>1
    <3>4. StallInv'
      BY <1>7, <3>2, <3>3 DEF StallInv
    <3>. QED
      BY <1>1, <1>3, <1>5, <3>4 DEF DetectorInv
  <2>2. CASE t = "other" \/ t = value
    <3>1. value' = value /\ progressAt' = progressAt
      BY <2>2 DEF StallLine
    <3>2. ASSUME value # "none"
          PROVE  \E j \in 1 .. Len(observed) :
                   /\ observed'[j].text = value
                   /\ \A k \in j .. Len(observed') : observed'[k].text \in {"other", value}
      <4>1. PICK j \in 1 .. Len(observed) :
              /\ observed[j].text = value
              /\ \A k \in j .. Len(observed) : observed[k].text \in {"other", value}
        BY <1>1, <1>8, <3>2 DEF StallInv
      <4>2. \A k \in j .. Len(observed') :
              \/ k = Len(observed) + 1
              \/ k \in 1 .. Len(observed) /\ k \in j .. Len(observed)
        <5>1. Len(observed) \in Nat /\ Len(observed') = Len(observed) + 1
          BY <1>2
        <5>2. j \in Int /\ j >= 1
          BY <5>1
        <5>. QED
          BY <5>1, <5>2
      <4>3. \A k \in j .. Len(observed') : observed'[k].text \in {"other", value}
        BY <1>2, <2>2, <4>1, <4>2
      <4>. QED
        BY <1>2, <4>1, <4>3
    <3>3. \A j \in 1 .. Len(observed) : j \in 1 .. Len(observed')
      BY <1>2
    <3>4. ASSUME NEW i \in 1 .. Len(observed'), observed'[i].at > progressAt, observed'[i].text # "other"
          PROVE  \E j \in 1 .. i - 1 : SameSince(j, i)'
      <4>1. CASE i = Len(observed) + 1
        <5>1. t = value /\ value # "none"
          BY <1>2, <2>2, <3>4, <4>1 DEF StepTexts
        <5>2. PICK j \in 1 .. Len(observed) :
                /\ observed'[j].text = value
                /\ \A k \in j .. Len(observed') : observed'[k].text \in {"other", value}
          BY <3>2, <5>1
        <5>3. j \in 1 .. i - 1 /\ i = Len(observed')
          BY <1>2, <4>1
        <5>4. SameSince(j, i)'
          BY <1>2, <4>1, <5>1, <5>2, <5>3 DEF SameSince
        <5>. QED
          BY <5>3, <5>4
      <4>2. CASE i \in 1 .. Len(observed)
        <5>1. observed[i].at > progressAt /\ observed[i].text # "other"
          BY <1>2, <3>4, <4>2
        <5>2. PICK j \in 1 .. i - 1 : SameSince(j, i)
          BY <1>1, <1>8, <4>2, <5>1 DEF StallInv
        <5>3. j \in 1 .. Len(observed) /\ \A k \in j .. i : k \in 1 .. Len(observed)
          BY <1>2, <4>2
        <5>4. SameSince(j, i)'
          BY <1>2, <4>2, <5>2, <5>3 DEF SameSince
        <5>. QED
          BY <5>4
      <4>. QED
        BY <1>2, <4>1, <4>2
    <3>5. StallInv'
      <4>1. \A i \in 1 .. Len(observed') :
              observed'[i].at > progressAt' /\ observed'[i].text # "other" =>
                \E j \in 1 .. i - 1 : SameSince(j, i)'
        BY <3>1, <3>4
      <4>2. value' # "none" =>
              \E j \in 1 .. Len(observed') :
                /\ observed'[j].text = value'
                /\ \A k \in j .. Len(observed') : observed'[k].text \in {"other", value'}
        BY <3>1, <3>2, <3>3
      <4>. QED
        BY <1>7, <4>1, <4>2 DEF StallInv
    <3>. QED
      BY <1>1, <1>3, <1>5, <3>5 DEF DetectorInv
  <2>. QED
    BY <2>1, <2>2
<1>9. CASE detectorKind # "progress"
  <2>1. StallInv'
    BY <1>1, <1>7, <1>9 DEF StallInv
  <2>. QED
    BY <1>1, <1>3, <1>5, <2>1 DEF DetectorInv
<1>. QED
  BY <1>8, <1>9

\* A tick that fires reports a stall; one that does not changes nothing of this.
LEMMA ObserveTickKeeps ==
  ASSUME DetectorInv, ObserveTick
  PROVE  DetectorInv'
<1>1. /\ DetectorTypes /\ AlarmsApart /\ ticking' = FALSE
      /\ UNCHANGED <<detectorKind, clock, observed, prev, trace, value, progressAt, lineAt, up,
                     starts, launchedAt, knownStart>>
  BY DEF ObserveTick, DetectorInv, lineVars, stallVars, childVars
<1>2. /\ detectorKind' = "traceback" => TraceInv'
      /\ detectorKind' # "traceback" => StallInv'
  BY <1>1 DEF DetectorInv, TraceInv, OpenTrace, PythonOpen, NodeOpen, IsThere, Text, StallInv,
              SameSince, BegunAnew
<1>3. CASE detectorKind # "traceback" /\ ~OnCooldown /\ clock - LastActivity >= NoProgress
  <2>1. Raise(<<>>) /\ StallInv
    BY <1>3 DEF ObserveTick, DetectorInv
  <2>2. PICK ls : ls = <<>>
    OBVIOUS
  <2>3. /\ Len(observed) \in Nat /\ clock \in Nat /\ launchedAt \in Int /\ NoProgress \in Nat \ {0}
        /\ progressAt \in Int /\ lineAt \in Int
        /\ \A i \in 1 .. Len(observed) : observed[i].at \in Nat
    BY <1>1, DetectorFacts DEF DetectorTypes
  <2>4. PICK b \in Alarms :
          b = [at |-> clock, upTo |-> Len(observed), lines |-> ls, launched |-> launchedAt,
               anew |-> starts > 1 /\ knownStart = starts]
    <3>1. ls \in Seq(Nat)
      BY <2>2
    <3>2. PICK e \in BOOLEAN : e = (starts > 1 /\ knownStart = starts)
      OBVIOUS
    <3>3. [at |-> clock, upTo |-> Len(observed), lines |-> ls, launched |-> launchedAt, anew |-> e]
             \in Alarms
      BY <2>3, <3>1 DEF Alarms
    <3>. QED
      BY <3>2, <3>3
  <2>5. b.at = clock /\ b.upTo = Len(observed) /\ b.launched = launchedAt /\ (b.anew => BegunAnew)
    BY <2>4 DEF BegunAnew
  <2>6. /\ detectorKind = "progress" => clock - progressAt >= NoProgress
        /\ detectorKind # "progress" => clock - lineAt >= NoProgress
    BY <1>3 DEF LastActivity
  <2>7. IsStall(b)
    <3>1. ASSUME b.anew PROVE b.at - b.launched >= NoProgress
      <4>1. launchedAt <= progressAt /\ launchedAt <= lineAt
        BY <2>1, <2>5, <3>1 DEF StallInv
      <4>. QED
        BY <2>3, <2>5, <2>6, <4>1
    <3>2. ASSUME NEW i \in 1 .. b.upTo, b.at - observed[i].at < NoProgress
          PROVE  /\ detectorKind = "progress"
                 /\ observed[i].text # "other" =>
                      \E j \in 1 .. i - 1 : observed[j].text = observed[i].text
                        /\ \A k \in j .. i : observed[k].text \in {"other", observed[i].text}
      <4>1. i \in 1 .. Len(observed) /\ observed[i].at <= lineAt
        BY <2>1, <2>5, <3>2 DEF StallInv
      <4>2. detectorKind = "progress"
        BY <2>3, <2>5, <2>6, <3>2, <4>1
      <4>3. observed[i].at > progressAt
        BY <2>3, <2>5, <2>6, <3>2, <4>1, <4>2
      <4>. QED
        BY <2>1, <4>1, <4>2, <4>3 DEF StallInv, SameSince
    <3>. QED
      BY <3>1, <3>2 DEF IsStall
  <2>8. Reported(b)
    BY <1>3, <2>3, <2>5, <2>7 DEF Reported
  <2>9. Reported(b)'
    BY <1>1, <2>8, ReportsStay
  <2>10. AlarmsApart' /\ alarms' \in Seq(Alarms) /\ firedAt' \in Int
    <3>1. ls \in Seq(Nat) /\ Raise(ls)
      BY <2>1, <2>2
    <3>. QED
      BY <1>1, <1>3, <2>4, <2>9, <3>1, RaiseKeeps
  <2>11. DetectorTypes'
    BY <1>1, <2>10 DEF DetectorTypes
  <2>. QED
    BY <1>2, <2>10, <2>11 DEF DetectorInv
<1>4. CASE UNCHANGED <<firedAt, alarms>>
  <2>1. AlarmsApart' /\ alarms' \in Seq(Alarms) /\ firedAt' \in Int
    BY <1>1, <1>4, NoReportKeeps
  <2>2. DetectorTypes'
    BY <1>1, <2>1 DEF DetectorTypes
  <2>. QED
    BY <1>2, <2>1, <2>2 DEF DetectorInv
<1>. QED
  BY <1>3, <1>4 DEF ObserveTick, alarmVars

\* A start makes the child one the detectors do not know of, unless it is the first;
\* its death changes nothing for them.
LEMMA ChildKeepsDetector ==
  ASSUME DetectorInv, ChildLaunched \/ ChildDies
  PROVE  DetectorInv'
<1>1. /\ DetectorTypes /\ AlarmsApart /\ clock \in Nat
      /\ UNCHANGED <<detectorKind, clock, observed, prev, trace, firedAt, alarms, value, progressAt,
                     lineAt, ticking>>
  BY DetectorFacts
     DEF DetectorInv, ChildLaunched, ChildDies, lineVars, alarmVars, stallVars
<1>2. AlarmsApart' /\ alarms' \in Seq(Alarms) /\ firedAt' \in Int
  BY <1>1, NoReportKeeps
<1>3. starts \in Nat /\ knownStart \in Nat /\ knownStart <= starts /\ launchedAt <= clock
  BY <1>1 DEF DetectorTypes
<1>4. /\ starts' \in Nat /\ knownStart' \in Nat /\ knownStart' <= starts' /\ up' \in BOOLEAN
      /\ launchedAt' \in Int /\ launchedAt' <= clock'
      /\ BegunAnew' => BegunAnew /\ launchedAt' = launchedAt
  <2>1. CASE ChildDies
    BY <1>1, <1>3, <2>1 DEF ChildDies, DetectorTypes, BegunAnew
  <2>2. CASE ChildLaunched
    <3>1. /\ starts' = starts + 1 /\ up' = TRUE /\ launchedAt' = clock
          /\ knownStart' = IF starts = 0 THEN 1 ELSE knownStart
      BY <2>2 DEF ChildLaunched
    <3>2. /\ starts' \in Nat /\ knownStart' \in Nat /\ knownStart' <= starts'
          /\ ~(starts' > 1 /\ knownStart' = starts')
      BY <1>3, <3>1
    <3>. QED
      BY <1>1, <3>1, <3>2 DEF BegunAnew
  <2>. QED
    BY <2>1, <2>2
<1>5. DetectorTypes'
  BY <1>1, <1>2, <1>4 DEF DetectorTypes
<1>6. detectorKind' = "traceback" => TraceInv'
  BY <1>1 DEF DetectorInv, TraceInv, OpenTrace, PythonOpen, NodeOpen, IsThere, Text
<1>7. detectorKind' # "traceback" => StallInv'
  <2>. SUFFICES ASSUME detectorKind # "traceback" PROVE StallInv'
    BY <1>1
  <2>1. StallInv
    BY DEF DetectorInv
  <2>2. BegunAnew' => launchedAt' <= progressAt' /\ launchedAt' <= lineAt'
    BY <1>1, <1>4, <2>1 DEF StallInv
  <2>. QED
    BY <1>1, <2>1, <2>2 DEF StallInv, SameSince
<1>. QED
  BY <1>2, <1>5, <1>6, <1>7 DEF DetectorInv

\* The top of a tick: a child that runs and was not known makes the stall detector
\* begin anew, on a clock that is not before the child's start.
LEMMA TickBeginsKeeps ==
  ASSUME DetectorInv, TickBegins
  PROVE  DetectorInv'
<1>1. /\ DetectorTypes /\ AlarmsApart /\ clock \in Nat /\ ticking' = TRUE
      /\ knownStart' = (IF up THEN starts ELSE knownStart)
      /\ UNCHANGED <<detectorKind, clock, observed, prev, trace, firedAt, alarms, up, starts,
                     launchedAt>>
  BY DetectorFacts DEF DetectorInv, TickBegins, lineVars, alarmVars, childVars
<1>2. AlarmsApart' /\ alarms' \in Seq(Alarms) /\ firedAt' \in Int
  BY <1>1, NoReportKeeps
<1>3. /\ starts \in Nat /\ knownStart \in Nat /\ knownStart <= starts /\ launchedAt <= clock
      /\ knownStart' \in Nat /\ knownStart' <= starts'
  BY <1>1 DEF DetectorTypes
<1>4. detectorKind' = "traceback" => TraceInv'
  BY <1>1 DEF DetectorInv, TraceInv, OpenTrace, PythonOpen, NodeOpen, IsThere, Text
<1>5. CASE up /\ knownStart # starts /\ detectorKind # "traceback"
  <2>1. value' = "none" /\ progressAt' = clock /\ lineAt' = clock
    BY <1>5 DEF TickBegins
  <2>2. \A i \in 1 .. Len(observed) : observed[i].at \in Nat /\ observed[i].at <= clock
    BY <1>1, DetectorFacts DEF DetectorTypes
  <2>3. \A i \in 1 .. Len(observed') : ~(observed'[i].at > progressAt') /\ observed'[i].at <= lineAt'
    BY <1>1, <2>1, <2>2
  <2>4. StallInv'
    BY <1>1, <1>3, <2>1, <2>3 DEF StallInv
  <2>5. DetectorTypes'
    BY <1>1, <1>2, <1>3, <2>1 DEF DetectorTypes
  <2>. QED
    BY <1>2, <1>4, <2>4, <2>5 DEF DetectorInv
<1>6. CASE ~(up /\ knownStart # starts /\ detectorKind # "traceback")
  <2>1. UNCHANGED <<value, progressAt, lineAt>>
    BY <1>6 DEF TickBegins, stallVars
  <2>2. DetectorTypes'
    BY <1>1, <1>2, <1>3, <2>1 DEF DetectorTypes
  <2>3. ASSUME detectorKind # "traceback" PROVE StallInv'
    <3>1. StallInv
      BY <2>3 DEF DetectorInv
    <3>2. knownStart' = knownStart
      BY <1>1, <1>6, <2>3
    <3>3. BegunAnew' => launchedAt' <= progressAt' /\ launchedAt' <= lineAt'
      BY <1>1, <2>1, <3>1, <3>2 DEF StallInv, BegunAnew
    <3>. QED
      BY <1>1, <2>1, <3>1, <3>3 DEF StallInv, SameSince
  <2>. QED
    BY <1>1, <1>2, <1>4, <2>2, <2>3 DEF DetectorInv
<1>. QED
  BY <1>5, <1>6

LEMMA ClockKeepsDetector ==
  ASSUME DetectorInv, ClockTicks
  PROVE  DetectorInv'
<1>1. /\ DetectorTypes /\ AlarmsApart /\ clock < MaxClock /\ clock' = clock + 1
      /\ UNCHANGED <<detectorKind, observed, prev, trace, firedAt, alarms, value, progressAt, lineAt,
                     ticking, up, starts, launchedAt, knownStart>>
  BY DEF ClockTicks, DetectorInv, lineVars, alarmVars, stallVars, childVars
<1>2. /\ clock \in Nat /\ launchedAt \in Int
      /\ \A i \in 1 .. Len(observed) : observed[i].at <= clock /\ observed[i].at \in Nat
  BY <1>1, DetectorFacts DEF DetectorTypes
<1>3. AlarmsApart' /\ alarms' \in Seq(Alarms) /\ firedAt' \in Int
  BY <1>1, NoReportKeeps
<1>4. DetectorTypes'
  <2>1. /\ clock' \in 0 .. MaxClock /\ launchedAt' <= clock'
        /\ \A i \in 1 .. Len(observed') : observed'[i].at <= clock'
    BY <1>1, <1>2, LineDetectorsAssumption DEF DetectorTypes
  <2>. QED
    BY <1>1, <1>3, <2>1 DEF DetectorTypes
<1>5. CASE detectorKind = "traceback"
  <2>1. TraceInv
    BY <1>5 DEF DetectorInv
  <2>2. TraceInv'
    BY <1>1, <2>1 DEF TraceInv, OpenTrace, PythonOpen, NodeOpen, IsThere, Text
  <2>. QED
    BY <1>1, <1>3, <1>4, <1>5, <2>2 DEF DetectorInv
<1>6. CASE detectorKind # "traceback"
  <2>1. StallInv
    BY <1>6 DEF DetectorInv
  <2>2. StallInv'
    BY <1>1, <2>1 DEF StallInv, SameSince, BegunAnew
  <2>. QED
    BY <1>1, <1>3, <1>4, <1>6, <2>2 DEF DetectorInv
<1>. QED
  BY <1>5, <1>6

LEMMA DetectorKeeps ==
  ASSUME DetectorInv, [LineDetectorsNext]_detectorVars
  PROVE  DetectorInv'
<1>1. CASE UNCHANGED detectorVars
  <2>0. UNCHANGED <<detectorKind, clock, observed, prev, trace, firedAt, alarms, value, progressAt,
                    lineAt, ticking, up, starts, launchedAt, knownStart>>
    BY <1>1 DEF detectorVars, lineVars, alarmVars, stallVars, childVars
  <2>1. DetectorTypes' /\ AlarmsApart'
    BY <2>0 DEF DetectorInv, DetectorTypes, AlarmsApart, Reported, IsThere, IsTrace, IsStall
  <2>2. detectorKind' = "traceback" => TraceInv'
    BY <2>0 DEF DetectorInv, TraceInv, OpenTrace, PythonOpen, NodeOpen, IsThere, Text
  <2>3. detectorKind' # "traceback" => StallInv'
    BY <2>0 DEF DetectorInv, StallInv, SameSince, BegunAnew
  <2>. QED
    BY <2>1, <2>2, <2>3 DEF DetectorInv
<1>. QED
  BY <1>1, TracebackKeeps, StallLineKeeps, ObserveTickKeeps, ChildKeepsDetector, TickBeginsKeeps,
     ClockKeepsDetector DEF LineDetectorsNext

\* What the detectors report is there, once per cooldown, whenever the child dies and is
\* started again: a trace is a piece of the log, although the line before is not kept
\* while one is open; a stall had its whole window without activity, and once the
\* detector has begun anew for a restarted child, that window is that child's
\* (detectors/traceback.py, stall.py, base.py; monitor.py, _tick; issue #9).
THEOREM ReportsAreSound == ComponentsSpec => []DetectorsSound
<1>1. ComponentsInit => DetectorInv
  BY DetectorInitially DEF ComponentsInit
<1>2. DetectorInv /\ [ComponentsNext]_allVars => DetectorInv'
  BY Projections, DetectorKeeps
<1>3. DetectorInv => DetectorsSound
  BY DEF DetectorInv, AlarmsApart, Reported, DetectorsSound
<1>. QED
  BY <1>1, <1>2, <1>3, PTL DEF ComponentsSpec

-----------------------------------------------------------------------------
(* The vault *)

\* The index, as it is in memory or in a file, and the incidents it has taken.
Patterns == [slug : VDetectors \X Nat \X Nat, message : Nat, hash : Nat, ids : SUBSET Nat]
Items    == [id : Nat, message : Nat, hash : Nat]

IndexTypes(ps, us) ==
  /\ ps \in Seq(Patterns) /\ us \in [VDetectors -> SUBSET Items]
  /\ \A i \in 1 .. Len(ps) : ps[i].hash \in Hashes \cup {0}
  /\ \A d \in VDetectors : /\ IsFiniteSet(us[d]) /\ Cardinality(us[d]) < PatternThreshold
                           /\ \A it \in us[d] : it.hash \in Hashes \cup {0}

\* A slug that was taken is told apart by the message, and the message of a pattern is
\* similar to itself: nothing of its detector and message comes to need a slug again.
SlugsApart(ps) ==
  /\ \A i \in 1 .. Len(ps) : /\ ps[i].message \in Messages
                             /\ ps[i].slug[2] = 1 /\ ps[i].slug[3] \in {0, ps[i].message}
  /\ \A i, j \in 1 .. Len(ps) : ps[i].slug = ps[j].slug => i = j

\* Every incident has one home, a pattern or a bucket.
Homes(ps, us, ids) ==
  /\ \A x \in ids : \/ \E i \in 1 .. Len(ps) : x \in ps[i].ids
                    \/ \E d \in VDetectors : \E it \in us[d] : it.id = x
  /\ \A i \in 1 .. Len(ps) : ps[i].ids \subseteq ids
  /\ \A d \in VDetectors : \A it \in us[d] : it.id \in ids
  /\ \A i, j \in 1 .. Len(ps) : \A x \in ps[i].ids : x \in ps[j].ids => i = j
  /\ \A d, e \in VDetectors : \A it \in us[d], ot \in us[e] : it.id = ot.id => d = e /\ it = ot
  /\ \A i \in 1 .. Len(ps) : \A d \in VDetectors : \A it \in us[d] : it.id \notin ps[i].ids

IndexOk(ps, us, ids) == IndexTypes(ps, us) /\ SlugsApart(ps) /\ Homes(ps, us, ids)

LEMMA FailureFacts ==
  /\ \A f \in Failures : /\ f.message \in Messages /\ f.hash \in Hashes \cup {0}
                         /\ f.detector \in VDetectors
  /\ \A m \in Messages : m \in Nat /\ m # 0
  /\ \A h \in Hashes : h \in Nat /\ h # 0
  BY VaultAssumption DEF Messages, Hashes, VDetectors

LEMMA NothingIsIndexed == IndexOk(<<>>, EmptyPending, {})
<1>1. Len(<<>>) = 0 /\ <<>> \in Seq(Patterns)
  OBVIOUS
<1>2. EmptyPending \in [VDetectors -> SUBSET Items] /\ \A d \in VDetectors : EmptyPending[d] = {}
  BY DEF EmptyPending
<1>3. IsFiniteSet({}) /\ Cardinality({}) = 0 /\ 0 < PatternThreshold
  BY FS_EmptySet, VaultAssumption
<1>. QED
  BY <1>1, <1>2, <1>3 DEF IndexOk, IndexTypes, SlugsApart, Homes

\* The patterns that claim a hash, of which the last has it.
Claims(ps, h)    == {i \in 1 .. Len(ps) : ps[i].hash = h}
Latest(ps, h, k) == k \in Claims(ps, h) /\ \A j \in Claims(ps, h) : k >= j

HashSlug(ps, h) ==
  LET with == {i \in 1 .. Len(ps) : ps[i].hash = h}
  IN IF with = {} THEN NoSlug ELSE ps[CHOOSE i \in with : \A j \in with : i >= j].slug

LEMMA LoadedIsAMap ==
  ASSUME NEW ps
  PROVE  LoadedHashes(ps) = [h \in Hashes |-> LoadedHashes(ps)[h]]
<1>1. LoadedHashes(ps) = [h \in Hashes |-> HashSlug(ps, h)]
  BY DEF LoadedHashes, HashSlug
<1>. QED
  BY <1>1

LEMMA LoadedOf ==
  ASSUME NEW ps \in Seq(Patterns), NEW h \in Hashes
  PROVE  /\ Claims(ps, h) = {} => LoadedHashes(ps)[h] = NoSlug
         /\ \A k : Latest(ps, h, k) => LoadedHashes(ps)[h] = ps[k].slug
         /\ Claims(ps, h) # {} => \E k : Latest(ps, h, k)
<1>. DEFINE C == Claims(ps, h)
<1>0. Len(ps) \in Nat /\ \A i \in C : i \in Nat /\ i <= Len(ps)
  BY SeqHas DEF Claims
<1>1. LoadedHashes(ps)[h] = IF C = {} THEN NoSlug
                            ELSE ps[CHOOSE i \in C : \A j \in C : i >= j].slug
  BY DEF LoadedHashes, Claims
<1>2. C # {} => \E k : Latest(ps, h, k)
  <2>. SUFFICES ASSUME C # {} PROVE \E k : Latest(ps, h, k)
    OBVIOUS
  <2>. DEFINE T == {Len(ps) - i : i \in C}
  <2>1. T \in SUBSET Nat /\ T # {}
    BY <1>0
  <2>2. PICK m \in T : \A t \in T : m <= t
    BY <2>1, LeastOf
  <2>3. PICK k \in C : m = Len(ps) - k
    OBVIOUS
  <2>4. ASSUME NEW j \in C PROVE k >= j
    <3>1. Len(ps) - j \in T
      OBVIOUS
    <3>2. Len(ps) - k <= Len(ps) - j
      BY <2>2, <2>3, <3>1
    <3>. QED
      BY <1>0, <3>2
  <2>. QED
    BY <2>4 DEF Latest
<1>3. ASSUME NEW k, Latest(ps, h, k) PROVE LoadedHashes(ps)[h] = ps[k].slug
  <2>1. k \in C /\ \A j \in C : k >= j
    BY <1>3 DEF Latest
  <2>. DEFINE c == CHOOSE i \in C : \A j \in C : i >= j
  <2>2. c \in C /\ \A j \in C : c >= j
    BY <2>1
  <2>3. c >= k /\ k >= c /\ c \in Nat /\ k \in Nat
    BY <1>0, <2>1, <2>2
  <2>. HIDE DEF c
  <2>4. c = k
    BY <2>3
  <2>. QED
    BY <1>1, <2>1, <2>4 DEF c
<1>. QED
  BY <1>1, <1>2, <1>3

\* A new pattern has its hash from whoever had it.
LEMMA AppendLoads ==
  ASSUME NEW ps \in Seq(Patterns), NEW p \in Patterns, NEW qs, qs = Append(ps, p)
  PROVE  LoadedHashes(qs) =
           [h \in Hashes |-> IF h = p.hash THEN p.slug ELSE LoadedHashes(ps)[h]]
<1>1. /\ qs \in Seq(Patterns) /\ Len(qs) = Len(ps) + 1 /\ Len(ps) \in Nat
      /\ \A i \in 1 .. Len(ps) : qs[i] = ps[i]
      /\ qs[Len(ps) + 1] = p
  BY AppendHas, SeqHas
<1>2. ASSUME NEW h \in Hashes
      PROVE  LoadedHashes(qs)[h] = IF h = p.hash THEN p.slug ELSE LoadedHashes(ps)[h]
  <2>1. CASE h = p.hash
    <3>1. Latest(qs, h, Len(ps) + 1)
      BY <1>1, <2>1 DEF Latest, Claims
    <3>2. LoadedHashes(qs)[h] = qs[Len(ps) + 1].slug
      BY <1>1, <3>1, LoadedOf
    <3>. QED
      BY <1>1, <2>1, <3>2
  <2>2. CASE h # p.hash
    <3>1. Claims(qs, h) = Claims(ps, h)
      BY <1>1, <2>2 DEF Claims
    <3>2. CASE Claims(ps, h) = {}
      <4>1. LoadedHashes(qs)[h] = NoSlug /\ LoadedHashes(ps)[h] = NoSlug
        BY <1>1, <3>1, <3>2, LoadedOf
      <4>. QED
        BY <2>2, <4>1
    <3>3. CASE Claims(ps, h) # {}
      <4>1. PICK k : Latest(ps, h, k)
        BY <3>3, LoadedOf
      <4>2. Latest(qs, h, k) /\ k \in 1 .. Len(ps)
        BY <3>1, <4>1 DEF Latest, Claims
      <4>3. LoadedHashes(qs)[h] = qs[k].slug /\ LoadedHashes(ps)[h] = ps[k].slug
        BY <1>1, <4>1, <4>2, LoadedOf
      <4>. QED
        BY <1>1, <2>2, <4>2, <4>3
    <3>. QED
      BY <3>2, <3>3
  <2>. QED
    BY <2>1, <2>2
<1>3. LoadedHashes(qs) = [h \in Hashes |-> LoadedHashes(qs)[h]]
  BY LoadedIsAMap
<1>. QED
  BY <1>2, <1>3

\* A pattern that had no hash takes one that nobody claims.
LEMMA JoinLoads ==
  ASSUME NEW ps \in Seq(Patterns), NEW i \in 1 .. Len(ps), NEW q \in Patterns,
         q.slug = ps[i].slug, q.hash # ps[i].hash => ps[i].hash = 0 /\ Claims(ps, q.hash) = {},
         NEW qs \in Seq(Patterns), Len(qs) = Len(ps),
         \A j \in 1 .. Len(ps) : qs[j] = IF j = i THEN q ELSE ps[j]
  PROVE  \A h \in Hashes :
           LoadedHashes(qs)[h] = IF q.hash # ps[i].hash /\ h = q.hash THEN q.slug
                                 ELSE LoadedHashes(ps)[h]
<1>1. /\ qs \in Seq(Patterns) /\ Len(qs) = Len(ps) /\ Len(ps) \in Nat /\ i \in Nat
      /\ \A j \in 1 .. Len(ps) : qs[j] = IF j = i THEN q ELSE ps[j]
  BY SeqHas
<1>2. ASSUME NEW h \in Hashes
      PROVE  LoadedHashes(qs)[h] = IF q.hash # ps[i].hash /\ h = q.hash THEN q.slug
                                   ELSE LoadedHashes(ps)[h]
  <2>0. h # 0
    BY FailureFacts
  <2>1. CASE q.hash # ps[i].hash /\ h = q.hash
    <3>1. Claims(qs, h) = {i}
      BY <1>1, <2>1 DEF Claims
    <3>2. Latest(qs, h, i)
      <4>1. i \in Claims(qs, h) /\ \A j \in Claims(qs, h) : j = i
        BY <3>1
      <4>2. i >= i
        BY <1>1
      <4>. QED
        BY <4>1, <4>2 DEF Latest
    <3>3. LoadedHashes(qs)[h] = qs[i].slug
      BY <1>1, <3>2, LoadedOf
    <3>. QED
      BY <1>1, <2>1, <3>3
  <2>2. CASE ~(q.hash # ps[i].hash /\ h = q.hash)
    <3>1. Claims(qs, h) = Claims(ps, h)
      <4>1. q.hash = h <=> ps[i].hash = h
        BY <2>0, <2>2
      <4>. QED
        BY <1>1, <4>1 DEF Claims
    <3>2. CASE Claims(ps, h) = {}
      <4>1. LoadedHashes(qs)[h] = NoSlug /\ LoadedHashes(ps)[h] = NoSlug
        BY <1>1, <3>1, <3>2, LoadedOf
      <4>. QED
        BY <2>2, <4>1
    <3>3. CASE Claims(ps, h) # {}
      <4>1. PICK k : Latest(ps, h, k)
        BY <3>3, LoadedOf
      <4>2. Latest(qs, h, k) /\ k \in 1 .. Len(ps)
        BY <3>1, <4>1 DEF Latest, Claims
      <4>3. LoadedHashes(qs)[h] = qs[k].slug /\ LoadedHashes(ps)[h] = ps[k].slug
        BY <1>1, <4>1, <4>2, LoadedOf
      <4>4. qs[k].slug = ps[k].slug
        BY <1>1, <4>2
      <4>. QED
        BY <2>2, <4>3, <4>4
    <3>. QED
      BY <3>2, <3>3
  <2>. QED
    BY <2>1, <2>2
<1>. QED
  BY <1>2

LEMMA JoinKeepsIndex ==
  ASSUME NEW ps, NEW us, NEW ids, IndexOk(ps, us, ids), NEW i \in 1 .. Len(ps),
         NEW x \in Nat, x \notin ids, NEW q \in Patterns, q.slug = ps[i].slug,
         q.message = ps[i].message, q.hash \in Hashes \cup {0}, q.ids = ps[i].ids \cup {x},
         NEW qs, qs = [ps EXCEPT ![i] = q]
  PROVE  IndexOk(qs, us, ids \cup {x})
<1>0. ps \in Seq(Patterns)
  BY DEF IndexOk, IndexTypes
<1>1. /\ qs \in Seq(Patterns) /\ Len(qs) = Len(ps)
      /\ \A j \in 1 .. Len(ps) : qs[j] = IF j = i THEN q ELSE ps[j]
  BY <1>0
<1>2. /\ \A j \in 1 .. Len(ps) : /\ qs[j].slug = ps[j].slug /\ qs[j].message = ps[j].message
                                 /\ qs[j].hash \in Hashes \cup {0}
                                 /\ ps[j].ids \subseteq qs[j].ids
                                 /\ \A y \in qs[j].ids : y \in ps[j].ids \/ (y = x /\ j = i)
      /\ x \in qs[i].ids
  BY <1>1 DEF IndexOk, IndexTypes
<1>3. IndexTypes(qs, us)
  BY <1>1, <1>2 DEF IndexOk, IndexTypes
<1>4. SlugsApart(qs)
  BY <1>1, <1>2 DEF IndexOk, SlugsApart
<1>5. Homes(qs, us, ids \cup {x})
  <2>1. \A y \in ids \cup {x} : \/ \E j \in 1 .. Len(qs) : y \in qs[j].ids
                                \/ \E d \in VDetectors : \E it \in us[d] : it.id = y
    BY <1>1, <1>2 DEF IndexOk, Homes
  <2>2. \A j \in 1 .. Len(qs) : qs[j].ids \subseteq ids \cup {x}
    BY <1>1, <1>2 DEF IndexOk, Homes
  <2>3. \A j \in 1 .. Len(ps) : x \notin ps[j].ids
    BY DEF IndexOk, Homes
  <2>4. \A j, k \in 1 .. Len(qs) : \A y \in qs[j].ids : y \in qs[k].ids => j = k
    BY <1>1, <1>2, <2>3 DEF IndexOk, Homes
  <2>5. \A d \in VDetectors : \A it \in us[d] : it.id \in ids \cup {x} /\ it.id # x
    BY DEF IndexOk, Homes
  <2>6. \A j \in 1 .. Len(qs) : \A d \in VDetectors : \A it \in us[d] : it.id \notin qs[j].ids
    BY <1>1, <1>2, <2>5 DEF IndexOk, Homes
  <2>7. \A d, e \in VDetectors : \A it \in us[d], ot \in us[e] : it.id = ot.id => d = e /\ it = ot
    BY DEF IndexOk, Homes
  <2>. QED
    BY <2>1, <2>2, <2>4, <2>5, <2>6, <2>7 DEF Homes
<1>. QED
  BY <1>3, <1>4, <1>5 DEF IndexOk

\* A bucket with the incident added, or without a cohort that it is of.
LEMMA WaitKeepsIndex ==
  ASSUME NEW ps, NEW us, NEW ids, IndexOk(ps, us, ids), NEW d \in VDetectors,
         NEW it \in Items, it.id \notin ids, it.hash \in Hashes \cup {0},
         NEW bucket, bucket = us[d] \cup {it}, Cardinality(bucket) < PatternThreshold,
         NEW vs, vs = [us EXCEPT ![d] = bucket]
  PROVE  IndexOk(ps, vs, ids \cup {it.id})
<1>1. /\ vs \in [VDetectors -> SUBSET Items] /\ vs[d] = us[d] \cup {it}
      /\ \A e \in VDetectors \ {d} : vs[e] = us[e]
  BY DEF IndexOk, IndexTypes
<1>2. IndexTypes(ps, vs)
  <2>1. IsFiniteSet(us[d] \cup {it})
    BY FS_AddElement DEF IndexOk, IndexTypes
  <2>. QED
    BY <1>1, <2>1 DEF IndexOk, IndexTypes
<1>3. \A e \in VDetectors : \A ot \in vs[e] : ot \in us[e] \/ (e = d /\ ot = it)
  BY <1>1
<1>4. \A e \in VDetectors : \A ot \in us[e] : ot \in vs[e] /\ ot.id # it.id
  BY <1>1 DEF IndexOk, Homes
<1>5. it \in vs[d] /\ \A i \in 1 .. Len(ps) : it.id \notin ps[i].ids
  BY <1>1 DEF IndexOk, Homes
<1>6. Homes(ps, vs, ids \cup {it.id})
  <2>1. \A x \in ids \cup {it.id} : \/ \E i \in 1 .. Len(ps) : x \in ps[i].ids
                                    \/ \E e \in VDetectors : \E ot \in vs[e] : ot.id = x
    BY <1>4, <1>5 DEF IndexOk, Homes
  <2>2. \A i \in 1 .. Len(ps) : ps[i].ids \subseteq ids \cup {it.id}
    BY DEF IndexOk, Homes
  <2>3. \A e \in VDetectors : \A ot \in vs[e] : ot.id \in ids \cup {it.id}
    BY <1>3 DEF IndexOk, Homes
  <2>4. \A e, g \in VDetectors : \A ot \in vs[e], pt \in vs[g] : ot.id = pt.id => e = g /\ ot = pt
    BY <1>3, <1>4 DEF IndexOk, Homes
  <2>5. \A i \in 1 .. Len(ps) : \A e \in VDetectors : \A ot \in vs[e] : ot.id \notin ps[i].ids
    BY <1>3, <1>5 DEF IndexOk, Homes
  <2>6. \A i, j \in 1 .. Len(ps) : \A x \in ps[i].ids : x \in ps[j].ids => i = j
    BY DEF IndexOk, Homes
  <2>. QED
    BY <2>1, <2>2, <2>3, <2>4, <2>5, <2>6 DEF Homes
<1>. QED
  BY <1>2, <1>6 DEF IndexOk

LEMMA PromoteKeepsIndex ==
  ASSUME NEW ps, NEW us, NEW ids, IndexOk(ps, us, ids), NEW d \in VDetectors,
         NEW it \in Items, it.id \notin ids,
         NEW bucket, bucket = us[d] \cup {it}, NEW cohort \in SUBSET bucket, it \in cohort,
         NEW p \in Patterns, p.ids = {ot.id : ot \in cohort}, p.hash \in Hashes \cup {0},
         p.message \in Messages, p.slug[2] = 1, p.slug[3] \in {0, p.message},
         \A i \in 1 .. Len(ps) : ps[i].slug # p.slug,
         NEW vs, vs = [us EXCEPT ![d] = bucket \ cohort], NEW qs, qs = Append(ps, p)
  PROVE  IndexOk(qs, vs, ids \cup {it.id})
<1>0. ps \in Seq(Patterns)
  BY DEF IndexOk, IndexTypes
<1>1. /\ vs \in [VDetectors -> SUBSET Items] /\ vs[d] = us[d] \ cohort
      /\ \A e \in VDetectors \ {d} : vs[e] = us[e]
  BY DEF IndexOk, IndexTypes
<1>2. /\ qs \in Seq(Patterns) /\ Len(qs) = Len(ps) + 1 /\ Len(ps) \in Nat
      /\ \A i \in 1 .. Len(ps) : qs[i] = ps[i]
      /\ qs[Len(ps) + 1] = p
  BY <1>0, AppendHas, SeqHas
<1>3. \A i \in 1 .. Len(qs) : \/ i \in 1 .. Len(ps) /\ qs[i] = ps[i]
                              \/ i = Len(ps) + 1 /\ qs[i] = p
  BY <1>2
<1>4. IndexTypes(qs, vs)
  <2>1. \A i \in 1 .. Len(qs) : qs[i].hash \in Hashes \cup {0}
    BY <1>3 DEF IndexOk, IndexTypes
  <2>2. IsFiniteSet(us[d] \ cohort) /\ Cardinality(us[d] \ cohort) < PatternThreshold
    <3>1. us[d] \ cohort \in SUBSET us[d] /\ IsFiniteSet(us[d])
      BY DEF IndexOk, IndexTypes
    <3>2. /\ IsFiniteSet(us[d] \ cohort) /\ Cardinality(us[d] \ cohort) <= Cardinality(us[d])
          /\ Cardinality(us[d]) \in Nat /\ Cardinality(us[d] \ cohort) \in Nat
      BY <3>1, FS_Subset, FS_CardinalityType
    <3>3. Cardinality(us[d]) < PatternThreshold
      BY DEF IndexOk, IndexTypes
    <3>. QED
      BY <3>2, <3>3, VaultAssumption
  <2>. QED
    BY <1>1, <1>2, <2>1, <2>2 DEF IndexOk, IndexTypes
<1>5. SlugsApart(qs)
  <2>1. \A i \in 1 .. Len(qs) : /\ qs[i].message \in Messages
                                /\ qs[i].slug[2] = 1 /\ qs[i].slug[3] \in {0, qs[i].message}
    BY <1>3 DEF IndexOk, SlugsApart
  <2>2. \A i, j \in 1 .. Len(qs) : qs[i].slug = qs[j].slug => i = j
    BY <1>3 DEF IndexOk, SlugsApart
  <2>. QED
    BY <2>1, <2>2 DEF SlugsApart
<1>6. \A e \in VDetectors : \A ot \in vs[e] : ot \in us[e] /\ ot \notin cohort
  <2>1. ASSUME NEW e \in VDetectors, NEW ot \in vs[e] PROVE ot \in us[e] /\ ot \notin cohort
    <3>1. CASE e = d
      BY <1>1, <2>1, <3>1
    <3>2. CASE e # d
      <4>1. ot \in us[e]
        BY <1>1, <2>1, <3>2
      <4>2. ot \notin us[d] /\ ot # it
        BY <2>1, <3>2, <4>1 DEF IndexOk, Homes
      <4>. QED
        BY <4>1, <4>2
    <3>. QED
      BY <3>1, <3>2
  <2>. QED
    BY <2>1
<1>7. \A ot \in cohort : ot = it \/ ot \in us[d]
  OBVIOUS
<1>8. Homes(qs, vs, ids \cup {it.id})
  <2>1. ASSUME NEW x \in ids \cup {it.id}
        PROVE  \/ \E i \in 1 .. Len(qs) : x \in qs[i].ids
               \/ \E e \in VDetectors : \E ot \in vs[e] : ot.id = x
    <3>1. CASE x \in p.ids
      BY <1>2, <3>1
    <3>2. CASE \E i \in 1 .. Len(ps) : x \in ps[i].ids
      BY <1>2, <3>2
    <3>3. CASE x \notin p.ids /\ \E e \in VDetectors : \E ot \in us[e] : ot.id = x
      <4>1. PICK e \in VDetectors : \E ot \in us[e] : ot.id = x
        BY <3>3
      <4>2. PICK ot \in us[e] : ot.id = x
        BY <4>1
      <4>3. ot \notin cohort
        BY <3>3, <4>2
      <4>4. ot \in vs[e]
        BY <1>1, <4>3
      <4>. QED
        BY <4>2, <4>4
    <3>4. it.id \in p.ids
      OBVIOUS
    <3>. QED
      BY <2>1, <3>1, <3>2, <3>3, <3>4 DEF IndexOk, Homes
  <2>2. \A x \in p.ids : x \in ids \cup {it.id}
    BY <1>7 DEF IndexOk, Homes
  <2>3. \A i \in 1 .. Len(qs) : qs[i].ids \subseteq ids \cup {it.id}
    BY <1>3, <2>2 DEF IndexOk, Homes
  <2>4. \A e \in VDetectors : \A ot \in vs[e] : ot.id \in ids \cup {it.id}
    BY <1>6 DEF IndexOk, Homes
  <2>5. \A i \in 1 .. Len(ps) : \A x \in p.ids : x \notin ps[i].ids
    BY <1>7 DEF IndexOk, Homes
  <2>6. \A i, j \in 1 .. Len(qs) : \A x \in qs[i].ids : x \in qs[j].ids => i = j
    <3>1. \A i, j \in 1 .. Len(ps) : \A x \in ps[i].ids : x \in ps[j].ids => i = j
      BY DEF IndexOk, Homes
    <3>. QED
      BY <1>3, <2>5, <3>1
  <2>7. \A e, g \in VDetectors : \A ot \in vs[e], pt \in vs[g] : ot.id = pt.id => e = g /\ ot = pt
    BY <1>6 DEF IndexOk, Homes
  <2>8. ASSUME NEW e \in VDetectors, NEW ot \in vs[e] PROVE ot.id \notin p.ids
    <3>1. ot \in us[e] /\ ot \notin cohort
      BY <1>6, <2>8
    <3>2. ASSUME NEW pt \in cohort, pt.id = ot.id PROVE FALSE
      <4>1. CASE pt = it
        BY <3>1, <3>2, <4>1 DEF IndexOk, Homes
      <4>2. CASE pt \in us[d]
        <5>1. pt = ot
          BY <3>1, <3>2, <4>2 DEF IndexOk, Homes
        <5>. QED
          BY <3>1, <3>2, <5>1
      <4>. QED
        BY <1>7, <3>2, <4>1, <4>2
    <3>. QED
      BY <3>2
  <2>9. \A i \in 1 .. Len(qs) : \A e \in VDetectors : \A ot \in vs[e] : ot.id \notin qs[i].ids
    BY <1>3, <1>6, <2>8 DEF IndexOk, Homes
  <2>. QED
    BY <2>1, <2>3, <2>4, <2>6, <2>7, <2>9 DEF Homes
<1>. QED
  BY <1>4, <1>5, <1>8 DEF IndexOk

\* An incident the index has taken is in it once.
LEMMA HeldOnce ==
  ASSUME NEW ids, IndexOk(grouped, ungrouped, ids), NEW x \in ids
  PROVE  Holdings(x) = 1
<1>. DEFINE A == {i \in 1 .. Len(grouped) : x \in grouped[i].ids}
            B == {d \in VDetectors : \E it \in ungrouped[d] : it.id = x}
<1>1. \/ B = {} /\ \E i : A = {i}
      \/ A = {} /\ \E d : B = {d}
  <2>1. CASE \E i \in 1 .. Len(grouped) : x \in grouped[i].ids
    <3>1. PICK i \in 1 .. Len(grouped) : x \in grouped[i].ids
      BY <2>1
    <3>2. A = {i} /\ B = {}
      BY <3>1 DEF IndexOk, Homes
    <3>. QED
      BY <3>2
  <2>2. CASE \E d \in VDetectors : \E it \in ungrouped[d] : it.id = x
    <3>1. PICK d \in VDetectors : \E it \in ungrouped[d] : it.id = x
      BY <2>2
    <3>2. B = {d} /\ A = {}
      BY <3>1 DEF IndexOk, Homes
    <3>. QED
      BY <3>2
  <2>. QED
    BY <2>1, <2>2 DEF IndexOk, Homes
<1>2. Holdings(x) = Cardinality(A) + Cardinality(B)
  BY DEF Holdings
<1>3. Cardinality({}) = 0 /\ \A y : Cardinality({y}) = 1
  BY FS_EmptySet, FS_Singleton
<1>. HIDE DEF A, B
<1>. QED
  BY <1>1, <1>2, <1>3

-----------------------------------------------------------------------------
\* What the vault has left to write.
Keys   == Nat \cup VDetectors \cup (VDetectors \X Nat \X Nat)
Notes  == NoteKinds \X Keys
Writes == [op : {"write", "link", "pattern", "narrate"}, note : Notes, from : Notes]

\* A list is given a note that is there, or that is written before; a pattern is one of
\* those the index has saved.
CallOk(c, there, named) ==
  /\ c \in Seq(Writes) /\ c # <<>>
  /\ \A k \in 1 .. Len(c) :
       /\ c[k].op = "link" =>
            /\ c[k].from[1] # "pattern"
            /\ \/ c[k].note \in there
               \/ \E j \in 1 .. k - 1 : c[j].op = "write" /\ c[j].note = c[k].note
       /\ c[k].op = "pattern" => c[k].note \in named

WorkOk(w, there, named) ==
  /\ w \in Seq(Seq(Writes))
  /\ \A g \in 1 .. Len(w) : CallOk(w[g], there, named)

LEMMA CallGrows ==
  ASSUME NEW c, NEW there, NEW more, NEW named, CallOk(c, there, named), there \subseteq more
  PROVE  CallOk(c, more, named)
  BY DEF CallOk

\* The rest of a call, after a write that went through or one that others need not.
LEMMA CallShrinks ==
  ASSUME NEW c, NEW there, NEW more, NEW named, CallOk(c, there, named), there \subseteq more,
         c[1].op = "write" => c[1].note \in more, Len(c) # 1, NEW t, t = Tail(c)
  PROVE  CallOk(t, more, named)
<1>0. c \in Seq(Writes) /\ c # <<>>
  BY DEF CallOk
<1>1. /\ t \in Seq(Writes) /\ Len(t) = Len(c) - 1 /\ Len(c) \in Nat \ {0}
      /\ \A i \in 1 .. Len(c) - 1 : t[i] = c[i + 1]
  BY <1>0, TailHas
<1>2. t # <<>>
  <2>1. Len(t) # 0
    BY <1>1
  <2>. QED
    BY <2>1
<1>3. ASSUME NEW k \in 1 .. Len(t)
      PROVE  /\ t[k].op = "link" =>
                  /\ t[k].from[1] # "pattern"
                  /\ \/ t[k].note \in more
                     \/ \E j \in 1 .. k - 1 : t[j].op = "write" /\ t[j].note = t[k].note
             /\ t[k].op = "pattern" => t[k].note \in named
  <2>1. k \in Nat /\ k >= 1 /\ k + 1 \in 1 .. Len(c) /\ t[k] = c[k + 1]
    BY <1>1
  <2>2. /\ t[k].op = "pattern" => t[k].note \in named
        /\ t[k].op = "link" => t[k].from[1] # "pattern"
    BY <2>1 DEF CallOk
  <2>3. ASSUME t[k].op = "link", t[k].note \notin more
        PROVE  \E j \in 1 .. k - 1 : t[j].op = "write" /\ t[j].note = t[k].note
    <3>1. PICK j \in 1 .. (k + 1) - 1 : c[j].op = "write" /\ c[j].note = c[k + 1].note
      BY <2>1, <2>3 DEF CallOk
    <3>2. j # 1
      BY <2>1, <2>3, <3>1
    <3>3. j - 1 \in 1 .. k - 1 /\ j - 1 \in 1 .. Len(c) - 1 /\ (j - 1) + 1 = j
      BY <1>1, <2>1, <3>1, <3>2
    <3>4. t[j - 1] = c[j]
      BY <1>1, <3>3
    <3>. QED
      BY <2>1, <3>1, <3>3, <3>4
  <2>. QED
    BY <2>2, <2>3
<1>. QED
  BY <1>1, <1>2, <1>3 DEF CallOk

LEMMA WorkShrinks ==
  ASSUME NEW w, NEW there, NEW more, NEW named, WorkOk(w, there, named), w # <<>>,
         there \subseteq more, NEW t, t = Tail(w)
  PROVE  WorkOk(t, more, named)
<1>0. w \in Seq(Seq(Writes))
  BY DEF WorkOk
<1>1. /\ t \in Seq(Seq(Writes)) /\ Len(t) = Len(w) - 1 /\ Len(w) \in Nat \ {0}
      /\ \A i \in 1 .. Len(w) - 1 : t[i] = w[i + 1]
  BY <1>0, TailHas
<1>2. \A g \in 1 .. Len(t) : t[g] = w[g + 1] /\ g + 1 \in 1 .. Len(w)
  BY <1>1
<1>3. \A g \in 1 .. Len(t) : CallOk(t[g], more, named)
  BY <1>2, CallGrows DEF WorkOk
<1>. QED
  BY <1>1, <1>3 DEF WorkOk

LEMMA WorkGoesOn ==
  ASSUME NEW w, NEW there, NEW more, NEW named, WorkOk(w, there, named), w # <<>>,
         there \subseteq more, w[1][1].op = "write" => w[1][1].note \in more,
         NEW t, t = IF Len(Head(w)) = 1 THEN Tail(w) ELSE [w EXCEPT ![1] = Tail(@)]
  PROVE  WorkOk(t, more, named)
<1>0. w \in Seq(Seq(Writes)) /\ Len(w) \in Nat \ {0} /\ Head(w) = w[1] /\ 1 \in 1 .. Len(w)
  BY TailHas DEF WorkOk
<1>1. CASE Len(Head(w)) = 1
  BY <1>1, WorkShrinks
<1>2. CASE Len(Head(w)) # 1
  <2>1. CallOk(w[1], there, named)
    BY <1>0 DEF WorkOk
  <2>2. CallOk(Tail(w[1]), more, named)
    BY <1>0, <1>2, <2>1, CallShrinks
  <2>3. Tail(w[1]) \in Seq(Writes)
    BY <2>2 DEF CallOk
  <2>4. t = [w EXCEPT ![1] = Tail(w[1])]
    BY <1>2
  <2>5. /\ t \in Seq(Seq(Writes)) /\ Len(t) = Len(w)
        /\ \A g \in 1 .. Len(w) : t[g] = IF g = 1 THEN Tail(w[1]) ELSE w[g]
    BY <1>0, <2>3, <2>4
  <2>6. \A g \in 1 .. Len(t) : CallOk(t[g], more, named)
    BY <2>2, <2>5, CallGrows DEF WorkOk
  <2>. QED
    BY <2>5, <2>6 DEF WorkOk
<1>. QED
  BY <1>1, <1>2

\* The calls the monitor makes.
LEMMA CallsAreOk ==
  ASSUME NEW there, NEW named, NEW n \in Notes, NEW a \in Notes, a[1] # "pattern"
  PROVE  /\ CallOk(<<Write(n)>>, there, named) /\ CallOk(<<Narrate(n)>>, there, named)
         /\ CallOk(<<Write(n), LinkTo(a, n)>>, there, named)
         /\ CallOk(RecordWithStory(n), there, named)
<1>1. Write(n) \in Writes /\ Narrate(n) \in Writes /\ LinkTo(a, n) \in Writes
  BY DEF Writes, Write, Narrate, LinkTo
<1>2. /\ Write(n).op = "write" /\ Write(n).note = n /\ Narrate(n).op = "narrate"
      /\ LinkTo(a, n).op = "link" /\ LinkTo(a, n).note = n /\ LinkTo(a, n).from = a
  BY DEF Write, Narrate, LinkTo
<1>3. CallOk(<<Write(n)>>, there, named) /\ CallOk(<<Narrate(n)>>, there, named)
  BY <1>1, <1>2 DEF CallOk
<1>4. CallOk(<<Write(n), LinkTo(a, n)>>, there, named)
  <2>. DEFINE c == <<Write(n), LinkTo(a, n)>>
  <2>1. c \in Seq(Writes) /\ Len(c) = 2 /\ c[1] = Write(n) /\ c[2] = LinkTo(a, n) /\ c # <<>>
    BY <1>1
  <2>. HIDE DEF c
  <2>2. \A k \in 1 .. Len(c) : k = 1 \/ (k = 2 /\ 1 \in 1 .. k - 1)
    BY <2>1
  <2>3. /\ c[1].op = "write" /\ c[1].note = n /\ c[2].op = "link" /\ c[2].note = n
        /\ c[2].from[1] # "pattern"
    BY <1>2, <2>1
  <2>4. ASSUME NEW k \in 1 .. Len(c)
        PROVE  /\ c[k].op = "link" =>
                    /\ c[k].from[1] # "pattern"
                    /\ \E j \in 1 .. k - 1 : c[j].op = "write" /\ c[j].note = c[k].note
               /\ c[k].op # "pattern"
    <3>1. CASE k = 1
      BY <2>3, <3>1
    <3>2. CASE k = 2 /\ 1 \in 1 .. k - 1
      BY <2>3, <3>2
    <3>. QED
      BY <2>2, <3>1, <3>2
  <2>. QED
    BY <2>1, <2>4 DEF CallOk
<1>5. CallOk(RecordWithStory(n), there, named)
  BY <1>1, <1>2 DEF CallOk, RecordWithStory
<1>. QED
  BY <1>3, <1>4, <1>5

LEMMA PatternCallIsOk ==
  ASSUME NEW there, NEW named, NEW s, <<"pattern", s>> \in Notes, <<"pattern", s>> \in named
  PROVE  CallOk(RecordPattern(s), there, named)
<1>. DEFINE o == [op |-> "pattern", note |-> <<"pattern", s>>, from |-> <<"pattern", s>>]
<1>1. o \in Writes /\ o.op = "pattern" /\ o.note = <<"pattern", s>>
  BY DEF Writes
<1>2. RecordPattern(s) = <<o>>
  BY DEF RecordPattern
<1>. HIDE DEF o
<1>3. \A k \in 1 .. Len(<<o>>) : <<o>>[k] = o
  OBVIOUS
<1>4. <<o>> \in Seq(Writes) /\ <<o>> # <<>>
  BY <1>1
<1>5. CallOk(<<o>>, there, named)
  BY <1>1, <1>3, <1>4 DEF CallOk
<1>. QED
  BY <1>2, <1>5

LEMMA IncidentCallIsOk ==
  ASSUME NEW there, NEW named, NEW x \in Nat, NEW d \in VDetectors
  PROVE  CallOk(RecordIncident(x, d), there, named)
<1>. DEFINE n == <<"incident", x>>
            e == <<"detector", d>>
            c == <<Write(n), Write(e), LinkTo(e, n), LinkTo(TheRun, n)>>
<1>1. n \in Notes /\ e \in Notes /\ TheRun \in Notes /\ e[1] # "pattern" /\ TheRun[1] # "pattern"
  BY DEF Notes, NoteKinds, Keys, TheRun
<1>2. RecordIncident(x, d) = c
  BY DEF RecordIncident
<1>. HIDE DEF n, e
<1>3. /\ Write(n) \in Writes /\ Write(e) \in Writes
      /\ LinkTo(e, n) \in Writes /\ LinkTo(TheRun, n) \in Writes
  BY <1>1 DEF Writes, Write, LinkTo
<1>4. /\ Write(n).op = "write" /\ Write(n).note = n /\ Write(e).op = "write"
      /\ LinkTo(e, n).op = "link" /\ LinkTo(e, n).note = n /\ LinkTo(e, n).from = e
      /\ LinkTo(TheRun, n).op = "link" /\ LinkTo(TheRun, n).note = n /\ LinkTo(TheRun, n).from = TheRun
  BY DEF Write, LinkTo
<1>5. /\ c \in Seq(Writes) /\ Len(c) = 4 /\ c # <<>>
      /\ c[1] = Write(n) /\ c[2] = Write(e) /\ c[3] = LinkTo(e, n) /\ c[4] = LinkTo(TheRun, n)
  BY <1>3
<1>. HIDE DEF c
<1>6. \A k \in 1 .. Len(c) : k \in {1, 2} \/ (k \in {3, 4} /\ 1 \in 1 .. k - 1)
  BY <1>5
<1>7. CallOk(c, there, named)
  BY <1>1, <1>4, <1>5, <1>6 DEF CallOk
<1>. QED
  BY <1>2, <1>7

LEMMA WorkOfCalls ==
  ASSUME NEW there, NEW named
  PROVE  /\ WorkOk(<<>>, there, named)
         /\ \A a : CallOk(a, there, named) => WorkOk(<<a>>, there, named)
         /\ \A a, b : CallOk(a, there, named) /\ CallOk(b, there, named)
                        => WorkOk(<<a, b>>, there, named)
         /\ \A a, b, c : CallOk(a, there, named) /\ CallOk(b, there, named)
                           /\ CallOk(c, there, named) => WorkOk(<<a, b, c>>, there, named)
<1>0. \A a : CallOk(a, there, named) => a \in Seq(Writes)
  BY DEF CallOk
<1>1. WorkOk(<<>>, there, named)
  BY DEF WorkOk
<1>2. ASSUME NEW a, CallOk(a, there, named) PROVE WorkOk(<<a>>, there, named)
  <2>1. <<a>> \in Seq(Seq(Writes)) /\ \A g \in 1 .. Len(<<a>>) : <<a>>[g] = a
    BY <1>0, <1>2
  <2>. QED
    BY <1>2, <2>1 DEF WorkOk
<1>3. ASSUME NEW a, NEW b, CallOk(a, there, named), CallOk(b, there, named)
      PROVE  WorkOk(<<a, b>>, there, named)
  <2>1. <<a, b>> \in Seq(Seq(Writes)) /\ \A g \in 1 .. Len(<<a, b>>) : <<a, b>>[g] \in {a, b}
    BY <1>0, <1>3
  <2>. QED
    BY <1>3, <2>1 DEF WorkOk
<1>4. ASSUME NEW a, NEW b, NEW c, CallOk(a, there, named), CallOk(b, there, named),
             CallOk(c, there, named)
      PROVE  WorkOk(<<a, b, c>>, there, named)
  <2>1. /\ <<a, b, c>> \in Seq(Seq(Writes))
        /\ \A g \in 1 .. Len(<<a, b, c>>) : <<a, b, c>>[g] \in {a, b, c}
    BY <1>0, <1>4
  <2>. QED
    BY <1>4, <2>1 DEF WorkOk
<1>. QED
  BY <1>1, <1>2, <1>3, <1>4

-----------------------------------------------------------------------------
\* The pattern notes there may be: none while the file is behind the index.
Named == IF held.file = held.index THEN {<<"pattern", grouped[i].slug>> : i \in 1 .. Len(grouped)}
         ELSE {}

\* The index in memory and the one in the file are each sound by themselves, for it is
\* the second that a restart goes on with.
VaultIndexInv ==
  /\ IndexOk(grouped, ungrouped, held.index) /\ IndexOk(saved.grouped, saved.ungrouped, held.file)
  /\ byHash = LoadedHashes(grouped)
  /\ synced => saved.grouped = grouped /\ saved.ungrouped = ungrouped
  /\ held = [index |-> held.index, file |-> held.file]
  /\ fired \in 0 .. MaxVaultIncidents /\ held.file \subseteq held.index /\ held.index \subseteq 1 .. fired

VaultNoteInv ==
  /\ \A n \in notes : n[1] \in NoteKinds
  /\ NotesBehindIndex /\ LinksResolve
  /\ tried \in [Fired -> {"none", "open", "over"}]
  /\ status \in [Fired -> {"none", "pending", "resolved"}]
  /\ prose \subseteq narrated \cap notes
  /\ children \in 0 .. MaxVaultChildren

VaultInv == VaultIndexInv /\ VaultNoteInv /\ WorkOk(work, notes, Named)

LEMMA VaultInitially == VaultInit => VaultInv
<1>. SUFFICES ASSUME VaultInit PROVE VaultInv
  OBVIOUS
<1>. USE VaultAssumption DEF VaultInit
<1>1. LoadedHashes(<<>>) = [h \in Hashes |-> NoSlug]
  <2>1. <<>> \in Seq(Patterns) /\ \A h \in Hashes : Claims(<<>>, h) = {}
    BY DEF Claims
  <2>2. \A h \in Hashes : LoadedHashes(<<>>)[h] = NoSlug
    BY <2>1, LoadedOf
  <2>. QED
    BY <2>2, LoadedIsAMap
<1>2. VaultIndexInv
  BY <1>1, NothingIsIndexed DEF VaultIndexInv
<1>3. VaultNoteInv
  BY DEF VaultNoteInv, NotesBehindIndex, LinksResolve
<1>4. WorkOk(work, notes, Named)
  BY WorkOfCalls
<1>. QED
  BY <1>2, <1>3, <1>4 DEF VaultInv

LEMMA MatchGives ==
  ASSUME VaultIndexInv, NEW f \in Failures, NEW m, m = Match(f)
  PROVE  /\ f.hash # 0 => \/ Claims(grouped, f.hash) = {}
                          \/ m \in 1 .. Len(grouped) /\ grouped[m].hash = f.hash
         /\ \/ m \in 1 .. Len(grouped)
            \/ /\ m = 0
               /\ \A i \in 1 .. Len(grouped) :
                    ~(grouped[i].slug[1] = f.detector /\ Similar(grouped[i].message, f.message))
         /\ m # 0 => m \in 1 .. Len(grouped)
<1>0. /\ grouped \in Seq(Patterns) /\ Len(grouped) \in Nat
      /\ IndexOk(grouped, ungrouped, held.index) /\ byHash = LoadedHashes(grouped)
  BY SeqHas DEF VaultIndexInv, IndexOk, IndexTypes
<1>. DEFINE like == {i \in 1 .. Len(grouped) : /\ grouped[i].slug[1] = f.detector
                                              /\ Similar(grouped[i].message, f.message)}
<1>1. ASSUME f.hash # 0, Claims(grouped, f.hash) # {}
      PROVE  m \in 1 .. Len(grouped) /\ grouped[m].hash = f.hash
  <2>1. f.hash \in Hashes
    BY <1>1, FailureFacts
  <2>2. PICK k : Latest(grouped, f.hash, k)
    BY <1>0, <1>1, <2>1, LoadedOf
  <2>3. k \in 1 .. Len(grouped) /\ grouped[k].hash = f.hash
    BY <2>2 DEF Latest, Claims
  <2>4. byHash[f.hash] = grouped[k].slug
    BY <1>0, <2>1, <2>2, LoadedOf
  <2>5. grouped[k].slug[2] = 1
    BY <1>0, <2>3 DEF IndexOk, SlugsApart
  <2>6. byHash[f.hash] # NoSlug
    BY <2>4, <2>5 DEF NoSlug
  <2>7. m = CHOOSE i \in 1 .. Len(grouped) : grouped[i].slug = byHash[f.hash]
    BY <1>1, <2>6 DEF Match
  <2>8. m \in 1 .. Len(grouped) /\ grouped[m].slug = byHash[f.hash]
    BY <2>3, <2>4, <2>7
  <2>9. m = k
    BY <1>0, <2>3, <2>4, <2>8 DEF IndexOk, SlugsApart
  <2>. QED
    BY <2>3, <2>9
<1>2. ASSUME f.hash # 0 => Claims(grouped, f.hash) = {}
      PROVE  IF like = {} THEN m = 0 ELSE m \in like
  <2>1. f.hash # 0 => byHash[f.hash] = NoSlug
    <3>1. f.hash # 0 => f.hash \in Hashes
      BY FailureFacts
    <3>. QED
      BY <1>0, <1>2, <3>1, LoadedOf
  <2>2. m = IF like = {} THEN 0 ELSE CHOOSE i \in like : \A j \in like : i <= j
    BY <2>1 DEF Match
  <2>3. CASE like # {}
    <3>1. like \in SUBSET Nat
      BY <1>0
    <3>2. \E i \in like : \A j \in like : i <= j
      BY <2>3, <3>1, LeastOf
    <3>. HIDE DEF like
    <3>. QED
      BY <2>2, <2>3, <3>2
  <2>. HIDE DEF like
  <2>. QED
    BY <2>2, <2>3
<1>3. 0 \notin 1 .. Len(grouped) /\ like \subseteq 1 .. Len(grouped)
  OBVIOUS
<1>4. like = {} => \A i \in 1 .. Len(grouped) :
        ~(grouped[i].slug[1] = f.detector /\ Similar(grouped[i].message, f.message))
  OBVIOUS
<1>. HIDE DEF like
<1>5. CASE f.hash # 0 /\ Claims(grouped, f.hash) # {}
  BY <1>1, <1>3, <1>5
<1>6. CASE ~(f.hash # 0 /\ Claims(grouped, f.hash) # {})
  <2>1. CASE like = {}
    BY <1>2, <1>4, <1>6, <2>1
  <2>2. CASE like # {}
    BY <1>2, <1>3, <1>6, <2>2
  <2>. QED
    BY <2>1, <2>2
<1>. QED
  BY <1>5, <1>6

\* An incident that joins a pattern, or waits, leaves a sound index.
LEMMA JoinClassifies ==
  ASSUME VaultIndexInv, NEW f \in Failures, NEW x \in Nat, x \notin held.index,
         NEW i \in 1 .. Len(grouped), Join(i, f, x),
         f.hash # 0 => Claims(grouped, f.hash) = {} \/ grouped[i].hash = f.hash
  PROVE  /\ IndexOk(grouped', ungrouped', held.index \cup {x})
         /\ byHash' = LoadedHashes(grouped')
<1>0. /\ grouped \in Seq(Patterns) /\ IndexOk(grouped, ungrouped, held.index)
      /\ byHash = LoadedHashes(grouped)
  BY DEF VaultIndexInv, IndexOk, IndexTypes
<1>1. PICK p : p = grouped[i]
  OBVIOUS
<1>2. /\ p \in Patterns /\ p.hash \in Hashes \cup {0} /\ f.hash \in Hashes \cup {0}
  BY <1>0, <1>1, SeqHas, FailureFacts DEF IndexOk, IndexTypes
<1>3. PICK q : q = [p EXCEPT !.ids = @ \cup {x}, !.hash = IF p.hash = 0 THEN f.hash ELSE p.hash]
  OBVIOUS
<1>4. q = [slug |-> p.slug, message |-> p.message,
           hash |-> IF p.hash = 0 THEN f.hash ELSE p.hash, ids |-> p.ids \cup {x}]
  BY <1>2, <1>3 DEF Patterns
<1>5. /\ q \in Patterns /\ q.slug = p.slug /\ q.message = p.message /\ q.ids = p.ids \cup {x}
      /\ q.hash = (IF p.hash = 0 THEN f.hash ELSE p.hash) /\ q.hash \in Hashes \cup {0}
  <2>1. f.hash \in Nat
    BY <1>2, FailureFacts
  <2>2. p = [slug |-> p.slug, message |-> p.message, hash |-> p.hash, ids |-> p.ids]
        /\ p.slug \in VDetectors \X Nat \X Nat /\ p.message \in Nat /\ p.hash \in Nat
        /\ p.ids \in SUBSET Nat
    BY <1>2 DEF Patterns
  <2>3. p.ids \cup {x} \in SUBSET Nat
    BY <2>2
  <2>4. (IF p.hash = 0 THEN f.hash ELSE p.hash) \in Nat
    BY <2>1, <2>2
  <2>5. q \in Patterns
    BY <1>4, <2>2, <2>3, <2>4 DEF Patterns
  <2>. QED
    BY <1>2, <1>4, <2>5
<1>6. grouped' = [grouped EXCEPT ![i] = q] /\ ungrouped' = ungrouped
  BY <1>1, <1>3 DEF Join
<1>7. IndexOk(grouped', ungrouped', held.index \cup {x})
  BY <1>0, <1>1, <1>5, <1>6, JoinKeepsIndex
<1>8. q.hash # p.hash => p.hash = 0 /\ q.hash = f.hash /\ Claims(grouped, q.hash) = {}
  BY <1>1, <1>5
<1>9. LoadedHashes(grouped') =
        [h \in Hashes |-> IF q.hash # p.hash /\ h = q.hash THEN q.slug ELSE byHash[h]]
  <2>1. q.slug = grouped[i].slug /\ q \in Patterns
    BY <1>1, <1>5
  <2>2. q.hash # grouped[i].hash => grouped[i].hash = 0 /\ Claims(grouped, q.hash) = {}
    BY <1>1, <1>8
  <2>3. PICK qs : qs = grouped'
    OBVIOUS
  <2>4. /\ qs \in Seq(Patterns) /\ Len(qs) = Len(grouped)
        /\ \A j \in 1 .. Len(grouped) : qs[j] = IF j = i THEN q ELSE grouped[j]
    BY <1>0, <1>6, <2>1, <2>3
  <2>5. \A h \in Hashes :
          LoadedHashes(qs)[h] = IF q.hash # grouped[i].hash /\ h = q.hash THEN q.slug
                                ELSE LoadedHashes(grouped)[h]
    BY <1>0, <2>1, <2>2, <2>4, JoinLoads
  <2>6. LoadedHashes(qs) = [h \in Hashes |-> LoadedHashes(qs)[h]]
    BY LoadedIsAMap
  <2>. QED
    BY <1>0, <1>1, <2>3, <2>5, <2>6
<1>10. byHash' = IF p.hash = 0 /\ f.hash # 0 THEN [byHash EXCEPT ![f.hash] = p.slug] ELSE byHash
  BY <1>1 DEF Join, WithHash
<1>11. byHash = [h \in Hashes |-> byHash[h]]
  BY <1>0, LoadedIsAMap
<1>12. CASE q.hash # p.hash
  <2>1. p.hash = 0 /\ f.hash # 0 /\ f.hash \in Hashes /\ q.hash = f.hash
    BY <1>2, <1>5, <1>8, <1>12
  <2>2. byHash' = [h \in Hashes |-> IF h = f.hash THEN p.slug ELSE byHash[h]]
    BY <1>10, <1>11, <2>1
  <2>3. LoadedHashes(grouped') = [h \in Hashes |-> IF h = f.hash THEN p.slug ELSE byHash[h]]
    BY <1>5, <1>9, <1>12, <2>1
  <2>. QED
    BY <1>7, <2>2, <2>3
<1>13. CASE q.hash = p.hash
  <2>1. byHash' = byHash
    BY <1>5, <1>10, <1>13
  <2>2. LoadedHashes(grouped') = [h \in Hashes |-> byHash[h]]
    BY <1>9, <1>13
  <2>. QED
    BY <1>7, <1>11, <2>1, <2>2
<1>. QED
  BY <1>12, <1>13

LEMMA FirstHashIs ==
  ASSUME NEW items \in SUBSET Items, \A it \in items : it.hash \in Hashes \cup {0}
  PROVE  FirstHash(items) \in Hashes \cup {0}
<1>. DEFINE with == {it \in items : it.hash # 0}
            ids  == {it.id : it \in with}
<1>1. CASE with = {}
  BY <1>1 DEF FirstHash
<1>2. CASE with # {}
  <2>1. ids \in SUBSET Nat /\ ids # {}
    BY <1>2 DEF Items
  <2>2. PICK m \in ids : \A k \in ids : m <= k
    BY <2>1, LeastOf
  <2>3. \E it \in with : \A other \in with : it.id <= other.id
    BY <2>2
  <2>. DEFINE c == CHOOSE it \in with : \A other \in with : it.id <= other.id
  <2>4. c \in with
    BY <2>3
  <2>5. FirstHash(items) = c.hash
    BY <1>2 DEF FirstHash
  <2>. HIDE DEF c
  <2>. QED
    BY <2>4, <2>5
<1>. QED
  BY <1>1, <1>2

LEMMA WaitClassifies ==
  ASSUME VaultIndexInv, NEW f \in Failures, NEW x \in Nat, x \notin held.index, Wait(f, x),
         \A i \in 1 .. Len(grouped) :
           ~(grouped[i].slug[1] = f.detector /\ Similar(grouped[i].message, f.message))
  PROVE  /\ IndexOk(grouped', ungrouped', held.index \cup {x})
         /\ byHash' = LoadedHashes(grouped')
<1>0. /\ grouped \in Seq(Patterns) /\ IndexOk(grouped, ungrouped, held.index)
      /\ byHash = LoadedHashes(grouped)
  BY DEF VaultIndexInv, IndexOk, IndexTypes
<1>1. /\ f.detector \in VDetectors /\ f.message \in Messages /\ f.message \in Nat /\ f.message # 0
      /\ f.hash \in Hashes \cup {0} /\ f.hash \in Nat
  BY FailureFacts
<1>2. PICK it : it = [id |-> x, message |-> f.message, hash |-> f.hash]
  OBVIOUS
<1>3. it \in Items /\ it.id = x /\ it.hash \in Hashes \cup {0} /\ it.message = f.message
  BY <1>1, <1>2 DEF Items
<1>4. PICK bucket : bucket = ungrouped[f.detector] \cup {it}
  OBVIOUS
<1>5. CASE Cardinality(bucket) < PatternThreshold
  <2>1. ungrouped' = [ungrouped EXCEPT ![f.detector] = bucket] /\ grouped' = grouped /\ byHash' = byHash
    BY <1>2, <1>4, <1>5 DEF Wait
  <2>2. IndexOk(grouped, ungrouped', held.index \cup {it.id})
    BY <1>0, <1>1, <1>3, <1>4, <1>5, <2>1, WaitKeepsIndex
  <2>. QED
    BY <1>0, <1>3, <2>1, <2>2
<1>6. CASE ~(Cardinality(bucket) < PatternThreshold)
  <2>1. PICK cohort : cohort = {ot \in bucket : Similar(ot.message, f.message)}
    OBVIOUS
  <2>2. PICK hash : hash = IF f.hash # 0 THEN f.hash ELSE FirstHash(cohort)
    OBVIOUS
  <2>3. PICK p : p = [slug |-> SlugFor(f.detector, f.message), message |-> f.message,
                      hash |-> hash, ids |-> {ot.id : ot \in cohort}]
    OBVIOUS
  <2>4. /\ ungrouped' = [ungrouped EXCEPT ![f.detector] = bucket \ cohort]
        /\ grouped' = Put(p) /\ byHash' = WithHash(p.slug, hash)
    BY <1>2, <1>4, <1>6, <2>1, <2>2, <2>3 DEF Wait
  <2>5. it \in cohort /\ cohort \in SUBSET bucket /\ bucket \in SUBSET Items
        /\ \A ot \in cohort : ot.hash \in Hashes \cup {0}
    <3>1. Similar(f.message, f.message)
      BY <1>1 DEF Similar
    <3>2. bucket \in SUBSET Items /\ \A ot \in bucket : ot.hash \in Hashes \cup {0}
      BY <1>0, <1>1, <1>3, <1>4 DEF IndexOk, IndexTypes
    <3>. QED
      BY <1>3, <1>4, <2>1, <3>1, <3>2
  <2>6. hash \in Hashes \cup {0} /\ hash \in Nat
    <3>1. cohort \in SUBSET Items
      BY <2>5
    <3>2. hash \in Hashes \cup {0}
      BY <1>1, <2>2, <2>5, <3>1, FirstHashIs
    <3>. QED
      BY <3>2, FailureFacts
  <2>7. PICK d \in VDetectors : d = f.detector
    BY <1>1
  <2>8. SlugFor(d, f.message) = IF Taken(<<d, 1, 0>>) THEN <<d, 1, f.message>> ELSE <<d, 1, 0>>
    BY DEF SlugFor, SlugBase
  <2>9. \A i \in 1 .. Len(grouped) : grouped[i].slug # <<d, 1, f.message>>
    <3>1. ASSUME NEW i \in 1 .. Len(grouped), grouped[i].slug = <<d, 1, f.message>> PROVE FALSE
      <4>1. grouped[i].slug[1] = d /\ grouped[i].slug[3] = f.message
        BY <3>1
      <4>2. grouped[i].message = f.message
        BY <1>0, <1>1, <4>1 DEF IndexOk, SlugsApart
      <4>3. Similar(grouped[i].message, f.message)
        BY <1>1, <4>2 DEF Similar
      <4>. QED
        BY <2>7, <4>1, <4>3
    <3>. QED
      BY <3>1
  <2>10. /\ p.slug \in {<<d, 1, 0>>, <<d, 1, f.message>>}
         /\ \A i \in 1 .. Len(grouped) : grouped[i].slug # p.slug
    BY <2>3, <2>7, <2>8, <2>9 DEF Taken
  <2>11. /\ p.slug \in VDetectors \X Nat \X Nat /\ p.slug[2] = 1 /\ p.slug[3] \in {0, f.message}
    BY <1>1, <2>10
  <2>12. /\ p \in Patterns /\ p.message = f.message /\ p.hash = hash
         /\ p.ids = {ot.id : ot \in cohort}
    <3>1. {ot.id : ot \in cohort} \in SUBSET Nat
      BY <2>5 DEF Items
    <3>. QED
      BY <1>1, <2>3, <2>6, <2>11, <3>1 DEF Patterns
  <2>13. grouped' = Append(grouped, p)
    BY <2>4, <2>10 DEF Put, Taken
  <2>14. IndexOk(grouped', ungrouped', held.index \cup {it.id})
    <3>1. p.hash \in Hashes \cup {0} /\ p.message \in Messages /\ p.slug[3] \in {0, p.message}
      BY <1>1, <2>6, <2>11, <2>12
    <3>2. ungrouped' = [ungrouped EXCEPT ![d] = bucket \ cohort] /\ bucket = ungrouped[d] \cup {it}
      BY <1>4, <2>4, <2>7
    <3>3. it.id \notin held.index
      BY <1>3
    <3>. QED
      BY <1>0, <1>3, <2>5, <2>10, <2>11, <2>12, <2>13, <3>1, <3>2, <3>3, PromoteKeepsIndex
  <2>15. byHash' = LoadedHashes(grouped')
    <3>1. LoadedHashes(grouped') = [h \in Hashes |-> IF h = hash THEN p.slug ELSE byHash[h]]
      <4>1. LoadedHashes(grouped') = [h \in Hashes |-> IF h = p.hash THEN p.slug ELSE LoadedHashes(grouped)[h]]
        BY <1>0, <2>12, <2>13, AppendLoads
      <4>. QED
        BY <1>0, <2>12, <4>1
    <3>2. byHash = [h \in Hashes |-> byHash[h]]
      BY <1>0, LoadedIsAMap
    <3>3. CASE hash = 0
      <4>1. \A h \in Hashes : h # hash
        BY <3>3, FailureFacts
      <4>2. byHash' = byHash
        BY <2>4, <3>3 DEF WithHash
      <4>. QED
        BY <3>1, <3>2, <4>1, <4>2
    <3>4. CASE hash # 0
      <4>1. byHash' = [byHash EXCEPT ![hash] = p.slug] /\ hash \in Hashes
        BY <2>4, <2>6, <3>4 DEF WithHash
      <4>. QED
        BY <3>1, <3>2, <4>1
    <3>. QED
      BY <3>3, <3>4
  <2>. QED
    BY <1>3, <2>14, <2>15
<1>. QED
  BY <1>5, <1>6

LEMMA IncidentKeepsVault ==
  ASSUME VaultInv, NEW f \in Failures, NEW saves \in BOOLEAN, IncidentFires(f, saves)
  PROVE  VaultInv'
<1>0. /\ VaultIndexInv /\ VaultNoteInv /\ WorkOk(work, notes, Named)
      /\ fired \in 0 .. MaxVaultIncidents /\ fired < MaxVaultIncidents /\ MaxVaultIncidents \in Nat
      /\ held.index \subseteq 1 .. fired /\ held.file \subseteq held.index
  BY VaultAssumption DEF VaultInv, VaultIndexInv, IncidentFires
<1>1. PICK x : x = fired + 1
  OBVIOUS
<1>2. /\ x \in Nat /\ x \notin held.index /\ x \in 0 .. MaxVaultIncidents /\ x \in 1 .. x
      /\ \A y \in 1 .. fired : y \in 1 .. x
  BY <1>0, <1>1
<1>3. PICK m : m = Match(f)
  OBVIOUS
<1>4. /\ fired' = x /\ IF m # 0 THEN Join(m, f, x) ELSE Wait(f, x)
      /\ saved' = IF saves THEN [grouped |-> grouped', ungrouped |-> ungrouped'] ELSE saved
      /\ synced' = saves
      /\ held' = [index |-> held.index \cup {x},
                  file |-> IF saves THEN held.index \cup {x} ELSE held.file]
      /\ UNCHANGED <<notes, links, status, narrated, prose, children, tried>>
  BY <1>1, <1>3 DEF IncidentFires, noteVars
<1>5. IndexOk(grouped', ungrouped', held.index \cup {x}) /\ byHash' = LoadedHashes(grouped')
  <2>1. CASE m # 0
    <3>1. /\ m \in 1 .. Len(grouped)
          /\ f.hash # 0 => Claims(grouped, f.hash) = {} \/ grouped[m].hash = f.hash
      BY <1>0, <1>3, <2>1, MatchGives
    <3>. QED
      BY <1>0, <1>2, <1>4, <2>1, <3>1, JoinClassifies
  <2>2. CASE m = 0
    <3>1. 0 \notin 1 .. Len(grouped)
      OBVIOUS
    <3>2. \A i \in 1 .. Len(grouped) :
            ~(grouped[i].slug[1] = f.detector /\ Similar(grouped[i].message, f.message))
      BY <1>0, <1>3, <2>2, <3>1, MatchGives
    <3>. QED
      BY <1>0, <1>2, <1>4, <2>2, <3>2, WaitClassifies
  <2>. QED
    BY <2>1, <2>2
<1>6. /\ held'.index = held.index \cup {x} /\ held'.file = IF saves THEN held.index \cup {x} ELSE held.file
      /\ held' = [index |-> held'.index, file |-> held'.file]
  BY <1>4
<1>7. VaultIndexInv'
  <2>1. IndexOk(grouped', ungrouped', held'.index)
    BY <1>5, <1>6
  <2>2. IndexOk(saved'.grouped, saved'.ungrouped, held'.file)
    <3>1. CASE saves
      BY <1>4, <1>5, <1>6, <3>1
    <3>2. CASE ~saves
      BY <1>0, <1>4, <1>6, <3>2 DEF VaultIndexInv
    <3>. QED
      BY <3>1, <3>2
  <2>3. synced' => saved'.grouped = grouped' /\ saved'.ungrouped = ungrouped'
    BY <1>4
  <2>4. fired' \in 0 .. MaxVaultIncidents /\ held'.file \subseteq held'.index /\ held'.index \subseteq 1 .. fired'
    <3>1. \A y \in held.index : y \in 1 .. fired
      BY <1>0
    <3>2. \A y \in held.index \cup {x} : y \in 1 .. x
      <4>1. \A y \in held.index : y \in 1 .. x
        BY <1>2, <3>1
      <4>2. x \in 1 .. x
        BY <1>2
      <4>3. \A y \in held.index \cup {x} : y \in held.index \/ y = x
        OBVIOUS
      <4>. QED
        BY <4>1, <4>2, <4>3
    <3>3. held'.file \subseteq held'.index
      BY <1>0, <1>6
    <3>. QED
      BY <1>2, <1>4, <1>6, <3>2, <3>3
  <2>. QED
    BY <1>5, <1>6, <2>1, <2>2, <2>3, <2>4 DEF VaultIndexInv
<1>8. VaultNoteInv'
  <2>1. held.file \subseteq held'.file
    BY <1>0, <1>6
  <2>. QED
    BY <1>0, <1>4, <2>1 DEF VaultNoteInv, NotesBehindIndex, LinksResolve
<1>9. WorkOk(work, notes, Named)'
  <2>1. CASE ~saves
    <3>1. work' = <<>>
      BY <2>1 DEF IncidentFires
    <3>. QED
      BY <3>1, WorkOfCalls
  <2>2. CASE saves
    <3>1. PICK incident : incident = RecordIncident(x, f.detector)
      OBVIOUS
    <3>2. PICK joined : joined = PatternOf(x, grouped')
      OBVIOUS
    <3>3. PICK slug : slug = grouped'[CHOOSE i \in joined : TRUE].slug
      OBVIOUS
    <3>4. work' = IF joined = {} THEN <<incident>>
                  ELSE IF m # 0 THEN <<incident, RecordPattern(slug)>>
                  ELSE <<incident, RecordPattern(slug), <<Narrate(<<"pattern", slug>>)>>>>
      BY <1>1, <1>3, <2>2, <3>1, <3>2, <3>3 DEF IncidentFires
    <3>5. CallOk(incident, notes', Named')
      BY <1>2, <3>1, IncidentCallIsOk, FailureFacts
    <3>6. ASSUME joined # {}
          PROVE  /\ CallOk(RecordPattern(slug), notes', Named')
                 /\ CallOk(<<Narrate(<<"pattern", slug>>)>>, notes', Named')
      <4>1. PICK i : i = CHOOSE j \in joined : TRUE
        OBVIOUS
      <4>2. i \in joined
        BY <3>6, <4>1
      <4>3. i \in 1 .. Len(grouped') /\ slug = grouped'[i].slug
        BY <3>2, <3>3, <4>1, <4>2 DEF PatternOf
      <4>4. grouped' \in Seq(Patterns)
        BY <1>5 DEF IndexOk, IndexTypes
      <4>5. slug \in VDetectors \X Nat \X Nat
        <5>1. grouped'[i] \in Patterns
          BY <4>3, <4>4, SeqHas
        <5>. QED
          BY <4>3, <5>1 DEF Patterns
      <4>6. <<"pattern", slug>> \in Notes
        BY <4>5 DEF Notes, Keys, NoteKinds
      <4>7. held'.file = held'.index
        BY <1>6, <2>2
      <4>8. <<"pattern", slug>> \in Named'
        BY <4>3, <4>7 DEF Named
      <4>9. TheRun \in Notes /\ TheRun[1] # "pattern"
        BY DEF TheRun, Notes, NoteKinds, Keys
      <4>. QED
        BY <4>6, <4>8, <4>9, CallsAreOk, PatternCallIsOk
    <3>7. CASE joined = {}
      BY <3>4, <3>5, <3>7, WorkOfCalls
    <3>8. CASE joined # {} /\ m # 0
      BY <3>4, <3>5, <3>6, <3>8, WorkOfCalls
    <3>9. CASE joined # {} /\ m = 0
      BY <3>4, <3>5, <3>6, <3>9, WorkOfCalls
    <3>. QED
      BY <3>7, <3>8, <3>9
  <2>. QED
    BY <2>1, <2>2
<1>. QED
  BY <1>7, <1>8, <1>9 DEF VaultInv

LEMMA IndexRests ==
  ASSUME VaultIndexInv, UNCHANGED indexVars
  PROVE  VaultIndexInv' /\ Named' = Named
  BY DEF VaultIndexInv, indexVars, Named

LEMMA RecordsKeepVault ==
  ASSUME VaultInv,
         \/ ChildStarts \/ RunExhausted
         \/ \E id \in Fired : AttemptStarts(id) \/ \E regressed \in BOOLEAN : AttemptEnds(id, regressed)
  PROVE  VaultInv'
<1>0. VaultIndexInv /\ VaultNoteInv /\ WorkOk(work, notes, Named)
  BY DEF VaultInv
<1>1. UNCHANGED indexVars /\ UNCHANGED <<notes, links, narrated, prose>>
  BY DEF ChildStarts, RunExhausted, AttemptStarts, AttemptEnds, noteVars
<1>2. VaultIndexInv' /\ Named' = Named /\ notes' = notes
  BY <1>0, <1>1, IndexRests
<1>3. VaultNoteInv'
  <2>1. held' = held
    BY <1>1 DEF indexVars
  <2>2. NotesBehindIndex' /\ LinksResolve'
    BY <1>0, <1>1, <2>1 DEF VaultNoteInv, NotesBehindIndex, LinksResolve
  <2>3. /\ tried' \in [Fired -> {"none", "open", "over"}]
        /\ status' \in [Fired -> {"none", "pending", "resolved"}]
        /\ children' \in 0 .. MaxVaultChildren
    <3>1. CASE ChildStarts
      BY <1>0, <3>1, VaultAssumption DEF ChildStarts, VaultNoteInv, noteVars
    <3>2. CASE RunExhausted
      BY <1>0, <3>2 DEF RunExhausted, VaultNoteInv, noteVars
    <3>3. ASSUME NEW id \in Fired, AttemptStarts(id)
          PROVE  /\ tried' \in [Fired -> {"none", "open", "over"}]
                 /\ status' = status /\ children' = children
      BY <1>0, <3>3 DEF AttemptStarts, VaultNoteInv, noteVars
    <3>4. ASSUME NEW id \in Fired, NEW regressed \in BOOLEAN, AttemptEnds(id, regressed)
          PROVE  /\ tried' \in [Fired -> {"none", "open", "over"}]
                 /\ status' \in [Fired -> {"none", "pending", "resolved"}]
                 /\ children' = children
      BY <1>0, <3>4 DEF AttemptEnds, VaultNoteInv
    <3>. QED
      BY <1>0, <3>1, <3>2, <3>3, <3>4 DEF VaultNoteInv
  <2>. QED
    BY <1>0, <1>1, <2>2, <2>3 DEF VaultNoteInv
<1>4. WorkOk(work', notes, Named)
  <2>0. /\ TheRun \in Notes /\ Exhaustion \in Notes /\ TheRun[1] # "pattern"
        /\ \A k \in Nat : /\ <<"child", k>> \in Notes /\ <<"attempt", k>> \in Notes
                          /\ <<"incident", k>> \in Notes /\ <<"incident", k>>[1] # "pattern"
                          /\ Regression(k) \in Notes
    BY DEF TheRun, Exhaustion, Regression, Notes, NoteKinds, Keys
  <2>1. CASE ChildStarts
    <3>1. PICK k \in Nat : k = children + 1
      BY <1>0 DEF VaultNoteInv
    <3>2. PICK child : child = <<Write(<<"child", k>>), LinkTo(TheRun, <<"child", k>>)>>
      OBVIOUS
    <3>3. work' = IF children = 0 THEN <<<<Write(TheRun)>>, child>> ELSE <<child>>
      BY <2>1, <3>1, <3>2 DEF ChildStarts
    <3>4. CallOk(child, notes, Named) /\ CallOk(<<Write(TheRun)>>, notes, Named)
      BY <2>0, <3>2, CallsAreOk
    <3>. QED
      BY <3>3, <3>4, WorkOfCalls
  <2>2. CASE RunExhausted
    <3>1. work' = <<RecordWithStory(Exhaustion)>>
      BY <2>2 DEF RunExhausted
    <3>2. CallOk(RecordWithStory(Exhaustion), notes, Named)
      BY <2>0, CallsAreOk
    <3>. QED
      BY <3>1, <3>2, WorkOfCalls
  <2>3. ASSUME NEW id \in Fired, AttemptStarts(id) PROVE WorkOk(work', notes, Named)
    <3>0. id \in Nat
      BY DEF Fired
    <3>1. work' = <<<<Write(<<"attempt", id>>), LinkTo(<<"incident", id>>, <<"attempt", id>>)>>>>
      BY <2>3 DEF AttemptStarts
    <3>2. CallOk(<<Write(<<"attempt", id>>), LinkTo(<<"incident", id>>, <<"attempt", id>>)>>, notes, Named)
      BY <2>0, <3>0, CallsAreOk
    <3>. QED
      BY <3>1, <3>2, WorkOfCalls
  <2>4. ASSUME NEW id \in Fired, NEW regressed \in BOOLEAN, AttemptEnds(id, regressed)
        PROVE  WorkOk(work', notes, Named)
    <3>0. id \in Nat
      BY DEF Fired
    <3>1. work' = IF regressed THEN <<RecordWithStory(Regression(id))>> ELSE <<>>
      BY <2>4 DEF AttemptEnds
    <3>2. CallOk(RecordWithStory(Regression(id)), notes, Named)
      BY <2>0, <3>0, CallsAreOk
    <3>. QED
      BY <3>1, <3>2, WorkOfCalls
  <2>. QED
    BY <2>1, <2>2, <2>3, <2>4
<1>. QED
  BY <1>2, <1>3, <1>4 DEF VaultInv

LEMMA FailuresKeepVault ==
  ASSUME VaultInv, VaultWorkFails
  PROVE  VaultInv'
<1>0. VaultIndexInv /\ VaultNoteInv /\ WorkOk(work, notes, Named) /\ work # <<>>
  BY DEF VaultInv, VaultWorkFails
<1>1. UNCHANGED indexVars /\ UNCHANGED <<notes, links, status, narrated, prose, children, tried>>
  BY DEF VaultWorkFails, noteVars
<1>2. VaultIndexInv' /\ Named' = Named /\ notes' = notes
  BY <1>0, <1>1, IndexRests
<1>3. VaultNoteInv'
  <2>1. held' = held
    BY <1>1 DEF indexVars
  <2>. QED
    BY <1>0, <1>1, <2>1 DEF VaultNoteInv, NotesBehindIndex, LinksResolve
<1>4. Head(work) = work[1] /\ Head(work[1]) = work[1][1]
  <2>1. work \in Seq(Seq(Writes)) /\ 1 \in 1 .. Len(work) /\ Head(work) = work[1]
    BY <1>0, TailHas DEF WorkOk
  <2>2. work[1] \in Seq(Writes) /\ work[1] # <<>>
    BY <1>0, <2>1 DEF WorkOk, CallOk
  <2>. QED
    BY <2>1, <2>2, TailHas
<1>5. WorkOk(work', notes, Named)
  <2>1. CASE work[1][1].op = "write"
    <3>1. work' = Tail(work)
      BY <1>4, <2>1 DEF VaultWorkFails
    <3>. QED
      BY <1>0, <3>1, WorkShrinks
  <2>2. CASE work[1][1].op # "write"
    <3>1. work' = IF Len(Head(work)) = 1 THEN Tail(work) ELSE [work EXCEPT ![1] = Tail(@)]
      BY <1>4, <2>2 DEF VaultWorkFails, AfterWrite
    <3>. QED
      BY <1>0, <2>2, <3>1, WorkGoesOn
  <2>. QED
    BY <2>1, <2>2
<1>. QED
  BY <1>2, <1>3, <1>5 DEF VaultInv

LEMMA WorkKeepsVault ==
  ASSUME VaultInv, VaultWork
  PROVE  VaultInv'
<1>0. VaultIndexInv /\ VaultNoteInv /\ WorkOk(work, notes, Named) /\ work # <<>>
  BY DEF VaultInv, VaultWork
<1>1. UNCHANGED indexVars /\ UNCHANGED <<children, tried>>
  BY DEF VaultWork
<1>2. VaultIndexInv' /\ Named' = Named /\ held' = held
  BY <1>0, <1>1, IndexRests DEF indexVars
<1>3. /\ Head(work) = work[1] /\ Head(work[1]) = work[1][1] /\ CallOk(work[1], notes, Named)
      /\ work[1][1] \in Writes /\ 1 \in 1 .. Len(work[1])
  <2>1. work \in Seq(Seq(Writes)) /\ 1 \in 1 .. Len(work) /\ Head(work) = work[1]
    BY <1>0, TailHas DEF WorkOk
  <2>2. CallOk(work[1], notes, Named) /\ work[1] \in Seq(Writes) /\ work[1] # <<>>
    BY <1>0, <2>1 DEF WorkOk, CallOk
  <2>. QED
    BY <2>1, <2>2, TailHas
<1>4. PICK o : o = work[1][1]
  OBVIOUS
<1>5. /\ o.op = "link" => o.from[1] # "pattern" /\ o.note \in notes
      /\ o.op = "pattern" => o.note \in Named
      /\ o.note[1] \in NoteKinds
  <2>1. o.op = "link" => /\ o.from[1] # "pattern"
                         /\ \/ o.note \in notes
                            \/ \E j \in 1 .. 1 - 1 : work[1][j].op = "write" /\ work[1][j].note = o.note
    BY <1>3, <1>4 DEF CallOk
  <2>2. o.op = "pattern" => o.note \in Named
    BY <1>3, <1>4 DEF CallOk
  <2>3. o.note \in NoteKinds \X Keys
    BY <1>3, <1>4 DEF Writes, Notes
  <2>4. \A j \in 1 .. 1 - 1 : FALSE
    OBVIOUS
  <2>. QED
    BY <2>1, <2>2, <2>3, <2>4
<1>6. DoWrite(o) \/ DoLink(o) \/ DoPattern(o) \/ DoNarrate(o)
  BY <1>3, <1>4 DEF VaultWork
<1>7. work' = IF Len(Head(work)) = 1 THEN Tail(work) ELSE [work EXCEPT ![1] = Tail(@)]
  BY DEF VaultWork, AfterWrite
<1>8. notes \subseteq notes' /\ (o.op = "write" => o.note \in notes')
  BY <1>6 DEF DoWrite, DoLink, DoPattern, DoNarrate
<1>9. WorkOk(work', notes', Named')
  BY <1>0, <1>2, <1>4, <1>7, <1>8, WorkGoesOn
<1>10. VaultNoteInv'
  <2>1. /\ tried' \in [Fired -> {"none", "open", "over"}] /\ children' \in 0 .. MaxVaultChildren
    BY <1>0, <1>1 DEF VaultNoteInv
  <2>2. CASE DoWrite(o)
    <3>1. status' \in [Fired -> {"none", "pending", "resolved"}]
      BY <1>0, <2>2 DEF DoWrite, VaultNoteInv
    <3>. QED
      BY <1>0, <1>2, <1>5, <2>1, <2>2, <3>1 DEF DoWrite, VaultNoteInv, NotesBehindIndex, LinksResolve
  <2>3. CASE DoLink(o)
    <3>0. UNCHANGED <<notes, status, narrated, prose>> /\ o.op = "link"
          /\ links' = IF o.from \in notes THEN links \cup {<<o.from, o.note>>} ELSE links
      BY <2>3 DEF DoLink
    <3>1. NotesBehindIndex'
      BY <1>0, <1>2, <1>5, <3>0 DEF VaultNoteInv, NotesBehindIndex
    <3>2. LinksResolve'
      BY <1>0, <1>5, <3>0 DEF VaultNoteInv, LinksResolve
    <3>. QED
      BY <1>0, <2>1, <3>0, <3>1, <3>2 DEF VaultNoteInv
  <2>4. CASE DoPattern(o)
    <3>1. o.note \in Named /\ o.op = "pattern"
      BY <1>5, <2>4 DEF DoPattern
    <3>2. held.file = held.index /\ \E i \in 1 .. Len(grouped) : o.note = <<"pattern", grouped[i].slug>>
      BY <3>1 DEF Named
    <3>3. \E i \in 1 .. Len(grouped) : grouped[i].slug = o.note[2]
      BY <3>2
    <3>4. PICK i : i = CHOOSE j \in 1 .. Len(grouped) : grouped[j].slug = o.note[2]
      OBVIOUS
    <3>5. i \in 1 .. Len(grouped) /\ grouped[i].ids \subseteq held.file
      BY <1>0, <3>2, <3>3, <3>4 DEF VaultIndexInv, IndexOk, Homes
    <3>6. PICK d : d = <<"detector", o.note[2][1]>>
      OBVIOUS
    <3>7. /\ notes' = notes \cup {o.note} /\ UNCHANGED <<status, narrated, prose>>
          /\ links' = links \cup {<<o.note, <<"incident", id>>>> : id \in grouped[i].ids}
                            \cup (IF d \in notes THEN {<<d, o.note>>} ELSE {})
      BY <2>4, <3>4, <3>6 DEF DoPattern
    <3>8. \A l \in links' : \/ l \in links
                            \/ \E id \in grouped[i].ids : l = <<o.note, <<"incident", id>>>>
                            \/ d \in notes /\ l = <<d, o.note>>
      BY <3>7
    <3>9. d[1] # "pattern" /\ o.note[1] = "pattern"
      BY <3>2, <3>6
    <3>10. NotesBehindIndex'
      BY <1>0, <1>2, <3>5, <3>8, <3>9 DEF VaultNoteInv, NotesBehindIndex
    <3>11. LinksResolve'
      BY <1>0, <3>7, <3>8, <3>9 DEF VaultNoteInv, LinksResolve
    <3>. QED
      BY <1>0, <1>5, <2>1, <3>7, <3>10, <3>11 DEF VaultNoteInv
  <2>5. CASE DoNarrate(o)
    <3>1. prose' \subseteq narrated' \cap notes'
      BY <1>0, <2>5 DEF DoNarrate, Told, VaultNoteInv
    <3>2. UNCHANGED <<notes, links, status>>
      BY <2>5 DEF DoNarrate
    <3>. QED
      BY <1>0, <1>2, <2>1, <3>1, <3>2 DEF VaultNoteInv, NotesBehindIndex, LinksResolve
  <2>. QED
    BY <1>6, <2>2, <2>3, <2>4, <2>5
<1>. QED
  BY <1>2, <1>9, <1>10 DEF VaultInv

LEMMA RestartKeepsVault ==
  ASSUME VaultInv, VaultRestarts
  PROVE  VaultInv'
<1>0. VaultIndexInv /\ VaultNoteInv
  BY DEF VaultInv
<1>1. /\ work' = <<>> /\ grouped' = saved.grouped /\ ungrouped' = saved.ungrouped
      /\ byHash' = LoadedHashes(saved.grouped) /\ held' = [held EXCEPT !.index = held.file]
      /\ tried' = [i \in Fired |-> IF tried[i] = "open" THEN "over" ELSE tried[i]]
      /\ UNCHANGED <<saved, fired, notes, links, status, narrated, prose, children>>
  BY DEF VaultRestarts, noteVars
<1>2. held' = [index |-> held.file, file |-> held.file] /\ held'.index = held.file /\ held'.file = held.file
  BY <1>0, <1>1 DEF VaultIndexInv
<1>3. VaultIndexInv'
  BY <1>0, <1>1, <1>2 DEF VaultIndexInv
<1>4. VaultNoteInv'
  BY <1>0, <1>1, <1>2 DEF VaultNoteInv, NotesBehindIndex, LinksResolve
<1>5. WorkOk(work, notes, Named)'
  BY <1>1, WorkOfCalls
<1>. QED
  BY <1>3, <1>4, <1>5 DEF VaultInv

LEMMA VaultKeeps ==
  ASSUME VaultInv, [VaultNext]_vaultVars
  PROVE  VaultInv'
<1>1. CASE UNCHANGED vaultVars
  <2>1. UNCHANGED indexVars /\ UNCHANGED <<notes, links, status, narrated, prose, children, tried, work, held>>
    BY <1>1 DEF vaultVars, indexVars
  <2>2. VaultIndexInv' /\ Named' = Named
    BY <2>1, IndexRests DEF VaultInv
  <2>3. VaultNoteInv'
    BY <2>1 DEF VaultInv, VaultNoteInv, NotesBehindIndex, LinksResolve
  <2>. QED
    BY <2>1, <2>2, <2>3 DEF VaultInv
<1>. QED
  BY <1>1, IncidentKeepsVault, RecordsKeepVault, WorkKeepsVault, FailuresKeepVault, RestartKeepsVault
     DEF VaultNext

\* The index of the vault holds every incident it took in one pattern or bucket, is what
\* a restart reads once it is saved, and no note is ahead of it or names one that is not
\* there, whatever write fails and wherever the monitor is killed (patterns.py, classify,
\* _promote and _load; store.py).
THEOREM VaultAgrees == ComponentsSpec => []VaultConsistent
<1>1. ComponentsInit => VaultInv
  BY VaultInitially DEF ComponentsInit
<1>2. VaultInv /\ [ComponentsNext]_allVars => VaultInv'
  BY VaultKeeps, Projections
<1>3. VaultInv => VaultConsistent
  <2>. SUFFICES ASSUME VaultInv PROVE VaultConsistent
    OBVIOUS
  <2>1. \A id \in held.index : Holdings(id) = 1
    BY HeldOnce DEF VaultInv, VaultIndexInv
  <2>2. synced => LoadedHashes(saved.grouped) = byHash
    BY DEF VaultInv, VaultIndexInv
  <2>. QED
    BY <2>1, <2>2 DEF VaultConsistent, IncidentsAccounted, ReloadFaithful, VaultInv, VaultIndexInv, VaultNoteInv
<1>. QED
  BY <1>1, <1>2, <1>3, PTL DEF ComponentsSpec

-----------------------------------------------------------------------------
(* The types of all of them: what the invariants above do not say yet are the bounds *)

LEMMA IncidentTypes == IncidentInv => IncidentsTypeOK
<1>. SUFFICES ASSUME IncidentInv PROVE IncidentsTypeOK
  OBVIOUS
<1>1. /\ folders \subseteq Ids /\ index \in Seq(Ids) /\ writing \in Ids \cup {NoId}
      /\ second \in 0 .. MaxSeconds
  BY IncidentsAssumption DEF IncidentInv, FoldersAreIds
<1>2. \A id \in handled : id \in Ids
  BY <1>1 DEF IncidentInv, FoldersAreIds, CursorWasHandled
<1>3. shown \subseteq 1 .. Len(index)
  BY DEF IncidentInv, ShownIsFirst, Pending
<1>. QED
  BY <1>1, <1>2, <1>3 DEF IncidentsTypeOK, IncidentInv, CursorWasHandled

LEMMA VaultTypes == VaultInv => VaultTypeOK
<1>. SUFFICES ASSUME VaultInv PROVE VaultTypeOK
  OBVIOUS
<1>1. fired \in 0 .. MaxVaultIncidents /\ held.index \subseteq Fired
  BY VaultAssumption DEF VaultInv, VaultIndexInv, Fired
<1>2. IndexTypes(grouped, ungrouped) /\ SlugsApart(grouped) /\ Homes(grouped, ungrouped, held.index)
  BY DEF VaultInv, VaultIndexInv, IndexOk
<1>3. ASSUME NEW i \in 1 .. Len(grouped)
      PROVE  grouped[i].slug \in Slugs /\ grouped[i].ids \in SUBSET Fired
  <2>1. grouped[i] \in Patterns
    BY <1>2, SeqHas DEF IndexTypes
  <2>2. grouped[i].slug \in VDetectors \X Nat \X Nat
    BY <2>1 DEF Patterns
  <2>3. grouped[i].slug[3] \in Messages \cup {0}
    BY <1>2 DEF SlugsApart
  <2>4. grouped[i].slug \in Slugs
    BY <2>2, <2>3 DEF Slugs
  <2>. QED
    BY <1>1, <1>2, <2>4 DEF Homes
<1>4. \A d \in VDetectors : Cardinality(ungrouped[d]) < PatternThreshold
  BY <1>2 DEF IndexTypes
<1>. QED
  BY <1>1, <1>3, <1>4 DEF VaultTypeOK, VaultInv, VaultNoteInv

LEMMA StateFileTypes == FileInv => StateFileTypeOK
  BY DEF FileInv, FileTypes, Stations, StateFileTypeOK

\* The healer: every response is to a request the session has seen, and so is the one
\* that was there before a call.
ResponsesCounted ==
  /\ responseFile.stamp = Cardinality(seenRequests \ atWork)
  /\ baseline <= responseFile.stamp

LEMMA SeenAreFinite ==
  ASSUME ShakeTypes
  PROVE  /\ IsFiniteSet(seenRequests) /\ IsFiniteSet(seenRequests \ atWork)
         /\ Cardinality(seenRequests \ atWork) \in 0 .. MaxCalls
<1>1. IsFiniteSet(1 .. MaxCalls) /\ Cardinality(1 .. MaxCalls) = MaxCalls
  BY HealingAssumption, FS_Interval
<1>2. seenRequests \subseteq 1 .. MaxCalls
  BY HealingAssumption DEF ShakeTypes
<1>3. IsFiniteSet(seenRequests)
  BY <1>1, <1>2, FS_Subset
<1>4. IsFiniteSet(seenRequests \ atWork) /\ Cardinality(seenRequests \ atWork) <= MaxCalls
  BY <1>1, <1>2, FS_Subset
<1>. QED
  BY <1>3, <1>4, FS_CardinalityType, HealingAssumption

LEMMA ResponsesKeepCount ==
  ASSUME ShakeInv, ResponsesCounted, [HealingNext]_healingVars
  PROVE  ResponsesCounted'
<1>. USE DEF ResponsesCounted
<1>0. /\ responseFile \in [call : 0 .. MaxCalls, stamp : Nat] /\ baseline \in Nat /\ ShakeTypes
      /\ atWork \subseteq seenRequests /\ responseFile.stamp \in Nat
  BY DEF ShakeInv, ShakeTypes
<1>1. CASE UNCHANGED <<baseline, responseFile, seenRequests, atWork>>
  BY <1>1
<1>2. CASE Ask
  <2>1. baseline' = responseFile.stamp /\ UNCHANGED <<responseFile, seenRequests, atWork>>
    BY <1>2 DEF Ask
  <2>. QED
    BY <1>0, <2>1
<1>3. CASE SessionTakes
  <2>1. /\ UNCHANGED <<baseline, responseFile>> /\ requested \notin seenRequests
        /\ seenRequests' = seenRequests \cup {requested} /\ atWork' = atWork \cup {requested}
    BY <1>3 DEF SessionTakes
  <2>2. seenRequests' \ atWork' = seenRequests \ atWork
    BY <2>1
  <2>. QED
    BY <2>1, <2>2
<1>4. ASSUME NEW c \in Calls, Respond(c)
      PROVE  ResponsesCounted'
  <2>1. /\ c \in atWork /\ atWork' = atWork \ {c} /\ UNCHANGED <<baseline, seenRequests>>
        /\ responseFile'.stamp = responseFile.stamp + 1
    BY <1>4 DEF Respond
  <2>2. seenRequests' \ atWork' = (seenRequests \ atWork) \cup {c} /\ c \notin seenRequests \ atWork
    BY <1>0, <2>1
  <2>3. Cardinality((seenRequests \ atWork) \cup {c}) = Cardinality(seenRequests \ atWork) + 1
    BY <1>0, <2>2, SeenAreFinite, FS_AddElement
  <2>. QED
    BY <1>0, <2>1, <2>2, <2>3
<1>5. CASE UNCHANGED healingVars
  BY <1>1, <1>5 DEF healingVars
<1>6. CASE WriteRequest \/ ReadAnswer \/ GiveUp
  BY <1>1, <1>6 DEF WriteRequest, ReadAnswer, GiveUp
<1>7. CASE (\E cc \in BOOLEAN : Invoke(cc)) \/ Diagnose \/ CrossCheck \/ Decide \/ GraphRaises
  <2>1. UNCHANGED fileShake
    BY <1>7 DEF Invoke, Diagnose, CrossCheck, Decide, GraphRaises
  <2>. QED
    BY <1>1, <2>1 DEF fileShake
<1>. QED
  BY <1>2, <1>3, <1>4, <1>5, <1>6, <1>7 DEF HealingNext

LEMMA HealingTypes == GraphInv /\ ShakeInv /\ ResponsesCounted => HealingTypeOK
<1>. SUFFICES ASSUME GraphInv, ShakeInv, ResponsesCounted PROVE HealingTypeOK
  OBVIOUS
<1>. USE HealingAssumption
<1>1. ShakeTypes /\ GraphTypes
  BY DEF ShakeInv, GraphInv
<1>2. responseFile.stamp \in 0 .. MaxCalls /\ baseline \in 0 .. MaxCalls
  BY <1>1, SeenAreFinite DEF ResponsesCounted, ShakeTypes
<1>3. responseFile \in [call : 0 .. MaxCalls, stamp : 0 .. MaxCalls]
  BY <1>1, <1>2 DEF ShakeTypes
<1>4. requested \in 0 .. MaxCalls /\ seenRequests \subseteq Calls /\ call \in 0 .. MaxCalls
  BY <1>1 DEF ShakeTypes, Calls
<1>5. made \in 0 .. 2 * MaxSteps /\ turnedDown \subseteq Proposals
  BY <1>1 DEF GraphTypes, Proposals
<1>. QED
  BY <1>1, <1>2, <1>3, <1>4, <1>5 DEF HealingTypeOK, ShakeTypes, GraphTypes

\* The detectors: no mark is ahead of the clock, and only the traceback detector has a trace.
DetectorBounds ==
  /\ lineAt \in 0 .. clock /\ progressAt \in 0 .. clock /\ launchedAt \in 0 .. clock
  /\ firedAt \in -Cooldown .. clock /\ starts \in 0 .. MaxChildren
  /\ \A i \in 1 .. Len(alarms) : alarms[i].at >= 0
  /\ detectorKind # "traceback" => trace = NoTrace

LEMMA RaisedInBounds ==
  ASSUME DetectorTypes, DetectorBounds, NEW ls \in Seq(Nat),
         Raise(ls) \/ UNCHANGED <<firedAt, alarms>>
  PROVE  /\ firedAt' \in -Cooldown .. clock
         /\ \A i \in 1 .. Len(alarms') : alarms'[i].at >= 0
<1>1. /\ clock \in Nat /\ Cooldown \in Nat /\ Len(alarms) \in Nat /\ alarms \in Seq(Alarms)
      /\ Len(observed) \in Nat /\ launchedAt \in Int
  BY DetectorFacts, LineDetectorsAssumption DEF DetectorTypes
<1>2. CASE Raise(ls)
  <2>. DEFINE a == [at |-> clock, upTo |-> Len(observed), lines |-> ls, launched |-> launchedAt,
                    anew |-> starts > 1 /\ knownStart = starts]
  <2>1. firedAt' = clock /\ alarms' = Append(alarms, a)
    BY <1>2 DEF Raise
  <2>2. a \in Alarms /\ a.at = clock
    BY <1>1 DEF Alarms
  <2>. HIDE DEF a
  <2>3. /\ Len(alarms') = Len(alarms) + 1 /\ alarms'[Len(alarms) + 1] = a
        /\ \A i \in 1 .. Len(alarms) : alarms'[i] = alarms[i]
    BY <1>1, <2>1, <2>2, AppendHas
  <2>4. ASSUME NEW i \in 1 .. Len(alarms') PROVE alarms'[i].at >= 0
    <3>1. CASE i \in 1 .. Len(alarms)
      BY <2>3, <3>1 DEF DetectorBounds
    <3>2. CASE i = Len(alarms) + 1
      BY <1>1, <2>2, <2>3, <3>2
    <3>. QED
      BY <1>1, <2>3, <3>1, <3>2
  <2>5. firedAt' \in -Cooldown .. clock
    BY <1>1, <2>1
  <2>. QED
    BY <2>4, <2>5
<1>3. CASE UNCHANGED <<firedAt, alarms>>
  BY <1>3 DEF DetectorBounds
<1>. QED
  BY <1>2, <1>3

LEMMA DetectorStaysInBounds ==
  ASSUME DetectorInv, DetectorBounds, [LineDetectorsNext]_detectorVars
  PROVE  DetectorBounds'
<1>0. /\ DetectorTypes /\ clock \in Nat /\ Cooldown \in Nat /\ Len(observed) \in Nat
      /\ lineAt \in 0 .. clock /\ progressAt \in 0 .. clock /\ launchedAt \in 0 .. clock
      /\ firedAt \in -Cooldown .. clock /\ starts \in 0 .. MaxChildren /\ MaxChildren \in Nat
      /\ trace.lines \in Seq(Nat)
  BY DetectorFacts, LineDetectorsAssumption DEF DetectorInv, DetectorBounds
<1>1. CASE ClockTicks
  <2>1. /\ clock' = clock + 1
        /\ UNCHANGED <<detectorKind, trace, firedAt, progressAt, lineAt, launchedAt, starts, alarms>>
    BY <1>1 DEF ClockTicks, lineVars, alarmVars, stallVars, childVars
  <2>. QED
    BY <1>0, <2>1 DEF DetectorBounds
<1>2. ASSUME NEW t \in TraceTexts, TracebackLine(t)
      PROVE  DetectorBounds'
  <2>1. /\ detectorKind = "traceback"
        /\ UNCHANGED <<detectorKind, clock, progressAt, lineAt, launchedAt, starts>>
    BY <1>2 DEF TracebackLine, stallVars, childVars
  <2>2. \E ls \in Seq(Nat) : Raise(ls) \/ UNCHANGED <<firedAt, alarms>>
    <3>1. MaybeOpen(t) \/ Collect(t)
      BY <1>2 DEF TracebackLine
    <3>2. CASE MaybeOpen(t)
      BY <1>0, <3>2 DEF MaybeOpen
    <3>3. CASE Collect(t)
      <4>1. Append(trace.lines, Coming) \in Seq(Nat)
        BY <1>0, AppendHas DEF Coming
      <4>2. \/ CloseTrace(trace.lines) \/ CloseTrace(Append(trace.lines, Coming))
            \/ UNCHANGED <<firedAt, alarms>>
        BY <3>3 DEF Collect
      <4>3. \A ls : CloseTrace(ls) => Raise(ls) \/ UNCHANGED <<firedAt, alarms>>
        BY DEF CloseTrace
      <4>. QED
        BY <1>0, <4>1, <4>2, <4>3
    <3>. QED
      BY <3>1, <3>2, <3>3
  <2>3. /\ firedAt' \in -Cooldown .. clock
        /\ \A i \in 1 .. Len(alarms') : alarms'[i].at >= 0
    BY <1>0, <2>2, RaisedInBounds
  <2>. QED
    BY <1>0, <2>1, <2>3 DEF DetectorBounds
<1>3. ASSUME NEW t \in StepTexts, StallLine(t)
      PROVE  DetectorBounds'
  <2>1. /\ lineAt' = clock /\ (progressAt' = clock \/ progressAt' = progressAt)
        /\ UNCHANGED <<detectorKind, clock, trace, firedAt, launchedAt, starts, alarms>>
    BY <1>3 DEF StallLine, alarmVars, childVars
  <2>. QED
    BY <1>0, <2>1 DEF DetectorBounds
<1>4. CASE ObserveTick
  <2>1. /\ Raise(<<>>) \/ UNCHANGED <<firedAt, alarms>>
        /\ UNCHANGED <<detectorKind, clock, trace, progressAt, lineAt, launchedAt, starts>>
    BY <1>4 DEF ObserveTick, lineVars, alarmVars, stallVars, childVars
  <2>2. <<>> \in Seq(Nat)
    OBVIOUS
  <2>3. /\ firedAt' \in -Cooldown .. clock
        /\ \A i \in 1 .. Len(alarms') : alarms'[i].at >= 0
    BY <1>0, <2>1, <2>2, RaisedInBounds
  <2>. QED
    BY <1>0, <2>1, <2>3 DEF DetectorBounds
<1>5. CASE ChildLaunched \/ ChildDies
  <2>1. /\ starts' = starts \/ (starts < MaxChildren /\ starts' = starts + 1)
        /\ launchedAt' = launchedAt \/ launchedAt' = clock
        /\ UNCHANGED <<detectorKind, clock, trace, firedAt, alarms, progressAt, lineAt>>
    BY <1>5 DEF ChildLaunched, ChildDies, lineVars, alarmVars, stallVars
  <2>. QED
    BY <1>0, <2>1 DEF DetectorBounds
<1>7. CASE TickBegins
  <2>1. /\ progressAt' = progressAt \/ progressAt' = clock
        /\ lineAt' = lineAt \/ lineAt' = clock
        /\ UNCHANGED <<detectorKind, clock, trace, firedAt, alarms, launchedAt, starts>>
    BY <1>7 DEF TickBegins, lineVars, alarmVars, stallVars, childVars
  <2>. QED
    BY <1>0, <2>1 DEF DetectorBounds
<1>6. CASE UNCHANGED detectorVars
  BY <1>6 DEF detectorVars, lineVars, alarmVars, stallVars, childVars, DetectorBounds
<1>. QED
  BY <1>1, <1>2, <1>3, <1>4, <1>5, <1>6, <1>7 DEF LineDetectorsNext

LEMMA DetectorBoundsInitially == LineDetectorsInit => DetectorBounds
<1>. SUFFICES ASSUME LineDetectorsInit PROVE DetectorBounds
  OBVIOUS
<1>1. /\ Len(alarms) = 0 /\ trace = NoTrace /\ clock = 0 /\ firedAt = -Cooldown /\ starts = 0
      /\ launchedAt = 0 /\ progressAt = 0 /\ lineAt = 0
  BY DEF LineDetectorsInit
<1>. QED
  BY <1>1, LineDetectorsAssumption DEF DetectorBounds

LEMMA DetectorTypesInBounds == DetectorInv /\ DetectorBounds => LineDetectorsTypeOK
<1>. SUFFICES ASSUME DetectorInv, DetectorBounds PROVE LineDetectorsTypeOK
  OBVIOUS
<1>0. /\ DetectorTypes /\ clock \in 0 .. MaxClock /\ clock \in Nat /\ MaxClock \in Nat
      /\ Cooldown \in Nat /\ Len(observed) \in Nat /\ AlarmsApart
      /\ trace \in Traces /\ trace.lines \in Seq(Nat)
  BY DetectorFacts, LineDetectorsAssumption DEF DetectorInv, DetectorTypes
<1>1. trace.lines \in Seq(1 .. Len(observed))
  <2>1. CASE trace = NoTrace
    BY <2>1 DEF NoTrace
  <2>2. CASE trace # NoTrace
    <3>1. \A i \in 1 .. Len(trace.lines) : trace.lines[i] \in 1 .. Len(observed)
      BY <2>2 DEF DetectorBounds, DetectorInv, TraceInv, OpenTrace, IsThere
    <3>. QED
      BY <1>0, <3>1
  <2>. QED
    BY <2>1, <2>2
<1>2. trace.quiet \in 0 .. 1 /\ trace.lang \in {"none", "python", "javascript"}
  BY <1>0 DEF Traces
<1>3. ASSUME NEW i \in 1 .. Len(alarms)
      PROVE  alarms[i].at \in 0 .. clock /\ alarms[i].upTo \in 0 .. Len(observed)
  <2>1. alarms[i] \in Alarms
    BY SeqHas DEF DetectorInv, DetectorTypes
  <2>2. alarms[i].at \in Int /\ alarms[i].upTo \in Nat
    BY <2>1 DEF Alarms
  <2>3. alarms[i].at <= firedAt /\ alarms[i].upTo <= Len(observed) /\ alarms[i].at >= 0
    BY <1>0 DEF AlarmsApart, Reported, DetectorBounds
  <2>4. firedAt \in Int /\ firedAt <= clock
    BY <1>0 DEF DetectorBounds
  <2>. QED
    BY <1>0, <2>2, <2>3, <2>4
<1>4. firedAt \in -Cooldown .. MaxClock
  BY <1>0 DEF DetectorBounds
<1>. QED
  BY <1>0, <1>1, <1>2, <1>3, <1>4 DEF LineDetectorsTypeOK, DetectorTypes, DetectorBounds, Heard

\* The local supervisor: process.log has the lines that are in no pipe any more.
ReadLines == {i \in WrittenLines : \A m \in Launches : ~IsPiped(m, i)}

LinesInBounds ==
  /\ archived = Cardinality(ReadLines)
  /\ line <= MaxLines /\ restarting \in BOOLEAN /\ late <= MaxLate

LEMMA ReadAreFinite ==
  ASSUME StreamTypes
  PROVE  IsFiniteSet(ReadLines) /\ Cardinality(ReadLines) \in Nat /\ Cardinality(ReadLines) <= line
<1>1. line \in Nat
  BY DEF StreamTypes
<1>2. IsFiniteSet(1 .. line) /\ Cardinality(1 .. line) = line
  BY <1>1, FS_Interval
<1>3. ReadLines \subseteq 1 .. line
  BY DEF ReadLines, WrittenLines
<1>. QED
  BY <1>2, <1>3, FS_Subset, FS_CardinalityType

LEMMA WrittenIsPiped ==
  ASSUME StreamTypes, NEW l \in Launches, GroupWrites(l)
  PROVE  ReadLines' = ReadLines
<1>1. /\ pipes' = [pipes EXCEPT ![l] = Append(@, line + 1)] /\ line' = line + 1
      /\ pipes \in [Launches -> Seq(Nat)] /\ line \in Nat /\ pipes[l] \in Seq(Nat)
  BY DEF StreamTypes, GroupWrites
<1>2. PICK n : n = Len(pipes[l])
  OBVIOUS
<1>3. /\ Len(pipes'[l]) = n + 1 /\ pipes'[l][n + 1] = line + 1 /\ n \in Nat
      /\ \A p \in 1 .. n : pipes'[l][p] = pipes[l][p]
      /\ \A m \in Launches : m # l => pipes'[m] = pipes[m]
  BY <1>1, <1>2, AppendHas
<1>4. \A m \in Launches : m # l => Piped(m)' = Piped(m)
  BY <1>3 DEF Piped
<1>5. Piped(l) = 1 .. n /\ Piped(l)' = 1 .. n + 1
  BY <1>2, <1>3 DEF Piped
<1>6. ASSUME NEW i \in 1 .. line, NEW m \in Launches
      PROVE  IsPiped(m, i)' <=> IsPiped(m, i)
  <2>1. CASE m = l
    <3>1. i # line + 1
      BY <1>1
    <3>2. \A p \in 1 .. n + 1 : p = n + 1 \/ p \in 1 .. n
      BY <1>3
    <3>3. \A p \in 1 .. n : p \in 1 .. n + 1
      BY <1>3
    <3>. QED
      BY <1>3, <1>5, <2>1, <3>1, <3>2, <3>3 DEF IsPiped
  <2>2. CASE m # l
    BY <1>3, <1>4, <2>2 DEF IsPiped
  <2>. QED
    BY <2>1, <2>2
<1>7. PICK k : k = line + 1
  OBVIOUS
<1>8. IsPiped(l, k)'
  <2>1. n + 1 \in 1 .. n + 1
    BY <1>3
  <2>. QED
    BY <1>3, <1>5, <1>7, <2>1 DEF IsPiped
<1>9. WrittenLines = 1 .. line /\ WrittenLines' = (1 .. line) \cup {k}
  BY <1>1, <1>7 DEF WrittenLines
<1>. QED
  BY <1>6, <1>8, <1>9 DEF ReadLines

LEMMA PutIsRead ==
  ASSUME LinesInv, NEW l \in Launches, ReaderPuts(l)
  PROVE  Cardinality(ReadLines') = Cardinality(ReadLines) + 1
<1>1. StreamTypes /\ LinesApart /\ NewestLast
  BY DEF LinesInv
<1>2. /\ pipes[l] # <<>> /\ pipes' = [pipes EXCEPT ![l] = Tail(@)] /\ line' = line
  BY DEF ReaderPuts
<1>3. PICK h : h = Head(pipes[l])
  OBVIOUS
<1>4. h \in WrittenLines /\ line \in Nat
  <2>1. h \in Nat /\ h <= line /\ h # 0 /\ line \in Nat
    BY <1>1, <1>2, <1>3, PipeFacts DEF StreamTypes
  <2>. QED
    BY <2>1 DEF WrittenLines
<1>5. \A m \in Launches : \A p \in Piped(m)' : IsPiped(m, pipes'[m][p]) /\ pipes'[m][p] # h
  BY <1>1, <1>2, <1>3, PipesStayApart
<1>6. /\ pipes \in [Launches -> Seq(Nat)] /\ pipes[l] \in Seq(Nat) /\ pipes'[l] = Tail(pipes[l])
      /\ \A m \in Launches : m # l => pipes'[m] = pipes[m]
  BY <1>1, <1>2 DEF StreamTypes
<1>7. PICK n : n = Len(pipes[l])
  OBVIOUS
<1>8. /\ Len(pipes'[l]) = n - 1 /\ n \in Nat \ {0} /\ h = pipes[l][1]
      /\ \A j \in 1 .. n - 1 : pipes'[l][j] = pipes[l][j + 1]
  BY <1>2, <1>3, <1>6, <1>7, TailHas
<1>9. Piped(l) = 1 .. n /\ Piped(l)' = 1 .. n - 1
  BY <1>7, <1>8 DEF Piped
<1>10. ASSUME NEW i, i # h, NEW m \in Launches
       PROVE  IsPiped(m, i)' <=> IsPiped(m, i)
  <2>1. ASSUME IsPiped(m, i)' PROVE IsPiped(m, i)
    <3>1. PICK p \in Piped(m)' : pipes'[m][p] = i
      BY <2>1 DEF IsPiped
    <3>. QED
      BY <1>5, <3>1
  <2>2. ASSUME IsPiped(m, i) PROVE IsPiped(m, i)'
    <3>1. PICK p \in Piped(m) : pipes[m][p] = i
      BY <2>2 DEF IsPiped
    <3>2. CASE m # l
      <4>1. p \in Piped(m)' /\ pipes'[m][p] = i
        BY <1>6, <3>1, <3>2 DEF Piped
      <4>. QED
        BY <4>1 DEF IsPiped
    <3>3. CASE m = l
      <4>1. p \in 1 .. n /\ p # 1
        BY <1>8, <1>9, <1>10, <3>1, <3>3
      <4>2. p - 1 \in 1 .. n - 1 /\ (p - 1) + 1 = p
        BY <1>8, <4>1
      <4>3. p - 1 \in Piped(l)' /\ pipes'[l][p - 1] = i
        BY <1>8, <1>9, <3>1, <3>3, <4>2
      <4>. QED
        BY <3>3, <4>3 DEF IsPiped
    <3>. QED
      BY ONLY <3>2, <3>3, LocalReaderAssumption
  <2>. QED
    BY <2>1, <2>2
<1>11. IsPiped(l, h) /\ \A m \in Launches : ~IsPiped(m, h)'
  <2>1. 1 \in Piped(l)
    BY <1>8, <1>9
  <2>. QED
    BY <1>5, <1>8, <2>1 DEF IsPiped
<1>12. WrittenLines' = WrittenLines
  BY <1>2 DEF WrittenLines
<1>13. ReadLines' = ReadLines \cup {h} /\ h \notin ReadLines
  BY <1>4, <1>10, <1>11, <1>12 DEF ReadLines
<1>. QED
  BY <1>1, <1>13, ReadAreFinite, FS_AddElement

LEMMA LinesStayInBounds ==
  ASSUME LinesInv, LinesInBounds, [LocalNext]_localVars
  PROVE  LinesInBounds'
<1>0. /\ StreamTypes /\ line \in Nat /\ late \in Nat /\ MaxLate \in Nat /\ MaxLines \in Nat
      /\ archived = Cardinality(ReadLines) /\ archived \in Nat
      /\ line <= MaxLines /\ restarting \in BOOLEAN /\ late <= MaxLate
  BY LocalReaderAssumption DEF LinesInv, StreamTypes, LinesInBounds
<1>1. ASSUME UNCHANGED <<pipes, line, archived>>, late' = late \/ (late < MaxLate /\ late' = late + 1),
             restarting' \in BOOLEAN
      PROVE  LinesInBounds'
  <2>1. ReadLines' = ReadLines
    BY <1>1 DEF ReadLines, IsPiped, Piped, WrittenLines
  <2>2. late' <= MaxLate
    BY <1>0, <1>1
  <2>. QED
    BY <1>0, <1>1, <2>1, <2>2 DEF LinesInBounds
<1>2. ASSUME NEW l \in Launches, GroupWrites(l)
      PROVE  LinesInBounds'
  <2>1. line < MaxLines /\ line' = line + 1 /\ UNCHANGED <<late, restarting, archived>>
    BY <1>2 DEF GroupWrites, callVars
  <2>2. ReadLines' = ReadLines
    BY <1>0, <1>2, WrittenIsPiped
  <2>. QED
    BY <1>0, <2>1, <2>2 DEF LinesInBounds
<1>3. ASSUME NEW l \in Launches, ReaderPuts(l)
      PROVE  LinesInBounds'
  <2>1. archived' = archived + 1 /\ UNCHANGED <<late, restarting, line>>
    BY <1>3 DEF ReaderPuts, callVars
  <2>2. Cardinality(ReadLines') = Cardinality(ReadLines) + 1
    BY <1>3, PutIsRead
  <2>. QED
    BY <1>0, <2>1, <2>2 DEF LinesInBounds
<1>4. CASE UNCHANGED localVars
  BY <1>0, <1>1, <1>4 DEF localVars
<1>5. CASE LeaderForks \/ LeaderExits \/ LocalTerm \/ LocalWait \/ LocalGroup
           \/ \E restart \in BOOLEAN : LocalStop(restart)
  BY <1>0, <1>1, <1>5 DEF LeaderForks, LeaderExits, LocalTerm, LocalWait, LocalGroup, LocalStop,
                          streamVars, callVars
<1>6. CASE LocalStart \/ LocalJoin \/ LocalRelaunch
  <2>1. /\ UNCHANGED <<pipes, line, archived>>
        /\ late' = late \/ (late < MaxLate /\ late' = late + 1)
    BY <1>6 DEF LocalStart, LocalJoin, LocalRelaunch, LocalLaunch, streamVars
  <2>2. restarting' = restarting \/ restarting' = FALSE
    BY <1>6 DEF LocalStart, LocalJoin, LocalRelaunch
  <2>3. restarting' \in BOOLEAN
    BY <1>0, <2>2
  <2>. QED
    BY <1>1, <2>1, <2>3
<1>7. ASSUME NEW l \in Launches, ReaderDrops(l) \/ ReaderPutsAgain(l) \/ ReaderEnds(l)
      PROVE  LinesInBounds'
  BY <1>0, <1>1, <1>7 DEF ReaderDrops, ReaderPutsAgain, ReaderEnds, callVars
<1>8. CASE MonitorTakes
  BY <1>0, <1>1, <1>8 DEF MonitorTakes, callVars
<1>. QED
  BY <1>2, <1>3, <1>4, <1>5, <1>6, <1>7, <1>8 DEF LocalNext

LEMMA LinesInBoundsInitially == LocalInit => LinesInBounds
<1>. SUFFICES ASSUME LocalInit PROVE LinesInBounds
  OBVIOUS
<1>1. line = 0 /\ archived = 0 /\ late = 0
  BY DEF LocalInit
<1>2. restarting \in BOOLEAN
  BY DEF LocalInit
<1>3. ReadLines = {}
  BY <1>1 DEF ReadLines, WrittenLines
<1>4. Cardinality({}) = 0
  BY FS_EmptySet
<1>. QED
  BY <1>1, <1>2, <1>3, <1>4, LocalReaderAssumption DEF LinesInBounds

LEMMA LocalTypes == GroupInv /\ LinesInv /\ LinesInBounds => LocalTypeOK
<1>. SUFFICES ASSUME GroupInv, LinesInv, LinesInBounds PROVE LocalTypeOK
  OBVIOUS
<1>1. /\ StreamTypes /\ line \in Nat /\ late \in Nat /\ MaxLate \in Nat /\ MaxLines \in Nat
      /\ line <= MaxLines /\ late <= MaxLate /\ restarting \in BOOLEAN /\ archived \in Nat
  BY LocalReaderAssumption DEF LinesInv, StreamTypes, LinesInBounds
<1>2. archived <= line
  BY <1>1, ReadAreFinite DEF LinesInBounds
<1>3. pipes \in [Launches -> Seq(1 .. MaxLines)]
  <2>1. ASSUME NEW l \in Launches PROVE pipes[l] \in Seq(1 .. MaxLines)
    <3>1. PICK s : s = pipes[l]
      OBVIOUS
    <3>2. s \in Seq(Nat)
      BY <1>1, <3>1 DEF StreamTypes
    <3>3. \A p \in 1 .. Len(s) : s[p] \in 1 .. MaxLines
      BY <1>1, <3>1 DEF StreamTypes, Piped, WrittenLines
    <3>4. s \in Seq(1 .. MaxLines)
      BY ONLY <3>2, <3>3, LocalReaderAssumption
    <3>. QED
      BY <3>1, <3>4
  <2>2. pipes \in [Launches -> Seq(Nat)]
    BY <1>1 DEF StreamTypes
  <2>. QED
    BY <2>1, <2>2
<1>4. queue \in Seq(0 .. MaxLines) /\ Len(queue) <= QueueSize
  <2>1. queue \in Seq(Nat) /\ \A j \in 1 .. Len(queue) : queue[j] \in Nat /\ queue[j] <= line
    BY <1>1, StreamFacts DEF StreamTypes, Queued
  <2>2. \A j \in 1 .. Len(queue) : queue[j] \in 0 .. MaxLines
    BY <1>1, <2>1
  <2>. QED
    BY <1>1, <2>1, <2>2 DEF StreamTypes
<1>5. inHand \in [Launches -> 0 .. MaxLines]
  BY <1>1 DEF StreamTypes
<1>6. taken \in SUBSET (1 .. MaxLines) /\ lost \in SUBSET (1 .. MaxLines)
  BY <1>1 DEF StreamTypes, WrittenLines
<1>. QED
  BY <1>1, <1>2, <1>3, <1>4, <1>5, <1>6 DEF LocalTypeOK, GroupInv, StreamTypes

\* Every component keeps its variables within their types and bounds: the queues their
\* sizes, the counters their limits, files and lists their kinds of items (the modules
\* name the code of each).
THEOREM ComponentsKeepTypes == ComponentsSpec => []ComponentsTypeOK
<1>. DEFINE Supervised == BoxInv /\ SlurmInv /\ AttachInv /\ TailInv /\ GroupInv /\ LinesInv
                          /\ LinesInBounds
            Stored     == QueueInv /\ IncidentInv /\ VaultInv /\ FileInv /\ BranchInv
            Watched    == GraphInv /\ ShakeInv /\ ResponsesCounted /\ DetectorInv /\ DetectorBounds
            Inv        == which \in Components /\ Supervised /\ Stored /\ Watched
<1>1. ComponentsInit => Inv
  <2>. SUFFICES ASSUME ComponentsInit PROVE Inv
    OBVIOUS
  <2>1. Supervised
    BY BoxInitially, SlurmInitially, AttachInitially, TailInitially, GroupInitially, LinesInitially,
       LinesInBoundsInitially DEF ComponentsInit
  <2>2. Stored
    BY QueueInitially, IncidentInitially, VaultInitially, FileInitially, BranchInitially
       DEF ComponentsInit
  <2>3. ResponsesCounted
    <3>1. HealingInit
      BY DEF ComponentsInit
    <3>2. responseFile.stamp = 0 /\ baseline = 0 /\ seenRequests \ atWork = {}
      BY <3>1 DEF HealingInit, NoFile
    <3>3. Cardinality({}) = 0
      BY FS_EmptySet
    <3>. QED
      BY <3>2, <3>3 DEF ResponsesCounted
  <2>4. Watched
    BY <2>3, GraphInitially, ShakeInitially, DetectorInitially, DetectorBoundsInitially
       DEF ComponentsInit
  <2>5. which \in Components
    BY DEF ComponentsInit
  <2>. QED
    BY <2>1, <2>2, <2>4, <2>5
<1>2. Inv /\ [ComponentsNext]_allVars => Inv'
  <2>. SUFFICES ASSUME Inv, [ComponentsNext]_allVars PROVE Inv'
    OBVIOUS
  <2>1. Supervised'
    BY Projections, BoxKeeps, SlurmKeeps, AttachKeeps, TailKeeps, GroupKeeps, LinesKeep,
       LinesStayInBounds
  <2>2. Stored'
    BY Projections, QueueKeeps, IncidentsKeep, VaultKeeps, FileKeeps, BranchesKeep
  <2>3. Watched'
    BY Projections, GraphKeeps, ShakeKeeps, ResponsesKeepCount, DetectorKeeps,
       DetectorStaysInBounds
  <2>4. UNCHANGED which
    BY DEF ComponentsNext, Only, allVars
  <2>. QED
    BY <2>1, <2>2, <2>3, <2>4
<1>3. Inv => ComponentsTypeOK
  <2>. SUFFICES ASSUME Inv PROVE ComponentsTypeOK
    OBVIOUS
  <2>1. DockerTypeOK /\ SlurmTypeOK /\ AttachTypeOK /\ TailTypeOK
    BY DEF BoxInv, SlurmInv, AttachInv, TailInv
  <2>2. LocalTypeOK
    BY LocalTypes
  <2>3. SessionQueueTypeOK /\ FixBranchesTypeOK
    BY DEF QueueInv, BranchInv
  <2>4. IncidentsTypeOK /\ VaultTypeOK /\ StateFileTypeOK
    BY IncidentTypes, VaultTypes, StateFileTypes
  <2>5. HealingTypeOK /\ LineDetectorsTypeOK
    BY HealingTypes, DetectorTypesInBounds
  <2>. QED
    BY <2>1, <2>2, <2>3, <2>4, <2>5 DEF ComponentsTypeOK
<1>. HIDE DEF Inv
<1>. QED
  BY <1>1, <1>2, <1>3, PTL DEF ComponentsSpec

=============================================================================
