------------------------------- MODULE Healing -------------------------------
(***************************************************************************)
(* The healer that asks a model (src/autosentry/healers/claude.py): either *)
(* through the session an operator has open, with a request file and a     *)
(* response file that `autosentry healer respond` writes                   *)
(* (cli/commands/healer.py), or through a graph of model calls             *)
(* (healers/langgraph_graph.py), in which a second model may send the      *)
(* proposal of the first one back.  Calls are numbered; the number stands  *)
(* for the incident the call is about.                                     *)
(***************************************************************************)
EXTENDS Naturals, FiniteSets

CONSTANTS
  MaxCalls,  \* bound on calls of the healer
  MaxSteps   \* healing.langgraph.max_steps

ASSUME HealingAssumption == MaxCalls \in Nat /\ MaxSteps \in Nat \ {0}

Calls == 1 .. MaxCalls
Proposals == 1 .. 2 * MaxSteps
NoFile == [call |-> 0, stamp |-> 0]

VARIABLES
  healerAt,    \* idle; asking, waiting; diagnose, check, decide
  call,        \* this call, and the last one
  baseline,    \* time stamp of a response file that was there before
  requested,   \* the call in the request file, 0 for none
  responseFile, \* the call it answers and its time stamp
  seenRequests, \* requests the session has seen
  atWork,      \* and works on
  abandoned,   \* calls that ended without reading an answer
  answered,    \* answers that were acted on: for which call, from which
  crossCheck,  \* cross_check.enabled, for this call
  steps,       \* attempt, in the state of the graph
  made,        \* proposals of this call
  proposed,    \* the one in the state, 0 for None
  verdict,     \* none, APPROVE, MODIFY, REJECT
  feedback,    \* the proposal the feedback in the state is about, 0 for none
  turnedDown,  \* proposals that were rejected
  outcome      \* what the graph returned, 0 for no action

healingVars == <<healerAt, call, baseline, requested, responseFile, seenRequests, atWork, abandoned,
                 answered, crossCheck, steps, made, proposed, verdict, feedback, turnedDown,
                 outcome>>
fileShake == <<baseline, requested, responseFile, seenRequests, atWork, abandoned, answered>>
graphState == <<crossCheck, steps, made, proposed, verdict, feedback, turnedDown, outcome>>

HealingInit ==
  /\ healerAt = "idle" /\ call = 0 /\ baseline = 0 /\ requested = 0
  /\ responseFile = NoFile /\ seenRequests = {} /\ atWork = {} /\ abandoned = {}
  /\ answered = {}
  /\ crossCheck = FALSE /\ steps = 0 /\ made = 0 /\ proposed = 0 /\ verdict = "none"
  /\ feedback = 0 /\ turnedDown = {} /\ outcome = 0

-----------------------------------------------------------------------------
(* Through a session *)

\* Mutant: whatever response there is will do.
AskWithoutBaseline ==
  /\ healerAt = "idle" /\ call < MaxCalls
  /\ call' = call + 1 /\ healerAt' = "asking"
  /\ baseline' = 0
  /\ UNCHANGED <<requested, responseFile, seenRequests, atWork, abandoned, answered, graphState>>

\* The stamp of what an earlier call may have left is noted first ...
Ask ==
  /\ healerAt = "idle" /\ call < MaxCalls
  /\ call' = call + 1 /\ healerAt' = "asking"
  /\ baseline' = responseFile.stamp
  /\ UNCHANGED <<requested, responseFile, seenRequests, atWork, abandoned, answered, graphState>>

\* ... then the request is written, over the last one.
WriteRequest ==
  /\ healerAt = "asking"
  /\ requested' = call /\ healerAt' = "waiting"
  /\ UNCHANGED <<call, baseline, responseFile, seenRequests, atWork, abandoned, answered, graphState>>

\* A look once a second: a newer file is the answer.
ReadAnswer ==
  /\ healerAt = "waiting" /\ responseFile.stamp > baseline
  /\ answered' = answered \cup {[for |-> call, from |-> responseFile.call]}
  /\ healerAt' = "idle"
  /\ UNCHANGED <<call, baseline, requested, responseFile, seenRequests, atWork, abandoned, graphState>>

\* timeout_seconds are over, or the monitor is killed: nobody tells the session.
GiveUp ==
  /\ healerAt \in {"asking", "waiting"}
  /\ abandoned' = abandoned \cup {call} /\ healerAt' = "idle"
  /\ UNCHANGED <<call, baseline, requested, responseFile, seenRequests, atWork, answered, graphState>>

SessionTakes ==
  /\ requested # 0 /\ requested \notin seenRequests
  /\ seenRequests' = seenRequests \cup {requested} /\ atWork' = atWork \cup {requested}
  /\ UNCHANGED <<healerAt, call, baseline, requested, responseFile, abandoned, answered,
                 graphState>>

\* healer respond: written aside and renamed, so that it is whole and newer.
Respond(c) ==
  /\ c \in atWork /\ atWork' = atWork \ {c}
  /\ responseFile' = [call |-> c, stamp |-> responseFile.stamp + 1]
  /\ UNCHANGED <<healerAt, call, baseline, requested, seenRequests, abandoned, answered, graphState>>

-----------------------------------------------------------------------------
(* Through the graph *)

\* prepare_context
Invoke(cc) ==
  /\ healerAt = "idle" /\ call < MaxCalls
  /\ call' = call + 1 /\ healerAt' = "diagnose" /\ crossCheck' = cc
  /\ steps' = 0 /\ made' = 0 /\ proposed' = 0 /\ verdict' = "none" /\ feedback' = 0
  /\ turnedDown' = {} /\ outcome' = 0
  /\ UNCHANGED fileShake

Finalize(p) == healerAt' = "idle" /\ outcome' = p

\* The first model, with its tools and the feedback, proposes an action, or nothing.
Diagnose ==
  /\ healerAt = "diagnose"
  /\ steps' = steps + 1
  /\ \/ made' = made + 1 /\ proposed' = made + 1
     \/ proposed' = 0 /\ UNCHANGED made
  /\ IF crossCheck THEN healerAt' = "check" /\ UNCHANGED outcome ELSE Finalize(proposed')
  /\ UNCHANGED <<call, crossCheck, verdict, feedback, turnedDown, fileShake>>

\* The second one: a modification takes the place of the proposal, if there is one.
CrossCheck ==
  /\ healerAt = "check" /\ proposed # 0
  /\ healerAt' = "decide"
  /\ \/ /\ verdict' = "APPROVE" /\ UNCHANGED <<made, proposed, feedback, turnedDown>>
     \/ /\ verdict' = "MODIFY" /\ UNCHANGED <<feedback, turnedDown>>
        /\ \/ made' = made + 1 /\ proposed' = made + 1
           \/ UNCHANGED <<made, proposed>>
     \/ /\ verdict' = "REJECT" /\ feedback' = proposed
        /\ turnedDown' = turnedDown \cup {proposed}
        /\ UNCHANGED <<made, proposed>>
  /\ UNCHANGED <<call, crossCheck, steps, outcome, fileShake>>

\* Mutant: the last proposal goes through when the steps are used up.
DecideWhenUsedUp ==
  /\ healerAt = "decide"
  /\ IF verdict = "REJECT" /\ steps < MaxSteps
     THEN healerAt' = "diagnose" /\ UNCHANGED outcome
     ELSE Finalize(proposed)
  /\ UNCHANGED <<call, crossCheck, steps, made, proposed, verdict, feedback, turnedDown, fileShake>>

\* Mutant: one step more than max_steps.
DecideOneMore ==
  /\ healerAt = "decide"
  /\ CASE verdict # "REJECT" -> Finalize(proposed)
       [] verdict = "REJECT" /\ steps > MaxSteps -> Finalize(0)
       [] OTHER -> healerAt' = "diagnose" /\ UNCHANGED outcome
  /\ UNCHANGED <<call, crossCheck, steps, made, proposed, verdict, feedback, turnedDown, fileShake>>

\* _decide_loop_or_finalize
Decide ==
  /\ healerAt = "decide"
  /\ CASE verdict # "REJECT" -> Finalize(proposed)
       [] verdict = "REJECT" /\ steps >= MaxSteps -> Finalize(0)
       [] OTHER -> healerAt' = "diagnose" /\ UNCHANGED outcome
  /\ UNCHANGED <<call, crossCheck, steps, made, proposed, verdict, feedback, turnedDown, fileShake>>

\* A call to a model raises, or the checker is given nothing: no action.
GraphRaises ==
  /\ healerAt \in {"diagnose", "check"}
  /\ Finalize(0)
  /\ UNCHANGED <<call, crossCheck, steps, made, proposed, verdict, feedback, turnedDown, fileShake>>

HealingNext ==
  \/ Ask \/ WriteRequest \/ ReadAnswer \/ GiveUp
  \/ SessionTakes \/ \E c \in Calls : Respond(c)
  \/ \E cc \in BOOLEAN : Invoke(cc)
  \/ Diagnose \/ CrossCheck \/ Decide \/ GraphRaises

-----------------------------------------------------------------------------
(* Properties *)

HealingTypeOK ==
  /\ healerAt \in {"idle", "asking", "waiting", "diagnose", "check", "decide"}
  /\ call \in 0 .. MaxCalls /\ baseline \in 0 .. MaxCalls /\ requested \in 0 .. MaxCalls
  /\ responseFile \in [call : 0 .. MaxCalls, stamp : 0 .. MaxCalls]
  /\ seenRequests \subseteq Calls /\ atWork \subseteq seenRequests /\ abandoned \subseteq Calls
  /\ answered \subseteq [for : Calls, from : Calls]
  /\ crossCheck \in BOOLEAN /\ steps \in 0 .. MaxSteps /\ made \in 0 .. 2 * MaxSteps
  /\ proposed \in 0 .. made /\ verdict \in {"none", "APPROVE", "MODIFY", "REJECT"}
  /\ feedback \in 0 .. made /\ turnedDown \subseteq Proposals /\ outcome \in 0 .. made

\* An answer is acted on once: the file it left behind is never read for a later
\* call, and as long as no call was given up each call gets its own.  The late answer
\* to one that was is taken by the next call, whose own answer the one after it takes
\* (claude.py, the stale-response guard).
AnswerIsOwn ==
  /\ \A x, y \in answered : x.from = y.from => x = y
  /\ \A x \in answered :
       x.from = x.for \/ \E c \in abandoned : c <= x.from /\ x.from < x.for

\* The graph never returns a proposal the checker turned down, however often it went
\* round; it asks again with the feedback to the last one, max_steps times at most
\* (langgraph_graph.py, _decide_loop_or_finalize).
RejectedNotReturned ==
  /\ outcome \notin turnedDown
  /\ crossCheck /\ outcome # 0 => verdict \in {"APPROVE", "MODIFY"}
  /\ Cardinality(turnedDown) <= MaxSteps
  /\ healerAt = "diagnose" /\ steps > 0 => feedback = proposed /\ feedback \in turnedDown
=============================================================================
