---------------------------- MODULE SessionQueue ----------------------------
(***************************************************************************)
(* Session dispatch: `autosentry session apply` appends an action to a     *)
(* file (src/autosentry/cli/commands/session.py), the monitor drains it    *)
(* once a tick behind a cursor (monitor.py, _drain_session_action_queue).  *)
(* An id is the time it was drawn at; the line is written later.           *)
(***************************************************************************)
EXTENDS Naturals, Sequences

CONSTANTS
  Callers,         \* processes that queue actions
  MaxActions,      \* bound on actions
  MaxDrainCrashes, \* bound on crashes of the monitor
  MaxCursorFaults  \* bound on reads and writes of the cursor that fail

ASSUME SessionQueueAssumption ==
  MaxActions \in Nat /\ MaxDrainCrashes \in Nat /\ MaxCursorFaults \in Nat

ActionKinds == {"restart", "abort", "invalid"}

VARIABLES
  drawn,     \* the id a caller has drawn and not written, 0 for none
  lastDrawn, \* the clock
  actions,     \* session_actions.jsonl: id and kind
  seenId,    \* the cursor file, 0 for none
  drainAt,   \* idle, reading
  batch,     \* the lines that were read and not gone through
  lastId,    \* last_id
  appliedId, \* applied_id, 0 for None
  applied,   \* ids in the order they were acted on
  again,     \* how often an action was one that had been acted on, or an earlier one
  over,      \* the monitor stops
  crossed,   \* an id was drawn while another was drawn and not written
  drainCrashes, cursorFaults

queueVars == <<drawn, lastDrawn, actions, seenId, drainAt, batch, lastId, appliedId,
               applied, again, over, crossed, drainCrashes, cursorFaults>>

SessionQueueInit ==
  /\ drawn = [c \in Callers |-> 0] /\ lastDrawn = 0 /\ actions = <<>> /\ seenId = 0
  /\ drainAt = "idle" /\ batch = <<>> /\ lastId = 0 /\ appliedId = 0
  /\ applied = <<>> /\ again = 0 /\ over = FALSE /\ crossed = FALSE
  /\ drainCrashes = 0 /\ cursorFaults = 0

callerVars == <<drawn, lastDrawn, actions, crossed>>
drainVars  == <<seenId, drainAt, batch, lastId, appliedId, applied, again, over>>

\* session apply: the id, then the line.
DrawId(c) ==
  /\ drawn[c] = 0 /\ lastDrawn < MaxActions
  /\ lastDrawn' = lastDrawn + 1
  /\ drawn' = [drawn EXCEPT ![c] = lastDrawn + 1]
  /\ crossed' = (crossed \/ \E d \in Callers : drawn[d] # 0)
  /\ UNCHANGED <<actions, drainVars, drainCrashes, cursorFaults>>

WriteAction(c) ==
  /\ drawn[c] # 0
  /\ \E k \in ActionKinds : actions' = Append(actions, [id |-> drawn[c], kind |-> k])
  /\ drawn' = [drawn EXCEPT ![c] = 0]
  /\ UNCHANGED <<lastDrawn, crossed, drainVars, drainCrashes, cursorFaults>>

CursorFault == cursorFaults < MaxCursorFaults /\ cursorFaults' = cursorFaults + 1

\* The tick: the cursor, or nothing when it cannot be read, and all lines, at once.
\* (Lines that cannot be read leave everything for the next tick.)
DrainBegins ==
  /\ drainAt = "idle" /\ ~over
  /\ drainAt' = "reading" /\ batch' = actions /\ appliedId' = 0
  /\ \/ lastId' = seenId /\ UNCHANGED cursorFaults
     \/ lastId' = 0 /\ CursorFault
  /\ UNCHANGED <<callerVars, seenId, applied, again, over, drainCrashes>>

\* The action acted on last comes after this one, or is this one.
ActedOn(id) == applied # <<>> /\ id <= applied[Len(applied)]

Apply(e) ==
  IF e.kind = "invalid" THEN UNCHANGED <<applied, again>>
  ELSE /\ applied' = Append(applied, e.id)
       /\ again' = IF ActedOn(e.id) THEN again + 1 ELSE again

\* One line: behind the cursor, refused by the model, or applied; a failure of the
\* action is logged and consumed all the same, and an abort that fails stops nothing.
DrainLineOfQueue ==
  /\ drainAt = "reading" /\ batch # <<>> /\ ~over
  /\ LET e == Head(batch)
     IN /\ batch' = Tail(batch)
        /\ IF e.id <= lastId THEN UNCHANGED <<appliedId, applied, again, over>>
           ELSE /\ appliedId' = e.id
                /\ Apply(e)
                /\ over' \in {FALSE, e.kind = "abort"}
  /\ UNCHANGED <<callerVars, seenId, drainAt, lastId, drainCrashes, cursorFaults>>

DrainOver == drainAt = "reading" /\ (batch = <<>> \/ over)

\* Mutant: the cursor moves to the newest action there is.
DrainEndsAtNewest ==
  /\ DrainOver
  /\ drainAt' = "idle" /\ batch' = <<>>
  /\ seenId' = IF actions = <<>> THEN seenId ELSE actions[Len(actions)].id
  /\ UNCHANGED <<callerVars, lastId, appliedId, applied, again, over, drainCrashes, cursorFaults>>

\* The cursor is written once, after the batch, and a stop cuts the batch short.  A
\* write that fails leaves the file as it was, or empty.
DrainEnds ==
  /\ DrainOver
  /\ drainAt' = "idle" /\ batch' = <<>>
  /\ \/ seenId' = (IF appliedId # 0 THEN appliedId ELSE seenId) /\ UNCHANGED cursorFaults
     \/ appliedId # 0 /\ seenId' \in {seenId, 0} /\ CursorFault
  /\ UNCHANGED <<callerVars, lastId, appliedId, applied, again, over, drainCrashes>>

\* A signal, between any two lines.
DrainSignalled ==
  /\ ~over /\ over' = TRUE
  /\ UNCHANGED <<callerVars, seenId, drainAt, batch, lastId, appliedId, applied, again,
                 drainCrashes, cursorFaults>>

\* A monitor that was stopped, or is killed, over a line or over the cursor, which is
\* then empty, and is started again.
MonitorRestarts ==
  /\ \/ over /\ drainAt = "idle" /\ UNCHANGED <<seenId, drainCrashes>>
     \/ /\ drainCrashes < MaxDrainCrashes /\ drainCrashes' = drainCrashes + 1
        /\ seenId' \in {seenId} \cup (IF DrainOver /\ appliedId # 0 THEN {0} ELSE {})
  /\ drainAt' = "idle" /\ batch' = <<>> /\ lastId' = 0 /\ appliedId' = 0 /\ over' = FALSE
  /\ UNCHANGED <<callerVars, applied, again, cursorFaults>>

SessionQueueNext ==
  \/ \E c \in Callers : DrawId(c) \/ WriteAction(c)
  \/ DrainBegins \/ DrainLineOfQueue \/ DrainEnds
  \/ DrainSignalled \/ MonitorRestarts

-----------------------------------------------------------------------------
(* Properties *)

SessionQueueTypeOK ==
  /\ drawn \in [Callers -> 0 .. MaxActions] /\ lastDrawn \in 0 .. MaxActions
  /\ actions \in Seq([id : 1 .. MaxActions, kind : ActionKinds])
  /\ batch \in Seq([id : 1 .. MaxActions, kind : ActionKinds])
  /\ seenId \in 0 .. MaxActions /\ lastId \in 0 .. MaxActions /\ appliedId \in 0 .. MaxActions
  /\ drainAt \in {"idle", "reading"} /\ applied \in Seq(1 .. MaxActions)
  /\ over \in BOOLEAN /\ crossed \in BOOLEAN
  /\ again \in Nat /\ drainCrashes \in Nat /\ cursorFaults \in Nat

Consumed(e) == e.kind = "invalid" \/ e.id \in {applied[i] : i \in 1 .. Len(applied)}

\* What the cursor has passed has been acted on or refused, through kills before and
\* over the write of the cursor, reads and writes of it that fail, and stops that cut
\* a batch short, as long as no id is drawn while another is drawn and not written:
\* two sessions may write their ids in the other order, although session.py:112-113
\* says they sort as they were inserted, and the cursor passes the smaller one.
CursorPassesConsumed ==
  ~crossed =>
    \A i \in 1 .. Len(actions) : actions[i].id <= seenId => Consumed(actions[i])

\* Actions are carried out in the order of their ids, and the monitor goes back to
\* one that was, or to an earlier one, at most once for each time it was killed or
\* could not read or write the cursor (with the exception above: two ids written in
\* the other order; monitor.py:526-592).
AppliedOncePerId == ~crossed => again <= drainCrashes + cursorFaults
=============================================================================
