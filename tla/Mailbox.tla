------------------------------- MODULE Mailbox -------------------------------
(***************************************************************************)
(* The mailbox of the monitor: the Dispatcher at one end of the inbox file *)
(* and the monitor's reader (inbox.py) at the other.  The reader keeps the *)
(* id of the last reply it applied in the monitor's state, and finds its   *)
(* place in the file by the first line that carries that id.               *)
(***************************************************************************)
EXTENDS Dispatcher

CONSTANT None    \* the cursor of a monitor that has applied nothing

ASSUME MailboxAssumption == None \notin ReplyIds

VARIABLES
  mpc,           \* "read", or "save" between the commands and the state save
  cursor,        \* last_processed_inbox_id in memory
  savedCursor,   \* the same in the state file
  applied        \* history: how often each reply was applied; 2 is "again"

readerVars == <<mpc, cursor, savedCursor, applied>>
vars == <<dispatcherVars, readerVars>>

Init ==
  /\ DispatcherInit
  /\ mpc = "read" /\ cursor = None /\ savedCursor = None
  /\ applied = [id \in ReplyIds |-> 0]

\* The line the reader looks for: the first with the id.
PlaceOf(id) ==
  CHOOSE i \in 1 .. Len(inbox) : inbox[i] = id /\ \A j \in 1 .. i - 1 : inbox[j] # id

\* Mutant: the line after the cursor's is left out.
ReadNewSkipping ==
  IF cursor = None THEN inbox
  ELSE IF \A i \in 1 .. Len(inbox) : inbox[i] # cursor THEN <<>>
  ELSE SubSeq(inbox, PlaceOf(cursor) + 2, Len(inbox))

\* read_new: the lines after the cursor's; none, if no line has its id.
ReadNew ==
  IF cursor = None THEN inbox
  ELSE IF \A i \in 1 .. Len(inbox) : inbox[i] # cursor THEN <<>>
  ELSE SubSeq(inbox, PlaceOf(cursor) + 1, Len(inbox))

\* The history after the first n of the lines were applied.
AppliedAfter(n) ==
  [id \in ReplyIds |->
     LET times == {i \in 1 .. n : ReadNew[i] = id}
     IN  IF times = {} THEN applied[id]
         ELSE IF applied[id] = 0 /\ \A i, j \in times : i = j THEN 1 ELSE 2]

\* Mutant: the cursor moves on to the last line even if nothing was applied.
ApplyCommandsFirstOnly ==
  /\ mpc = "read" /\ mpc' = "save"
  /\ IF ReadNew = <<>> THEN UNCHANGED <<cursor, applied>>
     ELSE applied' = AppliedAfter(1) /\ cursor' = inbox[Len(inbox)]
  /\ UNCHANGED <<dispatcherVars, savedCursor>>

\* Mutant: the cursor is not advanced.
ApplyCommandsUnmarked ==
  /\ mpc = "read" /\ mpc' = "save"
  /\ applied' = AppliedAfter(Len(ReadNew))
  /\ UNCHANGED <<dispatcherVars, cursor, savedCursor>>

ApplyCommands ==
  /\ mpc = "read" /\ mpc' = "save"
  /\ IF ReadNew = <<>> THEN UNCHANGED <<cursor, applied>>
     ELSE /\ applied' = AppliedAfter(Len(ReadNew))
          /\ cursor' = inbox[Len(inbox)]
  /\ UNCHANGED <<dispatcherVars, savedCursor>>

\* The state save at the end of the loop body; one that fails is left for the
\* next iteration.
SaveCursor ==
  /\ mpc = "save" /\ mpc' = "read"
  /\ \/ savedCursor' = cursor /\ UNCHANGED faults
     \/ Fault("io") /\ UNCHANGED savedCursor
  /\ UNCHANGED <<files, chatVars, tickVars, mem, dropped, cursor, applied>>

\* The monitor is killed, perhaps between two commands, and started again.
MonitorRestart ==
  /\ Fault("restart")
  /\ \/ UNCHANGED applied
     \/ mpc = "read" /\ \E n \in 1 .. Len(ReadNew) : applied' = AppliedAfter(n)
  /\ cursor' = savedCursor /\ mpc' = "read"
  /\ UNCHANGED <<files, chatVars, tickVars, mem, dropped, savedCursor>>

Next ==
  \/ DispatcherNext /\ UNCHANGED readerVars
  \/ ApplyCommands \/ SaveCursor \/ MonitorRestart

Spec == Init /\ [][Next]_vars

\* Both processes run: a tick does not stop half way, and the interval between
\* two idle sweeps elapses again and again.  Faults are bounded, so a call that
\* fails is at some point followed by one that succeeds.
Fairness ==
  /\ WF_vars(DaemonStep /\ UNCHANGED readerVars)
  /\ SF_vars(StartPoll /\ UNCHANGED readerVars)
  /\ \A k \in Keys : SF_vars(PollThread(k) /\ UNCHANGED readerVars)
  /\ WF_vars(ApplyCommands) /\ WF_vars(SaveCursor)

FairSpec == Spec /\ Fairness

-----------------------------------------------------------------------------
TypeOK ==
  /\ DispatcherTypeOK
  /\ mpc \in {"read", "save"}
  /\ cursor \in ReplyIds \cup {None} /\ savedCursor \in ReplyIds \cup {None}
  /\ applied \in [ReplyIds -> 0 .. 2]

\* A reply the reader has passed, and will therefore not read again, was applied:
\* killed at any point, the monitor leaves out no command.  Lines may come twice
\* in the inbox, hence the place of the cursor (inbox.py, apply_commands).
PassedIsApplied ==
  \A c \in {cursor, savedCursor} \ {None} :
    /\ Holds(inbox, c)
    /\ \A i \in 1 .. PlaceOf(c) : applied[inbox[i]] > 0

\* While nothing fails, the two processes, in any order of their steps, post no notice
\* twice, keep the notices of a key in one thread and apply no command twice.  That a
\* notice is posted at all is not said, and is not so: one appended while the daemon
\* delivers is overwritten by its save of the outbox (daemon.py:246).
AtMostOnceWithoutFaults ==
  faults = 0 =>
    /\ \A i, j \in 1 .. Len(posts) : posts[i].id = posts[j].id => i = j
    /\ \A i \in 1 .. Len(posts), k \in Keys :
         (\E e \in 1 .. Len(outbox) : outbox[e].id = posts[i].id /\ outbox[e].key = k)
           => posts[i].thread = mem.threads[k]
    /\ \A id \in ReplyIds : applied[id] < 2

\* A reply written in a thread the daemon has recorded is applied in the end,
\* however often either process is killed, unless a tick that raised dropped it.
RepliesApplied ==
  \A k \in Keys : \A n \in 1 .. MaxReplies :
    (disk.threads[k] # NoThread /\ posts[disk.threads[k]].replies >= n)
      ~> (applied[<<k, n>>] > 0 \/ <<k, n>> \in dropped)

\* inbox.py:19-20: the cursor is there "so we don't re-apply commands".
AppliedOnce == \A id \in ReplyIds : applied[id] < 2

=============================================================================
