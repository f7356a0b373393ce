----------------------------- MODULE LocalReader -----------------------------
(***************************************************************************)
(* The local supervisor (src/autosentry/supervisors/local.py): a child in  *)
(* a process group of its own, whose leader may leave workers behind; a    *)
(* reader thread per launch, which lives while anybody of the group holds  *)
(* the pipe; a bounded queue between the readers and the monitor.  Lines   *)
(* are numbered over all launches.                                         *)
(***************************************************************************)
EXTENDS Naturals, Sequences, SequencesExt

CONSTANTS
  MaxStarts,  \* bound on launches
  MaxLines,   \* bound on lines written
  QueueSize,  \* maxsize of the queue
  MaxLate     \* bound on stops that do not wait for the reader long enough

ASSUME LocalReaderAssumption ==
  MaxStarts \in Nat \ {0} /\ MaxLines \in Nat /\ QueueSize \in Nat \ {0} /\ MaxLate \in Nat

Launches == 1 .. MaxStarts
Sentinel == 0

VARIABLES
  launch,     \* the newest launch; _proc
  leader,     \* it runs
  workers,    \* launches with background workers alive in their group
  pipes,      \* what each launch has written and its reader has not read
  readers,    \* what the reader of each launch is at: off, read, full, again
  inHand,     \* the line each reader holds
  queue,      \* the queue of the supervisor: lines, sentinels
  archived,   \* process.log, as the number of its lines
  line,       \* lines written
  taken,      \* the lines the monitor has had
  lost,       \* lines the reader dropped: the old for the new
  localAt,    \* where stop() is: idle, then TERM, KILL, the last KILL, the join
  restarting, \* start() follows
  late

localVars == <<launch, leader, workers, pipes, readers, inHand, queue, archived, line,
               taken, lost, localAt, restarting, late>>

LocalInit ==
  /\ launch = 0 /\ leader = FALSE /\ workers = {}
  /\ pipes = [l \in Launches |-> <<>>] /\ readers = [l \in Launches |-> "off"]
  /\ inHand = [l \in Launches |-> 0] /\ queue = <<>>
  /\ archived = 0 /\ line = 0 /\ taken = {} /\ lost = {}
  /\ localAt = "idle" /\ restarting = FALSE /\ late = 0

groupVars  == <<launch, leader, workers>>
streamVars == <<pipes, readers, inHand, queue, archived, line, taken, lost>>
callVars   == <<localAt, restarting, late>>

HoldsPipe(l) == (l = launch /\ leader) \/ l \in workers

-----------------------------------------------------------------------------
(* The process group *)

LeaderForks ==
  /\ leader /\ launch \notin workers
  /\ workers' = workers \cup {launch}
  /\ UNCHANGED <<launch, leader, streamVars, callVars>>

LeaderExits ==
  /\ leader /\ leader' = FALSE
  /\ UNCHANGED <<launch, workers, streamVars, callVars>>

GroupWrites(l) ==
  /\ HoldsPipe(l) /\ line < MaxLines
  /\ line' = line + 1
  /\ pipes' = [pipes EXCEPT ![l] = Append(@, line + 1)]
  /\ UNCHANGED <<groupVars, callVars, readers, inHand, queue, archived, taken, lost>>

-----------------------------------------------------------------------------
(* The reader threads, _pump_lines *)

Reader(l, phase) == readers' = [readers EXCEPT ![l] = phase]

\* A line: to process.log, then to the queue if there is room.
ReaderPuts(l) ==
  /\ readers[l] = "read" /\ pipes[l] # <<>>
  /\ pipes' = [pipes EXCEPT ![l] = Tail(@)]
  /\ archived' = archived + 1
  /\ IF Len(queue) < QueueSize
       THEN queue' = Append(queue, Head(pipes[l])) /\ UNCHANGED <<readers, inHand>>
       ELSE /\ Reader(l, "full") /\ inHand' = [inHand EXCEPT ![l] = Head(pipes[l])]
            /\ UNCHANGED queue
  /\ UNCHANGED <<groupVars, callVars, line, taken, lost>>

\* Mutant: a queue that is full loses the newest line.
ReaderGivesUp(l) ==
  /\ readers[l] = "full"
  /\ Reader(l, "read")
  /\ lost' = lost \cup {inHand[l]} /\ inHand' = [inHand EXCEPT ![l] = 0]
  /\ UNCHANGED <<groupVars, callVars, pipes, queue, archived, line, taken>>

\* The oldest item makes room, unless the monitor has done so.
ReaderDrops(l) ==
  /\ readers[l] = "full"
  /\ Reader(l, "again")
  /\ IF queue = <<>> THEN UNCHANGED <<queue, lost>>
     ELSE queue' = Tail(queue) /\ lost' = lost \cup ({Head(queue)} \ {Sentinel})
  /\ UNCHANGED <<groupVars, callVars, pipes, inHand, archived, line, taken>>

\* The second try: only another reader can have filled the place.
ReaderPutsAgain(l) ==
  /\ readers[l] = "again"
  /\ Reader(l, "read") /\ inHand' = [inHand EXCEPT ![l] = 0]
  /\ IF Len(queue) < QueueSize THEN queue' = Append(queue, inHand[l]) /\ UNCHANGED lost
     ELSE lost' = lost \cup {inHand[l]} /\ UNCHANGED queue
  /\ UNCHANGED <<groupVars, callVars, pipes, archived, line, taken>>

\* The end of the stream: a sentinel if there is room.
ReaderEnds(l) ==
  /\ readers[l] = "read" /\ pipes[l] = <<>> /\ ~HoldsPipe(l)
  /\ Reader(l, "off")
  /\ queue' = IF Len(queue) < QueueSize THEN Append(queue, Sentinel) ELSE queue
  /\ UNCHANGED <<groupVars, callVars, pipes, inHand, archived, line, taken, lost>>

\* iter_log_lines: a line, or a quiet tick, of which a sentinel is one.
MonitorTakes ==
  /\ queue # <<>> /\ localAt = "idle"
  /\ queue' = Tail(queue)
  /\ taken' = taken \cup ({Head(queue)} \ {Sentinel})
  /\ UNCHANGED <<groupVars, callVars, pipes, readers, inHand, archived, line, lost>>

-----------------------------------------------------------------------------
(* start and stop *)

LocalLaunch ==
  /\ launch' = launch + 1 /\ leader' = TRUE
  /\ readers' = [readers EXCEPT ![launch + 1] = "read"]
  /\ UNCHANGED <<workers, pipes, inHand, queue, archived, line, taken, lost, late>>

\* start() with no child yet.
LocalStart ==
  /\ localAt = "idle" /\ launch = 0
  /\ LocalLaunch
  /\ UNCHANGED <<localAt, restarting>>

\* start() over a dead leader stops what it left first; stop() of a live one, for
\* a restart, a pause or the end.
LocalStop(restart) ==
  /\ localAt = "idle" /\ launch > 0
  /\ restarting' = restart
  /\ localAt' = IF leader THEN "term" ELSE "group"
  /\ UNCHANGED <<groupVars, streamVars, late>>

\* SIGTERM to the group: the leader and the workers each obey or not.
LocalTerm ==
  /\ localAt = "term" /\ localAt' = "wait"
  /\ leader' \in {leader, FALSE}
  /\ workers' \in {workers, workers \ {launch}}
  /\ UNCHANGED <<launch, streamVars, restarting, late>>

\* The timeout passes and the group is killed, or the leader has gone.
LocalWait ==
  /\ localAt = "wait" /\ localAt' = "group"
  /\ leader' = FALSE
  /\ workers' = IF leader THEN workers \ {launch} ELSE workers
  /\ UNCHANGED <<launch, streamVars, restarting, late>>

\* Mutant: a group whose leader obeyed is taken to be gone.
LocalGroupTrusted ==
  /\ localAt = "group" /\ localAt' = "join"
  /\ UNCHANGED <<groupVars, streamVars, restarting, late>>

\* The group is killed once more, under the id of a leader that is reaped.
LocalGroup ==
  /\ localAt = "group" /\ localAt' = "join"
  /\ workers' = workers \ {launch}
  /\ UNCHANGED <<launch, leader, streamVars, restarting, late>>

\* _finish_reader: the reader has ended, or it is left to it after five seconds.
LocalJoin ==
  /\ localAt = "join"
  /\ \/ readers[launch] = "off" /\ UNCHANGED late
     \/ readers[launch] # "off" /\ late < MaxLate /\ late' = late + 1
  /\ localAt' = IF restarting THEN "start" ELSE "idle"
  /\ restarting' = FALSE
  /\ UNCHANGED <<groupVars, streamVars>>

LocalRelaunch ==
  /\ localAt = "start" /\ localAt' = "idle"
  /\ IF launch < MaxStarts THEN LocalLaunch
     ELSE UNCHANGED <<launch, leader, workers, streamVars, late>>
  /\ UNCHANGED restarting

LocalNext ==
  \/ LeaderForks \/ LeaderExits
  \/ \E l \in Launches :
       \/ GroupWrites(l)
       \/ ReaderPuts(l) \/ ReaderDrops(l) \/ ReaderPutsAgain(l) \/ ReaderEnds(l)
  \/ MonitorTakes
  \/ LocalStart \/ (\E restart \in BOOLEAN : LocalStop(restart))
  \/ LocalTerm \/ LocalWait \/ LocalGroup \/ LocalJoin \/ LocalRelaunch

-----------------------------------------------------------------------------
(* Properties *)

LocalTypeOK ==
  /\ launch \in 0 .. MaxStarts /\ leader \in BOOLEAN /\ workers \in SUBSET Launches
  /\ pipes \in [Launches -> Seq(1 .. MaxLines)]
  /\ readers \in [Launches -> {"off", "read", "full", "again"}]
  /\ inHand \in [Launches -> 0 .. MaxLines]
  /\ queue \in Seq(0 .. MaxLines) /\ Len(queue) <= QueueSize
  /\ archived \in 0 .. MaxLines /\ line \in 0 .. MaxLines
  /\ taken \in SUBSET (1 .. MaxLines) /\ lost \in SUBSET (1 .. MaxLines)
  /\ localAt \in {"idle", "term", "wait", "group", "join", "start"}
  /\ restarting \in BOOLEAN /\ late \in 0 .. MaxLate

\* Nobody of an earlier launch is alive beside a new one, and nobody at all between
\* the stop and the start of a restart, although the leader may obey and its workers
\* not, and either may be gone before the stop (local.py, stop and start).
OneGroup ==
  /\ workers \subseteq {launch}
  /\ localAt \in {"join", "start"} => workers = {} /\ ~leader

\* Every line that was read is on its way, taken by the monitor or dropped; and while
\* the readers keep apart, only for newer lines of a full queue: what is dropped is
\* older than all that is still to come (local.py, _pump_lines).
NewestLinesKept ==
  /\ archived = Cardinality(taken) + Cardinality(lost)
                + Cardinality({j \in 1 .. Len(queue) : queue[j] # Sentinel})
                + Cardinality({l \in Launches : inHand[l] # 0})
  /\ late = 0 =>
       \A i \in lost : \A j \in 1 .. Len(queue) : queue[j] # Sentinel => i < queue[j]
=============================================================================
