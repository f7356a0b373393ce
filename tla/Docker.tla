------------------------------- MODULE Docker -------------------------------
(***************************************************************************)
(* The Docker supervisor (src/autosentry/supervisors/docker.py) under the  *)
(* part of the monitor that calls it.  One name stands for one container:  *)
(* a dead one holds it until it is removed, which docker does by itself    *)
(* when the run command has --rm.  What inspect says of a dead container   *)
(* is neither a code nor a stamp, so the monitor takes it for an exit with *)
(* 0 and knows one exit from another by nothing.  Each container has a     *)
(* reader, a thread with a `docker logs -f` of its own; all of them share  *)
(* the one handle _proc.                                                   *)
(***************************************************************************)
EXTENDS Naturals

CONSTANTS
  MaxBoxes,   \* bound on containers run
  MaxBlips    \* bound on docker commands that fail or say nothing

ASSUME DockerAssumption == MaxBoxes \in Nat \ {0} /\ MaxBlips \in Nat

VARIABLES
  autoRemove, relaunches,  \* --rm; process.lifecycle is restart_always
  box,          \* what holds the name: none, up, dead
  boxes,        \* containers run
  pumps,        \* per container its reader: none, new, reading, closing (in its finally)
  follows,      \* the container its docker logs follows, 0 when that has ended
  proc,         \* _proc: whose docker logs it is, 0 for None
  cutOff,       \* another reader ended the docker logs of the newest container
  quit,         \* _stop of the supervisor
  boxAt,        \* where the monitor's thread is
  exitHandled,  \* _exit_handled_for holds the key of a child without a stamp
  deadSince,    \* the dead-child clock: alive, dead, or past the grace
  detached,     \* the iterator of log lines has ended
  interfered,   \* a pause, or a restart that brought nothing back, for the properties
  blips

worldOfBox == <<autoRemove, relaunches>>
readerVars == <<pumps, follows, proc, cutOff>>
boxVars == <<worldOfBox, box, boxes, readerVars, quit, boxAt, exitHandled, deadSince,
             detached, interfered, blips>>

Boxes == 1 .. MaxBoxes

DockerInit ==
  /\ autoRemove \in BOOLEAN /\ relaunches \in BOOLEAN
  /\ box = "none" /\ boxes = 0 /\ quit = FALSE
  /\ pumps = [n \in Boxes |-> "none"] /\ follows = [n \in Boxes |-> 0]
  /\ proc = 0 /\ cutOff = FALSE
  /\ boxAt = "start" /\ exitHandled = FALSE /\ deadSince = "alive"
  /\ detached = FALSE /\ interfered = FALSE /\ blips = 0

-----------------------------------------------------------------------------
(* The container and the threads that read its logs *)

BoxDies ==
  /\ box = "up"
  /\ box' = IF autoRemove THEN "none" ELSE "dead"
  /\ UNCHANGED <<worldOfBox, boxes, readerVars, quit, boxAt, exitHandled, deadSince, detached,
                 interfered, blips>>

monitorOfBox == <<worldOfBox, box, boxes, quit, boxAt, exitHandled, deadSince, detached,
                  interfered, blips>>

\* _pump_logs starts docker logs over whatever has the name, and puts it in _proc.
LogsStart(n) ==
  /\ pumps[n] = "new" /\ pumps' = [pumps EXCEPT ![n] = "reading"]
  /\ follows' = [follows EXCEPT ![n] = IF box = "none" THEN 0 ELSE boxes]
  /\ proc' = n
  /\ UNCHANGED <<monitorOfBox, cutOff>>

\* docker logs ends with the container it follows; its reader does not know yet.
LogsEnd(n) ==
  /\ follows[n] # 0 /\ (box # "up" \/ follows[n] # boxes)
  /\ follows' = [follows EXCEPT ![n] = 0]
  /\ UNCHANGED <<monitorOfBox, pumps, proc, cutOff>>

\* The reader finds its stream at the end, or the event set at the next line.
StreamEnds(n) ==
  /\ pumps[n] = "reading" /\ (follows[n] = 0 \/ quit)
  /\ pumps' = [pumps EXCEPT ![n] = "closing"]
  /\ UNCHANGED <<monitorOfBox, follows, proc, cutOff>>

\* Its finally clause ends what _proc holds by now, which may be the docker logs of
\* the next container.
ReaderCloses(n) ==
  /\ pumps[n] = "closing" /\ pumps' = [pumps EXCEPT ![n] = "none"]
  /\ follows' = [follows EXCEPT ![proc] = 0]
  /\ cutOff' = (cutOff \/ (proc # n /\ proc = boxes /\ follows[proc] # 0))
  /\ UNCHANGED <<monitorOfBox, proc>>

BoxReader == \E n \in Boxes : LogsStart(n) \/ LogsEnd(n) \/ StreamEnds(n) \/ ReaderCloses(n)

-----------------------------------------------------------------------------
(* The supervisor.  Each operator says what the call leaves in its state,    *)
(* and whether it raised.                                                    *)

World == [box |-> box, boxes |-> boxes, pumps |-> pumps, follows |-> follows,
          proc |-> proc, cutOff |-> cutOff, quit |-> quit, blips |-> blips, raised |-> FALSE]

\* docker inspect: an answer that fails or comes too late is "not running".
InspectOf(w) == {[up |-> w.box = "up", blips |-> w.blips]}
  \cup (IF w.box = "up" /\ w.blips < MaxBlips
          THEN {[up |-> FALSE, blips |-> w.blips + 1]} ELSE {})

LogsRun(w) == w.proc # 0 /\ w.follows[w.proc] # 0

\* docker run, with a new reader for the new container.
RunBox(w) ==
  [w EXCEPT !.box = "up", !.boxes = @ + 1, !.pumps[w.boxes + 1] = "new",
            !.cutOff = FALSE]

\* Mutant: the event that stop() has set stays set.
StartStillQuit(w) ==
  IF LogsRun(w) THEN {w}
  ELSE IF w.box # "none" \/ w.boxes = MaxBoxes THEN {[w EXCEPT !.raised = TRUE]}
  ELSE {RunBox(w)}

\* start(): while the docker logs in _proc runs it is taken for the child; a name that
\* is taken makes docker run fail.
StartFrom(w) ==
  IF LogsRun(w) THEN {w}
  ELSE IF w.box # "none" \/ w.boxes = MaxBoxes THEN {[w EXCEPT !.raised = TRUE]}
  ELSE {[RunBox(w) EXCEPT !.quit = FALSE]}

\* The newest reader is waited for: its docker logs has ended with the container, it
\* ends what _proc holds, and it is gone.
Joined(w) ==
  LET n    == w.boxes
      last == IF w.pumps[n] = "new" THEN n ELSE w.proc
      ends == IF w.pumps[n] = "none" THEN {} ELSE {n, last}
  IN [w EXCEPT !.pumps[n] = "none", !.proc = last,
               !.follows = [m \in Boxes |-> IF m \in ends THEN 0 ELSE @[m]]]

\* stop(): a container that is not seen alive is left, its name with it; docker stop
\* and docker rm may fail without a word, or the reader outlast its five seconds.
StopFrom(w) ==
  UNION {IF ~i.up THEN {[w EXCEPT !.quit = TRUE, !.blips = i.blips]}
         ELSE {[Joined(w) EXCEPT !.box = "none", !.quit = TRUE]}
              \cup {[w EXCEPT !.box = b, !.quit = TRUE, !.blips = @ + 1] :
                      b \in IF w.blips = MaxBlips THEN {}
                            ELSE IF autoRemove THEN {"up", "none"} ELSE {"up", "dead", "none"}}
         : i \in InspectOf(w)}

RestartFrom(w) == UNION {StartFrom(v) : v \in StopFrom(w)}

BoxBecomes(w) ==
  /\ box' = w.box /\ boxes' = w.boxes /\ quit' = w.quit /\ blips' = w.blips
  /\ pumps' = w.pumps /\ follows' = w.follows /\ proc' = w.proc /\ cutOff' = w.cutOff

-----------------------------------------------------------------------------
(* The monitor's loop *)

\* The first start: one that raises is the end of the monitor.
BoxStart ==
  /\ boxAt = "start"
  /\ \E w \in StartFrom(World) :
       BoxBecomes(w) /\ boxAt' = IF w.raised THEN "over" ELSE "drain"
  /\ UNCHANGED <<worldOfBox, exitHandled, deadSince, detached, interfered>>

\* next(line_iter): once the event has been seen the iterator is finished.
BoxDrain ==
  /\ boxAt = "drain"
  /\ detached' = (detached \/ quit)
  /\ boxAt' = "tick"
  /\ UNCHANGED <<worldOfBox, box, boxes, readerVars, quit, exitHandled, deadSince, interfered, blips>>

\* _tick and _consume_inbox: nothing, a restart or a start (one that raises is a
\* crashed attempt, or a line in the log, and no more), or a pause.
BoxTick ==
  /\ boxAt = "tick" /\ boxAt' = "status"
  /\ \/ UNCHANGED <<box, boxes, readerVars, quit, blips, interfered>>
     \/ \E w \in RestartFrom(World) \cup StartFrom(World) :
          BoxBecomes(w) /\ interfered' = (interfered \/ w.box # "up")
     \/ \E w \in StopFrom(World) : BoxBecomes(w) /\ interfered' = TRUE
  /\ UNCHANGED <<worldOfBox, exitHandled, deadSince, detached>>

\* status() and the exit edge: the exit counts as one with 0.
BoxStatus ==
  /\ boxAt = "status"
  /\ \E i \in InspectOf(World) :
       IF i.up \/ exitHandled
         THEN /\ boxAt' = IF i.up THEN "alive" ELSE "watch"
              /\ blips' = i.blips
              /\ UNCHANGED <<box, boxes, readerVars, quit, exitHandled>>
         ELSE /\ exitHandled' = TRUE
              /\ IF relaunches
                   THEN \E w \in StartFrom([World EXCEPT !.blips = i.blips]) :
                          BoxBecomes(w) /\ boxAt' = IF w.raised THEN "stopping" ELSE "again"
                   ELSE /\ boxAt' = "stopping" /\ blips' = i.blips
                        /\ UNCHANGED <<box, boxes, readerVars, quit>>
  /\ UNCHANGED <<worldOfBox, deadSince, detached, interfered>>

\* _handle_exit may have brought a child back: the status is read again.
BoxAgain ==
  /\ boxAt = "again"
  /\ \E i \in InspectOf(World) : boxAt' = (IF i.up THEN "alive" ELSE "watch") /\ blips' = i.blips
  /\ UNCHANGED <<worldOfBox, box, boxes, readerVars, quit, exitHandled, deadSince, detached, interfered>>

BoxAlive ==
  /\ boxAt = "alive" /\ boxAt' = "drain"
  /\ deadSince' = "alive"
  /\ UNCHANGED <<worldOfBox, box, boxes, readerVars, quit, exitHandled, detached, interfered, blips>>

\* Mutant: the clock only runs from an exit that was handled this time.
BoxWatchHandled ==
  /\ boxAt = "watch"
  /\ IF deadSince = "past" THEN boxAt' = "stopping" ELSE boxAt' = "drain"
  /\ deadSince' = IF deadSince = "alive" /\ ~exitHandled THEN "dead" ELSE deadSince
  /\ UNCHANGED <<worldOfBox, box, boxes, readerVars, quit, exitHandled, detached, interfered, blips>>

\* _dead_child_watchdog_tripped on a child that is not seen alive.
BoxWatch ==
  /\ boxAt = "watch"
  /\ IF deadSince = "past" THEN boxAt' = "stopping" ELSE boxAt' = "drain"
  /\ deadSince' = IF deadSince = "alive" THEN "dead" ELSE deadSince
  /\ UNCHANGED <<worldOfBox, box, boxes, readerVars, quit, exitHandled, detached, interfered, blips>>

BoxGraceEnds ==
  /\ deadSince = "dead" /\ deadSince' = "past"
  /\ UNCHANGED <<worldOfBox, box, boxes, readerVars, quit, boxAt, exitHandled, detached,
                 interfered, blips>>

\* A signal, or what else ends a monitor.
BoxSignal ==
  /\ boxAt \in {"drain", "tick"} /\ boxAt' = "stopping"
  /\ UNCHANGED <<worldOfBox, box, boxes, readerVars, quit, exitHandled, deadSince, detached,
                 interfered, blips>>

BoxShutdown ==
  /\ boxAt = "stopping" /\ boxAt' = "over"
  /\ \E w \in StopFrom(World) : BoxBecomes(w)
  /\ UNCHANGED <<worldOfBox, exitHandled, deadSince, detached, interfered>>

DockerLoop == BoxDrain \/ BoxTick \/ BoxStatus \/ BoxAgain \/ BoxAlive \/ BoxWatch \/ BoxShutdown

DockerNext ==
  \/ BoxDies \/ BoxReader
  \/ BoxStart \/ DockerLoop \/ BoxGraceEnds \/ BoxSignal

-----------------------------------------------------------------------------
(* Properties *)

DockerTypeOK ==
  /\ box \in {"none", "up", "dead"} /\ boxes \in 0 .. MaxBoxes
  /\ pumps \in [Boxes -> {"none", "new", "reading", "closing"}]
  /\ follows \in [Boxes -> 0 .. MaxBoxes] /\ proc \in 0 .. MaxBoxes
  /\ \A n \in Boxes : pumps[n] # "none" \/ proc = n => n <= boxes
  /\ \A n \in Boxes : pumps[n] = "closing" => proc # 0
  /\ cutOff \in BOOLEAN /\ quit \in BOOLEAN
  /\ boxAt \in {"start", "drain", "tick", "status", "again", "alive", "watch", "stopping", "over"}
  /\ exitHandled \in BOOLEAN /\ deadSince \in {"alive", "dead", "past"}
  /\ detached \in BOOLEAN /\ interfered \in BOOLEAN /\ blips \in 0 .. MaxBlips

\* A container that runs is one the monitor listens to: through restarts, over a
\* dead container or a live one, the event is clear, the iterator goes on and the
\* container's own docker logs is read, unless docker did not answer, the child was
\* paused, a restart found the name taken or an old docker logs still there (the
\* iterator ends then for ever: docker.py, _stop), or a reader that was late to end
\* took the new docker logs in _proc for its own (docker.py:209-214).
BoxIsHeard ==
  box = "up" /\ boxAt \in {"drain", "tick", "status", "again", "alive", "watch"}
  /\ ~interfered /\ blips = 0 =>
    /\ ~quit /\ ~detached
    /\ pumps[boxes] = "new" \/ (pumps[boxes] = "reading" /\ follows[boxes] = boxes) \/ cutOff

\* A container that is dead does not stay dead under a monitor that goes on: it is
\* run again, or the monitor stops, although only the first exit is handled and a
\* relaunch may fail for the name (monitor.py, the dead-child watchdog).
DeadBoxResolved == box # "up" /\ boxAt \notin {"start", "over"} ~> box = "up" \/ boxAt = "over"
=============================================================================
