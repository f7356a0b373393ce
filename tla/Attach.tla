------------------------------- MODULE Attach -------------------------------
(***************************************************************************)
(* The attach supervisor (src/autosentry/supervisors/attach.py) under the  *)
(* calls a monitor makes: it follows the log of a process it did not start *)
(* and knows by its pid.  The process may go at any moment, and its pid    *)
(* may come to name another one.  Every start over a live pid begins a     *)
(* thread, whatever threads there are; a pause sets an event that ends     *)
(* them and, at the next line, the monitor's iterator as well.             *)
(***************************************************************************)
EXTENDS Naturals

CONSTANTS
  MaxFollowers,  \* bound on the threads begun
  MaxPidFaults   \* bound on reuses of the pid and on joins that take too long

ASSUME AttachAssumption == MaxFollowers \in Nat \ {0} /\ MaxPidFaults \in Nat

VARIABLES
  allowKill,    \* process.extra.allow_kill
  pidAlive,     \* a process answers to the pid
  followers,    \* threads that follow the log
  begun,        \* threads that were begun
  released,     \* _stop
  streamEnded,  \* the iterator of log lines has ended
  attachAt,     \* where the monitor's thread is
  letGo,        \* the operator or an action has paused the supervisor
  doubled,      \* starts over a pid that was followed, and joins that took too long
  pidFaults

attachVars == <<allowKill, pidAlive, followers, begun, released, streamEnded, attachAt, letGo,
                doubled, pidFaults>>

AttachInit ==
  /\ allowKill \in BOOLEAN /\ pidAlive = TRUE /\ followers = 0 /\ begun = 0
  /\ released = FALSE /\ streamEnded = FALSE /\ attachAt = "start"
  /\ letGo = FALSE /\ doubled = 0 /\ pidFaults = 0

-----------------------------------------------------------------------------
(* The process, and the threads *)

PidDies ==
  /\ pidAlive /\ pidAlive' = FALSE
  /\ UNCHANGED <<allowKill, followers, begun, released, streamEnded, attachAt, letGo,
                 doubled, pidFaults>>

\* The system gives the pid to a process that has nothing to do with the first.
PidReused ==
  /\ ~pidAlive /\ pidAlive' = TRUE
  /\ pidFaults < MaxPidFaults /\ pidFaults' = pidFaults + 1
  /\ UNCHANGED <<allowKill, followers, begun, released, streamEnded, attachAt, letGo, doubled>>

\* A thread looks at the event, after a line or at the end of a wait for its file.
FollowerEnds ==
  /\ released /\ followers > 0
  /\ followers' = followers - 1
  /\ UNCHANGED <<allowKill, pidAlive, begun, released, streamEnded, attachAt, letGo,
                 doubled, pidFaults>>

-----------------------------------------------------------------------------
(* The supervisor *)

\* start(): one thread more, if the pid answers; a dead one is no error.
Follow ==
  IF pidAlive
    THEN /\ begun < MaxFollowers /\ begun' = begun + 1 /\ followers' = followers + 1
         /\ doubled' = IF followers > 0 /\ ~released THEN doubled + 1 ELSE doubled
         /\ released' = FALSE
    ELSE UNCHANGED <<followers, begun, doubled, released>>

\* stop(): the event, and five seconds for the newest thread; the process is left.
Release ==
  /\ released' = TRUE
  /\ \/ /\ followers' = IF followers > 0 THEN followers - 1 ELSE 0
        /\ UNCHANGED <<doubled, pidFaults>>
     \/ /\ followers > 0 /\ UNCHANGED followers
        /\ pidFaults < MaxPidFaults /\ pidFaults' = pidFaults + 1 /\ doubled' = doubled + 1
  /\ UNCHANGED begun

-----------------------------------------------------------------------------
(* The monitor's loop, as far as it calls the supervisor *)

AttachStart ==
  /\ attachAt = "start" /\ attachAt' = "drain"
  /\ Follow
  /\ UNCHANGED <<allowKill, pidAlive, streamEnded, letGo, pidFaults>>

\* next(line_iter): once the event has been seen the iterator is finished.
AttachDrain ==
  /\ attachAt = "drain" /\ attachAt' = "act"
  /\ streamEnded' = (streamEnded \/ released)
  /\ UNCHANGED <<allowKill, pidAlive, followers, begun, released, letGo, doubled, pidFaults>>

\* Nothing to do; or a restart, which raises and is a crashed attempt.
AttachGoesOn ==
  /\ attachAt = "act" /\ attachAt' = "drain"
  /\ UNCHANGED <<allowKill, pidAlive, followers, begun, released, streamEnded, letGo,
                 doubled, pidFaults>>

\* The operator's resume, with or without a pause before it, and the starts of the
\* restart policy over a pid that is seen dead.
AttachResumes ==
  /\ attachAt = "act" /\ attachAt' = "drain"
  /\ Follow
  /\ UNCHANGED <<allowKill, pidAlive, streamEnded, letGo, pidFaults>>

AttachPauses ==
  /\ attachAt = "act" /\ attachAt' = "drain"
  /\ Release /\ letGo' = TRUE
  /\ UNCHANGED <<allowKill, pidAlive, streamEnded>>

\* apply_action(abort): the pid is signalled if that is allowed, and whoever has it
\* obeys or not; the monitor stops in any case.
AttachAborts ==
  /\ attachAt = "act" /\ attachAt' = "stopping"
  /\ pidAlive' \in {pidAlive} \cup (IF allowKill THEN {FALSE} ELSE {})
  /\ UNCHANGED <<allowKill, followers, begun, released, streamEnded, letGo, doubled,
                 pidFaults>>

\* A signal, an exit or the operator ends the monitor, and its supervisor lets go.
AttachStops ==
  /\ attachAt \in {"drain", "act", "stopping"} /\ attachAt' = "over"
  /\ Release
  /\ UNCHANGED <<allowKill, pidAlive, streamEnded, letGo>>

AttachNext ==
  \/ PidDies \/ PidReused \/ FollowerEnds
  \/ AttachStart \/ AttachDrain \/ AttachGoesOn \/ AttachResumes \/ AttachPauses
  \/ AttachAborts \/ AttachStops

-----------------------------------------------------------------------------
(* Properties *)

AttachTypeOK ==
  /\ allowKill \in BOOLEAN /\ pidAlive \in BOOLEAN /\ released \in BOOLEAN
  /\ followers \in 0 .. MaxFollowers /\ begun \in followers .. MaxFollowers
  /\ streamEnded \in BOOLEAN /\ letGo \in BOOLEAN
  /\ attachAt \in {"start", "drain", "act", "stopping", "over"}
  /\ doubled \in Nat /\ pidFaults \in 0 .. MaxPidFaults

\* A process that was attached to is listened to until it is paused or the monitor is
\* over, although its pid dies and comes back between two starts; and each of its lines
\* is heard once, by one thread, but for the starts over a pid that was followed, which
\* nothing in start() refuses, and for the joins that took too long, whose thread a
\* resume takes back (attach.py, start, stop and _pump_log_file).
PidIsHeard ==
  /\ begun > 0 /\ attachAt \in {"drain", "act"} /\ ~letGo =>
       ~released /\ ~streamEnded /\ followers > 0
  /\ followers <= 1 + doubled
=============================================================================
