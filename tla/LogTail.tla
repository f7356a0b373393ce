------------------------------- MODULE LogTail -------------------------------
(***************************************************************************)
(* The follower of a log file (src/autosentry/_tail.py, follow_file) under *)
(* the attach supervisor, which skips what was there when it came, and     *)
(* under the SLURM supervisor, which replays it.  A file is what has been  *)
(* written to one inode, in pieces: a line may be written in two of them.  *)
(* Rotation gives the path another inode; truncation, and a file that is   *)
(* created anew under the number of the old one, keep it.                  *)
(***************************************************************************)
EXTENDS Naturals, FiniteSets

CONSTANTS
  MaxInodes,   \* bound on the files the path names in turn
  MaxPieces,   \* bound on the pieces written to one file
  MaxMishaps   \* bound on truncations, read errors and stops

ASSUME LogTailAssumption ==
  MaxInodes \in Nat \ {0} /\ MaxPieces \in Nat /\ MaxMishaps \in Nat

Inodes == 1 .. MaxInodes
Nobody == [phase |-> "none", ino |-> 0, pos |-> 0]

VARIABLES
  seekToEnd,  \* attach: TRUE; slurm: FALSE
  path,       \* the inode at the path, 0 when there is none
  inodes,     \* how many there have been
  written,    \* pieces in each
  cut,        \* inodes that were truncated or created again
  quitting,   \* stop_event
  ready,      \* ready_event
  tail,       \* the thread: outer loop, inner loop, about to stat; last_inode, pos
  skipped,    \* pieces of the inode that were passed over when it was opened
  heard,      \* pieces of each inode given to on_line, in this session
  twice,      \* a piece was given again, or out of order
  mishaps

tailVars == <<seekToEnd, path, inodes, written, cut, quitting, ready, tail, skipped,
              heard, twice, mishaps>>

Zero == [i \in Inodes |-> 0]

TailInit ==
  /\ seekToEnd \in BOOLEAN
  /\ path = 0 /\ inodes = 0 /\ written = Zero /\ cut = {}
  /\ quitting = FALSE /\ ready = FALSE /\ tail = Nobody
  /\ skipped = Zero /\ heard = Zero /\ twice = FALSE /\ mishaps = 0

worldVars  == <<path, inodes, written, cut>>
threadVars == <<seekToEnd, quitting, ready, tail, skipped, heard, twice>>

-----------------------------------------------------------------------------
(* The writer of the log *)

CreateLog ==
  /\ path = 0 /\ inodes < MaxInodes
  /\ inodes' = inodes + 1 /\ path' = inodes + 1
  /\ UNCHANGED <<written, cut, threadVars, mishaps>>

WriteLog ==
  /\ path # 0 /\ written[path] < MaxPieces
  /\ written' = [written EXCEPT ![path] = @ + 1]
  /\ UNCHANGED <<path, inodes, cut, threadVars, mishaps>>

RotateLog ==
  /\ path # 0 /\ path' = 0
  /\ UNCHANGED <<inodes, written, cut, threadVars, mishaps>>

TruncateLog ==
  /\ path # 0 /\ mishaps < MaxMishaps /\ mishaps' = mishaps + 1
  /\ written' = [written EXCEPT ![path] = 0]
  /\ cut' = cut \cup {path}
  /\ UNCHANGED <<path, inodes, threadVars>>

-----------------------------------------------------------------------------
(* The thread *)

\* start() of a supervisor whose thread is gone: a session of its own.
StartTail ==
  /\ tail.phase = "none"
  /\ tail' = [phase |-> "outer", ino |-> 0, pos |-> 0]
  /\ quitting' = FALSE /\ ready' = FALSE
  /\ skipped' = Zero /\ heard' = Zero
  /\ UNCHANGED <<seekToEnd, worldVars, twice, mishaps>>

StopTail ==
  /\ tail.phase # "none" /\ ~quitting
  /\ mishaps < MaxMishaps /\ mishaps' = mishaps + 1
  /\ quitting' = TRUE
  /\ UNCHANGED <<seekToEnd, worldVars, ready, tail, skipped, heard, twice>>

\* Mutant: every open starts over.
PlaceAlways(i) == IF seekToEnd THEN written[i] ELSE 0

\* Where to read from: a new inode from its start or its end, the same one on.
Place(i) ==
  IF tail.ino = i THEN tail.pos
  ELSE IF seekToEnd THEN written[i] ELSE 0

\* A file that is not there is waited for.
OpenLog ==
  /\ tail.phase = "outer" /\ ~quitting /\ path # 0
  /\ tail' = [phase |-> "inner", ino |-> path, pos |-> Place(path)]
  /\ skipped' = IF tail.ino = path THEN skipped ELSE [skipped EXCEPT ![path] = Place(path)]
  /\ ready' = TRUE
  /\ UNCHANGED <<seekToEnd, worldVars, quitting, heard, twice, mishaps>>

\* readline: one piece at least, a whole line or what there is of one.
ReadLine ==
  /\ tail.phase = "inner" /\ ~quitting
  /\ tail.pos < written[tail.ino]
  /\ \E n \in tail.pos + 1 .. written[tail.ino] :
       /\ n <= tail.pos + 2
       /\ tail' = [tail EXCEPT !.pos = n]
       /\ heard' = [heard EXCEPT ![tail.ino] = @ + (n - tail.pos)]
  /\ twice' = (twice \/ (tail.ino \notin cut
                         /\ tail.pos # skipped[tail.ino] + heard[tail.ino]))
  /\ UNCHANGED <<seekToEnd, worldVars, quitting, ready, skipped, mishaps>>

\* Nothing to read: then, and only then, is the path looked at.
ReadEnd ==
  /\ tail.phase = "inner" /\ ~quitting
  /\ tail.pos >= written[tail.ino]
  /\ tail' = [tail EXCEPT !.phase = "stat"]
  /\ UNCHANGED <<seekToEnd, worldVars, quitting, ready, skipped, heard, twice, mishaps>>

\* Mutant: only a file that is gone is noticed.
StatMissing ==
  /\ tail.phase = "stat"
  /\ tail' = [tail EXCEPT !.phase = IF path # 0 THEN "inner" ELSE "outer"]
  /\ UNCHANGED <<seekToEnd, worldVars, quitting, ready, skipped, heard, twice, mishaps>>

StatLog ==
  /\ tail.phase = "stat"
  /\ tail' = [tail EXCEPT !.phase = IF path = tail.ino THEN "inner" ELSE "outer"]
  /\ UNCHANGED <<seekToEnd, worldVars, quitting, ready, skipped, heard, twice, mishaps>>

\* An OSError: the file is opened again, at the same place.
ReadFails ==
  /\ tail.phase \in {"inner", "stat"}
  /\ mishaps < MaxMishaps /\ mishaps' = mishaps + 1
  /\ tail' = [tail EXCEPT !.phase = "outer"]
  /\ UNCHANGED <<seekToEnd, worldVars, quitting, ready, skipped, heard, twice>>

TailEnds ==
  /\ tail.phase \in {"outer", "inner"} /\ quitting
  /\ tail' = Nobody
  /\ UNCHANGED <<seekToEnd, worldVars, quitting, ready, skipped, heard, twice, mishaps>>

TailThread == OpenLog \/ ReadLine \/ ReadEnd \/ StatLog \/ TailEnds

TailNext ==
  \/ CreateLog \/ WriteLog \/ RotateLog \/ TruncateLog
  \/ StartTail \/ StopTail
  \/ TailThread \/ ReadFails

-----------------------------------------------------------------------------
(* Properties *)

TailTypeOK ==
  /\ seekToEnd \in BOOLEAN /\ path \in 0 .. MaxInodes /\ inodes \in 0 .. MaxInodes
  /\ written \in [Inodes -> 0 .. MaxPieces] /\ cut \in SUBSET Inodes
  /\ quitting \in BOOLEAN /\ ready \in BOOLEAN /\ twice \in BOOLEAN
  /\ tail \in [phase : {"none", "outer", "inner", "stat"}, ino : 0 .. MaxInodes,
               pos : 0 .. MaxPieces]
  /\ skipped \in [Inodes -> 0 .. MaxPieces] /\ heard \in [Inodes -> Nat]
  /\ mishaps \in Nat

\* Of a file that is not cut, a session hears an unbroken run of pieces, each
\* once, from its start or from where it stood when it was opened, through
\* rotations, read errors and reopenings (_tail.py, last_inode and pos).
HeardOnce ==
  /\ ~twice
  /\ tail.ino # 0 /\ tail.ino \notin cut =>
       tail.pos = skipped[tail.ino] + heard[tail.ino]
  /\ \A i \in Inodes : skipped[i] # 0 => seekToEnd

\* What is written to the file at the path, and was not skipped when the file was
\* opened, is heard if the thread is let alone: a rotation is noticed, a read error is
\* got over (_tail.py, the stat at the end).  What a session skips is the subject of
\* SkipsFirstOpenOnly.
WrittenIsHeard ==
  \A i \in Inodes :
    (path = i /\ written[i] = MaxPieces /\ tail.phase # "none")
      ~> \/ tail.ino = i /\ skipped[i] + heard[i] = MaxPieces
         \/ path # i \/ i \in cut \/ quitting

\* "Seeks to EOF on first open (so attaching doesn't replay history)": what a session
\* finds in the files it opens after the first is not skipped (attach.py:110-111;
\* _tail.py:7-13, which calls what is skipped history).
SkipsFirstOpenOnly ==
  \A i, j \in Inodes : i < j /\ skipped[i] + heard[i] > 0 => skipped[j] = 0
=============================================================================
