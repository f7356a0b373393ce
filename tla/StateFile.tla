------------------------------ MODULE StateFile ------------------------------
(***************************************************************************)
(* state.json: the store that saves it (src/autosentry/state.py), the      *)
(* monitor that saves after each change and backs off when it cannot       *)
(* (monitor.py, _save_state), and `autosentry reset`, another process that *)
(* reads and writes the same file (cli/commands/reset.py).  A save writes  *)
(* state.json.tmp, whoever saves, and renames it; when that file is gone   *)
(* it writes state.json itself.  A file is an inode: a name may move while *)
(* somebody still writes to it.                                            *)
(***************************************************************************)
EXTENDS Naturals, FiniteSets

CONSTANTS
  MaxCounted,     \* bound on the restarts counted
  MaxResets,      \* bound on resets
  MaxFileFaults   \* bound on evictions, failed saves and kills

ASSUME StateFileAssumption ==
  MaxCounted \in Nat /\ MaxResets \in Nat /\ MaxFileFaults \in Nat

Writers == {"monitor", "reset"}
FileInodes == 1 .. 4

\* What a document says, as far as the two disagree on it: state.restarts, and how
\* many rows reset_history has.
Docs == [restarts : 0 .. MaxCounted, resets : 0 .. MaxResets]
Fresh == [restarts |-> 0, resets |-> 0]
Torn  == [restarts |-> 0, resets |-> MaxResets + 1]
Idle  == [at |-> "idle", ino |-> 0]

VARIABLES
  content,    \* of each inode: a document, or Torn (nothing, a part, two mixed)
  stateName,  \* the inode state.json names, 0 for none
  tmpName,    \* the inode state.json.tmp names, 0 for none
  memory,     \* the document of each process
  saving,     \* where its save stands, and the inode it has open
  upAndRunning, \* the monitor runs
  resetAt,    \* none, loaded, saving
  alone,      \* no monitor has run since the reset read the file
  counted, resetsBegun,
  kept,       \* resets that ended with no monitor about
  cleared,    \* nothing was counted since the last of them
  backingOff, \* _state_save_fail_count > 0
  overlapped, \* two saves were open at once
  fallenBack, \* a save wrote state.json itself
  fileFaults

fileVars == <<content, stateName, tmpName, memory, saving, upAndRunning, resetAt, alone,
              counted, resetsBegun, kept, cleared, backingOff, overlapped, fallenBack,
              fileFaults>>
diskVars == <<content, stateName, tmpName>>
flowVars == <<upAndRunning, resetAt, alone, counted, resetsBegun, kept, cleared, backingOff>>

StateFileInit ==
  /\ content = [i \in FileInodes |-> Torn] /\ stateName = 0 /\ tmpName = 0
  /\ memory = [w \in Writers |-> Fresh] /\ saving = [w \in Writers |-> Idle]
  /\ upAndRunning = FALSE /\ resetAt = "none" /\ alone = FALSE
  /\ counted = 0 /\ resetsBegun = 0 /\ kept = 0 /\ cleared = FALSE
  /\ backingOff = FALSE /\ overlapped = FALSE /\ fallenBack = FALSE /\ fileFaults = 0

InUse == {stateName, tmpName} \cup {saving[w].ino : w \in Writers}
NewInode == CHOOSE i \in FileInodes : i \notin InUse

Saved == IF stateName = 0 THEN Fresh ELSE content[stateName]
Readable == stateName # 0 => content[stateName] # Torn

-----------------------------------------------------------------------------
(* StateStore.save, by either process *)

BeginSave(w) == saving' = [saving EXCEPT ![w] = [at |-> "open", ino |-> 0]]

\* Mutant: state.json is written in place.
OpenInPlace(w) ==
  /\ saving[w].at = "open"
  /\ LET i == IF stateName # 0 THEN stateName ELSE NewInode
     IN /\ stateName' = i /\ content' = [content EXCEPT ![i] = Torn]
        /\ saving' = [saving EXCEPT ![w] = [at |-> "rewrite", ino |-> i]]
  /\ overlapped' = (overlapped \/ \E v \in Writers \ {w} : saving[v].at # "idle")
  /\ UNCHANGED <<tmpName, memory, flowVars, fallenBack, fileFaults>>

\* open(tmp, "w"): empties the file the other one may be writing.
OpenTmp(w) ==
  /\ saving[w].at = "open"
  /\ LET i == IF tmpName # 0 THEN tmpName ELSE NewInode
     IN /\ tmpName' = i /\ content' = [content EXCEPT ![i] = Torn]
        /\ saving' = [saving EXCEPT ![w] = [at |-> "write", ino |-> i]]
  /\ overlapped' = (overlapped \/ \E v \in Writers \ {w} : saving[v].at # "idle")
  /\ UNCHANGED <<stateName, memory, flowVars, fallenBack, fileFaults>>

\* write and fsync: over what the other one has written there, if it has.
WriteDoc(w) ==
  /\ saving[w].at \in {"write", "rewrite"}
  /\ \E c \in {memory[w]} \cup (IF content[saving[w].ino] = Torn THEN {} ELSE {Torn}) :
       content' = [content EXCEPT ![saving[w].ino] = c]
  /\ saving' = [saving EXCEPT ![w].at = IF @ = "write" THEN "rename" ELSE "done"]
  /\ UNCHANGED <<stateName, tmpName, memory, flowVars, overlapped, fallenBack, fileFaults>>

\* os.replace: whatever the name is given to now.
Rename(w) ==
  /\ saving[w].at = "rename" /\ tmpName # 0
  /\ stateName' = tmpName /\ tmpName' = 0
  /\ saving' = [saving EXCEPT ![w] = [at |-> "done", ino |-> 0]]
  /\ UNCHANGED <<content, memory, flowVars, overlapped, fallenBack, fileFaults>>

\* FileNotFoundError: state.json is opened and emptied.
FallBack(w) ==
  /\ saving[w].at = "rename" /\ tmpName = 0
  /\ LET i == IF stateName # 0 THEN stateName ELSE NewInode
     IN /\ stateName' = i /\ content' = [content EXCEPT ![i] = Torn]
        /\ saving' = [saving EXCEPT ![w] = [at |-> "rewrite", ino |-> i]]
  /\ fallenBack' = TRUE
  /\ UNCHANGED <<tmpName, memory, flowVars, overlapped, fileFaults>>

\* The evictor of a synced directory takes the temporary file.
Evict ==
  /\ tmpName # 0 /\ tmpName' = 0
  /\ fileFaults < MaxFileFaults /\ fileFaults' = fileFaults + 1
  /\ UNCHANGED <<content, stateName, memory, saving, flowVars, overlapped, fallenBack>>

SaveSteps(w) == OpenTmp(w) \/ WriteDoc(w) \/ Rename(w) \/ FallBack(w)

-----------------------------------------------------------------------------
(* The monitor *)

\* Mutant: a monitor starts with a state of its own.
MonitorStartsFresh ==
  /\ ~upAndRunning /\ Readable
  /\ upAndRunning' = TRUE /\ alone' = FALSE /\ backingOff' = FALSE
  /\ memory' = [memory EXCEPT !["monitor"] = Fresh] /\ BeginSave("monitor")
  /\ UNCHANGED <<diskVars, resetAt, counted, resetsBegun, kept, cleared, overlapped,
                 fallenBack, fileFaults>>

\* Loads, or does not start on a file that cannot be read; starts its child and saves.
MonitorStarts ==
  /\ ~upAndRunning /\ Readable
  /\ upAndRunning' = TRUE /\ alone' = FALSE /\ backingOff' = FALSE
  /\ memory' = [memory EXCEPT !["monitor"] = Saved] /\ BeginSave("monitor")
  /\ UNCHANGED <<diskVars, resetAt, counted, resetsBegun, kept, cleared, overlapped,
                 fallenBack, fileFaults>>

\* A restart is counted and saved, or only counted while saves are backed off.
MonitorCounts ==
  /\ upAndRunning /\ saving["monitor"].at = "idle" /\ counted < MaxCounted
  /\ counted' = counted + 1 /\ cleared' = FALSE
  /\ memory' = [memory EXCEPT !["monitor"].restarts =
                  IF @ < MaxCounted THEN @ + 1 ELSE @]
  /\ BeginSave("monitor") \/ (backingOff /\ UNCHANGED saving)
  /\ UNCHANGED <<diskVars, upAndRunning, resetAt, alone, resetsBegun, kept, backingOff,
                 overlapped, fallenBack, fileFaults>>

\* A fix is verified: restarts go back to zero.
MonitorVerifies ==
  /\ upAndRunning /\ saving["monitor"].at = "idle" /\ memory["monitor"].restarts > 0
  /\ memory' = [memory EXCEPT !["monitor"].restarts = 0]
  /\ BeginSave("monitor") \/ (backingOff /\ UNCHANGED saving)
  /\ UNCHANGED <<diskVars, flowVars, overlapped, fallenBack, fileFaults>>

MonitorSaved ==
  /\ saving["monitor"].at = "done"
  /\ saving' = [saving EXCEPT !["monitor"] = Idle] /\ backingOff' = FALSE
  /\ UNCHANGED <<diskVars, memory, upAndRunning, resetAt, alone, counted, resetsBegun, kept,
                 cleared, overlapped, fallenBack, fileFaults>>

\* An OSError: the change stays in memory for the next save that is let through.
MonitorSaveFails ==
  /\ saving["monitor"].at \in {"open", "write", "rename", "rewrite"}
  /\ fileFaults < MaxFileFaults /\ fileFaults' = fileFaults + 1
  /\ saving' = [saving EXCEPT !["monitor"] = Idle] /\ backingOff' = TRUE
  /\ UNCHANGED <<diskVars, memory, upAndRunning, resetAt, alone, counted, resetsBegun, kept,
                 cleared, overlapped, fallenBack>>

\* It ends, or is killed in the middle of a save.
MonitorEnds ==
  /\ upAndRunning
  /\ \/ saving["monitor"].at = "idle" /\ UNCHANGED fileFaults
     \/ fileFaults < MaxFileFaults /\ fileFaults' = fileFaults + 1
  /\ upAndRunning' = FALSE /\ saving' = [saving EXCEPT !["monitor"] = Idle]
  /\ UNCHANGED <<diskVars, memory, resetAt, alone, counted, resetsBegun, kept, cleared,
                 backingOff, overlapped, fallenBack>>

-----------------------------------------------------------------------------
(* autosentry reset *)

\* It reads the file, signals the child it names and waits for it; of a monitor it
\* knows nothing.
ResetLoads ==
  /\ resetAt = "none" /\ stateName # 0 /\ Readable /\ resetsBegun < MaxResets
  /\ resetAt' = "loaded" /\ resetsBegun' = resetsBegun + 1
  /\ memory' = [memory EXCEPT !["reset"] = Saved]
  /\ alone' = ~upAndRunning
  /\ UNCHANGED <<diskVars, saving, upAndRunning, counted, kept, cleared, backingOff,
                 overlapped, fallenBack, fileFaults>>

\* record_reset: the row and the zero, in the document it has read.
ResetRecords ==
  /\ resetAt = "loaded"
  /\ resetAt' = "saving"
  /\ memory' = [memory EXCEPT !["reset"] = [restarts |-> 0, resets |-> @.resets + 1]]
  /\ BeginSave("reset")
  /\ UNCHANGED <<diskVars, upAndRunning, alone, counted, resetsBegun, kept, cleared,
                 backingOff, overlapped, fallenBack, fileFaults>>

\* Saved and written to reset.log; the relaunch is a start of the monitor.
ResetEnds ==
  /\ saving["reset"].at = "done"
  /\ saving' = [saving EXCEPT !["reset"] = Idle] /\ resetAt' = "none"
  /\ kept' = IF alone THEN kept + 1 ELSE kept
  /\ cleared' = (alone \/ cleared)
  /\ UNCHANGED <<diskVars, memory, upAndRunning, alone, counted, resetsBegun, backingOff,
                 overlapped, fallenBack, fileFaults>>

\* A save that fails, or a kill, ends the command.
ResetDies ==
  /\ resetAt # "none"
  /\ fileFaults < MaxFileFaults /\ fileFaults' = fileFaults + 1
  /\ saving' = [saving EXCEPT !["reset"] = Idle] /\ resetAt' = "none"
  /\ UNCHANGED <<diskVars, memory, upAndRunning, alone, counted, resetsBegun, kept, cleared,
                 backingOff, overlapped, fallenBack>>

StateFileNext ==
  \/ \E w \in Writers : SaveSteps(w)
  \/ Evict
  \/ MonitorStarts \/ MonitorCounts \/ MonitorVerifies \/ MonitorSaved \/ MonitorSaveFails
  \/ MonitorEnds
  \/ ResetLoads \/ ResetRecords \/ ResetEnds \/ ResetDies

-----------------------------------------------------------------------------
(* Properties *)

StateFileTypeOK ==
  /\ content \in [FileInodes -> Docs \cup {Torn}]
  /\ stateName \in {0} \cup FileInodes /\ tmpName \in {0} \cup FileInodes
  /\ memory \in [Writers -> Docs]
  /\ saving \in [Writers -> [at : {"idle", "open", "write", "rename", "rewrite", "done"},
                             ino : {0} \cup FileInodes]]
  /\ resetAt \in {"none", "loaded", "saving"} /\ kept \in 0 .. MaxResets

\* Who reads state.json, at any moment and after any kill, reads a whole document,
\* unless a save had to write the file itself or the monitor and a reset saved at the
\* same time: they share the temporary file (state.py, StateStore.save).
ReadersSeeWhole == fallenBack \/ overlapped \/ Readable

\* A reset made while no monitor runs is not undone: its row stays, whoever saves
\* later, backs off or is killed, and the next monitor starts from a clear budget
\* (reset.py: the audit trail is the point of this command).
ResetSticks ==
  Readable =>
    /\ kept <= Saved.resets
    /\ cleared => Saved.restarts = 0
=============================================================================
