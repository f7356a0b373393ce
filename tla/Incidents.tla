------------------------------ MODULE Incidents ------------------------------
(***************************************************************************)
(* Incident folders and their index (src/autosentry/incidents/store.py),   *)
(* and the session that works through them with a cursor (cli/commands/    *)
(* probe.py).  An incident's id is the second it was made in, the name of  *)
(* its kind and detector, and a number when that folder is taken; ids are  *)
(* compared as text.                                                       *)
(***************************************************************************)
EXTENDS Naturals, Sequences, FiniteSets

CONSTANTS
  MaxSeconds,    \* bound on the clock
  Sources,       \* kinds and detectors, numbered in the order of their text
  MaxIncidents,  \* bound on folders
  ShownAtOnce    \* how many the prompt lists

ASSUME IncidentsAssumption ==
  /\ MaxSeconds \in Nat \ {0} /\ Sources \subseteq Nat /\ MaxIncidents \in Nat
  /\ ShownAtOnce \in Nat \ {0}

NoId == [second |-> 0, slug |-> 0, sequence |-> 0]

Ids == [second : 0 .. MaxSeconds, slug : Sources, sequence : 0 .. MaxIncidents]

VARIABLES
  second,      \* the clock, in what the stamp shows of it
  folders,     \* ids of the folders
  writing,     \* the id of the incident the monitor is writing
  index,       \* index.jsonl
  cursor,      \* the session's cursor
  shown,       \* the lines of the index the session was given and is working on
  handled      \* incidents the session has dealt with

incidentVars == <<second, folders, writing, index, cursor, shown, handled>>

IncidentsInit ==
  /\ second = 1 /\ folders = {} /\ writing = NoId /\ index = <<>>
  /\ cursor = NoId /\ shown = {} /\ handled = {}

Before(a, b) ==
  \/ a.second < b.second
  \/ a.second = b.second /\ a.slug < b.slug
  \/ a.second = b.second /\ a.slug = b.slug /\ a.sequence < b.sequence

SecondPasses ==
  /\ second < MaxSeconds /\ second' = second + 1
  /\ UNCHANGED <<folders, writing, index, cursor, shown, handled>>

\* Mutant: a folder of that name will do.
FolderShared(slug) == [second |-> second, slug |-> slug, sequence |-> 0]

\* mkdir of the first name that is free.
FolderFor(slug) ==
  CHOOSE id \in Ids :
    /\ id.second = second /\ id.slug = slug /\ id \notin folders
    /\ \A n \in 0 .. id.sequence - 1 : [id EXCEPT !.sequence = n] \in folders

WriteFolder(slug) ==
  /\ writing = NoId /\ Cardinality(folders) < MaxIncidents
  /\ writing' = FolderFor(slug) /\ folders' = folders \cup {FolderFor(slug)}
  /\ UNCHANGED <<second, index, cursor, shown, handled>>

\* The index comes last: a session sees whole incidents.
AppendIndex ==
  /\ writing # NoId
  /\ index' = Append(index, writing) /\ writing' = NoId
  /\ UNCHANGED <<second, folders, cursor, shown, handled>>

\* The monitor is killed over a folder, which the index never hears of.
WriterDies ==
  /\ writing # NoId /\ writing' = NoId
  /\ UNCHANGED <<second, folders, index, cursor, shown, handled>>

Pending == {i \in 1 .. Len(index) : Before(cursor, index[i])}

\* The Stop hook: probe --inject-prompt lists the first of them.
Probe ==
  /\ shown = {}
  /\ \E last \in Pending :
       LET first == {i \in Pending : i <= last}
       IN /\ Cardinality(first) <= ShownAtOnce
          /\ Cardinality(first) = ShownAtOnce \/ first = Pending
          /\ shown' = first
  /\ UNCHANGED <<second, folders, writing, index, cursor, handled>>

LastShown == CHOOSE i \in shown : \A j \in shown : j <= i

\* Mutant: the cursor moves to the newest incident there is.
AdvanceToNewest ==
  /\ shown # {}
  /\ handled' = handled \cup {index[i] : i \in shown}
  /\ cursor' = index[Len(index)] /\ shown' = {}
  /\ UNCHANGED <<second, folders, writing, index>>

\* The session has dealt with what it was shown: --advance-cursor to the last.
AdvanceCursor ==
  /\ shown # {}
  /\ handled' = handled \cup {index[i] : i \in shown}
  /\ cursor' = index[LastShown] /\ shown' = {}
  /\ UNCHANGED <<second, folders, writing, index>>

IncidentsNext ==
  \/ SecondPasses
  \/ (\E slug \in Sources : WriteFolder(slug)) \/ AppendIndex \/ WriterDies
  \/ Probe \/ AdvanceCursor

-----------------------------------------------------------------------------
(* Properties *)

IncidentsTypeOK ==
  /\ second \in 0 .. MaxSeconds /\ folders \in SUBSET Ids /\ writing \in Ids \cup {NoId}
  /\ index \in Seq(Ids) /\ cursor \in Ids \cup {NoId} /\ shown \subseteq 1 .. Len(index)
  /\ handled \in SUBSET Ids

\* No incident is passed over: one the session has not dealt with is still ahead of
\* the cursor while others are written, indexed and listed a few at a time, unless a
\* name of the same second that sorts after its own stands before it in the index and
\* was dealt with (the cursor is then past it, whether it was indexed yet or not); and
\* no two incidents share a name (probe.py, _pending_incidents; store.py, the loop).
NoneSkipped ==
  /\ \A i \in 1 .. Len(index) :
       \/ index[i] \in handled \/ Before(cursor, index[i])
       \/ \E j \in 1 .. i - 1 : /\ index[j] \in handled /\ index[j].second = index[i].second
                                /\ Before(index[i], index[j])
  /\ \A i, j \in 1 .. Len(index) : i # j => index[i] # index[j]
=============================================================================
