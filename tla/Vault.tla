-------------------------------- MODULE Vault --------------------------------
(***************************************************************************)
(* The vault: notes the monitor writes about its runs, incidents and       *)
(* attempts (src/autosentry/vault/store.py), the index that groups         *)
(* incidents into recurring patterns (vault/patterns.py) and the prose of  *)
(* a new pattern (vault/narrator.py).  Every write may fail and is then    *)
(* logged and left; the monitor may be killed between any two.             *)
(*                                                                         *)
(* A message is a number: two are similar when they are neighbours, so     *)
(* similarity is not transitive, as edit distance is not.  A trace is its  *)
(* hash, 0 when there is none.  A note is its kind and its key.  The lists *)
(* of incidents are sets: a list has them in the order of their ids.       *)
(***************************************************************************)
EXTENDS Integers, Sequences, FiniteSets

CONSTANTS
  Failures,           \* what may fire: detector, message, hash
  PatternThreshold,   \* vault.pattern_threshold
  MaxVaultIncidents,  \* bound on incidents
  MaxVaultChildren,   \* bound on children of a run
  MaxVaultAttempts,   \* bound on fixes that are tried
  MaxVaultFaults      \* bound on failed writes and kills

ASSUME VaultAssumption ==
  /\ \A f \in Failures : f.message \in Nat \ {0} /\ f.hash \in Nat
  /\ PatternThreshold \in Nat \ {0} /\ MaxVaultIncidents \in Nat
  /\ MaxVaultChildren \in Nat /\ MaxVaultAttempts \in Nat /\ MaxVaultFaults \in Nat

Fired     == 1 .. MaxVaultIncidents
VDetectors == {f.detector : f \in Failures}
Messages  == {f.message : f \in Failures}
Hashes    == {f.hash : f \in Failures} \ {0}

\* A detector, the words of a message, and what tells it from a slug that was taken: 0
\* for nothing, else the message.
NoSlug == <<0, 0, 0>>
Slugs  == VDetectors \X Nat \X (Messages \cup {0})

VARIABLES
  grouped,    \* _patterns, in the order of the dict
  ungrouped,  \* _pending
  byHash,     \* _by_trace_hash
  saved,      \* .patterns.json
  synced,     \* the last save went through
  fired,      \* incidents so far
  held,       \* those the index has taken, and those the file has
  notes,      \* notes there are
  links,      \* <<from, to>>
  tried,      \* the attempt on an incident: none, open, over
  status,     \* of the attempt, in its note
  children,   \* _vault_child_index
  work,       \* what the calls to come have left to write
  narrated,   \* .narrated.json
  prose,      \* pattern notes whose narrative was replaced
  vaultFaults

vaultVars == <<grouped, ungrouped, byHash, saved, synced, fired, held, notes, links, status,
               children, work, tried, narrated, prose, vaultFaults>>
indexVars == <<grouped, ungrouped, byHash, saved, synced, fired, held>>
noteVars  == <<notes, links, status, narrated, prose>>

NoteKinds == {"run", "child", "incident", "attempt", "detector", "pattern", "regression",
              "exhaustion"}

Similar(a, b) == a - b \in -1 .. 1

\* Every message of a detector starts with the same four words here, the worst case.
SlugBase(message) == 1

EmptyPending == [d \in VDetectors |-> {}]

VaultInit ==
  /\ grouped = <<>> /\ ungrouped = EmptyPending /\ byHash = [h \in Hashes |-> NoSlug]
  /\ saved = [grouped |-> <<>>, ungrouped |-> EmptyPending] /\ synced = TRUE
  /\ fired = 0 /\ held = [index |-> {}, file |-> {}]
  /\ notes = {} /\ links = {} /\ tried = [i \in Fired |-> "none"] /\ status = tried
  /\ children = 0 /\ work = <<>> /\ narrated = {} /\ prose = {} /\ vaultFaults = 0

-----------------------------------------------------------------------------
(* The index *)

Taken(slug) == \E i \in 1 .. Len(grouped) : grouped[i].slug = slug

\* Mutant: the four words alone.
SlugPlain(detector, message) == <<detector, SlugBase(message), 0>>

SlugFor(detector, message) ==
  LET plain == <<detector, SlugBase(message), 0>>
  IN IF Taken(plain) THEN <<detector, SlugBase(message), message>> ELSE plain

\* A dict keeps the place of a key that is assigned again.
Put(p) ==
  IF Taken(p.slug)
  THEN [i \in 1 .. Len(grouped) |-> IF grouped[i].slug = p.slug THEN p ELSE grouped[i]]
  ELSE Append(grouped, p)

WithHash(slug, hash) == IF hash = 0 THEN byHash ELSE [byHash EXCEPT ![hash] = slug]

\* The pattern an incident joins: by the hash of its trace whoever detected it, else
\* the first of its detector with a similar message; 0 for none.
Match(f) ==
  IF f.hash # 0 /\ byHash[f.hash] # NoSlug
  THEN CHOOSE i \in 1 .. Len(grouped) : grouped[i].slug = byHash[f.hash]
  ELSE LET like == {i \in 1 .. Len(grouped) : /\ grouped[i].slug[1] = f.detector
                                              /\ Similar(grouped[i].message, f.message)}
       IN IF like = {} THEN 0 ELSE CHOOSE i \in like : \A j \in like : i <= j

Join(i, f, id) ==
  LET p    == grouped[i]
      hash == IF p.hash = 0 THEN f.hash ELSE p.hash
  IN /\ grouped' = [grouped EXCEPT ![i] = [p EXCEPT !.ids = @ \cup {id}, !.hash = hash]]
     /\ byHash' = IF p.hash = 0 THEN WithHash(p.slug, f.hash) ELSE byHash
     /\ UNCHANGED ungrouped

FirstHash(items) ==
  LET with == {it \in items : it.hash # 0}
  IN IF with = {} THEN 0 ELSE (CHOOSE it \in with : \A other \in with : it.id <= other.id).hash

\* Not one yet: into the pending bucket of its detector, which is promoted once it is
\* full, whoever is in it; what is not like the last message stays behind.
Wait(f, id) ==
  LET bucket == ungrouped[f.detector]
                  \cup {[id |-> id, message |-> f.message, hash |-> f.hash]}
      cohort == {it \in bucket : Similar(it.message, f.message)}
      slug   == SlugFor(f.detector, f.message)
      hash   == IF f.hash # 0 THEN f.hash ELSE FirstHash(cohort)
  IN IF Cardinality(bucket) < PatternThreshold
     THEN /\ ungrouped' = [ungrouped EXCEPT ![f.detector] = bucket]
          /\ UNCHANGED <<grouped, byHash>>
     ELSE /\ ungrouped' = [ungrouped EXCEPT ![f.detector] = bucket \ cohort]
          /\ grouped' = Put([slug |-> slug, message |-> f.message, hash |-> hash,
                             ids |-> {it.id : it \in cohort}])
          /\ byHash' = WithHash(slug, hash)

\* Reading the file again: a hash that two patterns claim belongs to the later one.
LoadedHashes(ps) ==
  [h \in Hashes |->
     LET with == {i \in 1 .. Len(ps) : ps[i].hash = h}
     IN IF with = {} THEN NoSlug ELSE ps[CHOOSE i \in with : \A j \in with : i >= j].slug]

-----------------------------------------------------------------------------
(* The writes of a call, one after the other, which stop at a note that fails. *)

Write(n)     == [op |-> "write", note |-> n, from |-> n]
LinkTo(a, b) == [op |-> "link", note |-> b, from |-> a]
Narrate(n)   == [op |-> "narrate", note |-> n, from |-> n]
TheRun == <<"run", 1>>
Exhaustion == <<"exhaustion", 1>>
Regression(id) == <<"regression", id>>

\* record_incident: the note, the detector's, and the lists.  The list of the child's
\* own note is sought under a name that no note has, and is left alone.
RecordIncident(id, d) ==
  <<Write(<<"incident", id>>), Write(<<"detector", d>>),
    LinkTo(<<"detector", d>>, <<"incident", id>>), LinkTo(TheRun, <<"incident", id>>)>>

RecordPattern(slug) ==
  <<[op |-> "pattern", note |-> <<"pattern", slug>>, from |-> <<"pattern", slug>>]>>

\* A note and, when it could be written, its story.
RecordWithStory(n) == <<Write(n), Narrate(n)>>

PatternOf(id, ps) == {i \in 1 .. Len(ps) : id \in ps[i].ids}

\* _record_vault_incident: what fires is classified and the index saved; then come
\* the notes, unless the save failed.
IncidentFires(f, saves) ==
  /\ work = <<>> /\ children > 0 /\ fired < MaxVaultIncidents
  /\ fired' = fired + 1
  /\ IF Match(f) # 0 THEN Join(Match(f), f, fired + 1) ELSE Wait(f, fired + 1)
  /\ saved' = IF saves THEN [grouped |-> grouped', ungrouped |-> ungrouped'] ELSE saved
  /\ synced' = saves
  /\ held' = [index |-> held.index \cup {fired + 1},
              file |-> IF saves THEN held.index \cup {fired + 1} ELSE held.file]
  /\ LET incident == RecordIncident(fired + 1, f.detector)
         joined   == PatternOf(fired + 1, grouped')
         slug     == grouped'[CHOOSE i \in joined : TRUE].slug
     IN work' = IF ~saves THEN <<>>
                ELSE IF joined = {} THEN <<incident>>
                ELSE IF Match(f) # 0 THEN <<incident, RecordPattern(slug)>>
                ELSE <<incident, RecordPattern(slug), <<Narrate(<<"pattern", slug>>)>>>>
  /\ vaultFaults' = IF saves THEN vaultFaults ELSE vaultFaults + 1
  /\ UNCHANGED <<noteVars, children, tried>>

ChildStarts ==
  /\ work = <<>> /\ children < MaxVaultChildren
  /\ children' = children + 1
  /\ LET child == <<Write(<<"child", children + 1>>), LinkTo(TheRun, <<"child", children + 1>>)>>
     IN work' = IF children = 0 THEN <<<<Write(TheRun)>>, child>> ELSE <<child>>
  /\ UNCHANGED <<indexVars, noteVars, tried, vaultFaults>>

\* A fix is tried while its incident is the last one.
AttemptStarts(id) ==
  /\ work = <<>> /\ id = fired /\ tried[id] = "none"
  /\ Cardinality({i \in Fired : tried[i] # "none"}) < MaxVaultAttempts
  /\ tried' = [tried EXCEPT ![id] = "open"]
  /\ work' = <<<<Write(<<"attempt", id>>), LinkTo(<<"incident", id>>, <<"attempt", id>>)>>>>
  /\ UNCHANGED <<indexVars, noteVars, children, vaultFaults>>

\* record_attempt_resolution, into the note if there is one; a fix that regressed gets
\* a note of its own.
AttemptEnds(id, regressed) ==
  /\ work = <<>> /\ tried[id] = "open"
  /\ tried' = [tried EXCEPT ![id] = "over"]
  /\ \/ status' = [status EXCEPT ![id] = IF @ = "pending" THEN "resolved" ELSE @]
        /\ UNCHANGED vaultFaults
     \/ vaultFaults < MaxVaultFaults /\ vaultFaults' = vaultFaults + 1 /\ UNCHANGED status
  /\ work' = IF regressed THEN <<RecordWithStory(Regression(id))>> ELSE <<>>
  /\ UNCHANGED <<indexVars, notes, links, narrated, prose, children>>

\* The budget is spent, and the monitor about to stop.
RunExhausted ==
  /\ work = <<>> /\ children > 0 /\ Exhaustion \notin notes
  /\ work' = <<RecordWithStory(Exhaustion)>>
  /\ UNCHANGED <<indexVars, noteVars, children, tried, vaultFaults>>

DoWrite(o) ==
  /\ o.op = "write"
  /\ notes' = notes \cup {o.note}
  /\ status' = IF o.note[1] = "attempt" THEN [status EXCEPT ![o.note[2]] = "pending"] ELSE status
  /\ UNCHANGED <<links, narrated, prose>>

\* A list is appended to only where there is a note.
DoLink(o) ==
  /\ o.op = "link"
  /\ links' = IF o.from \in notes THEN links \cup {<<o.from, o.note>>} ELSE links
  /\ UNCHANGED <<notes, status, narrated, prose>>

\* record_pattern: the note is made, or what it lacks is added; then the detector's list.
DoPattern(o) ==
  /\ o.op = "pattern"
  /\ notes' = notes \cup {o.note}
  /\ LET i == CHOOSE i \in 1 .. Len(grouped) : grouped[i].slug = o.note[2]
         d == <<"detector", o.note[2][1]>>
     IN links' = links \cup {<<o.note, <<"incident", id>>>> : id \in grouped[i].ids}
                       \cup (IF d \in notes THEN {<<d, o.note>>} ELSE {})
  /\ UNCHANGED <<status, narrated, prose>>

\* replace_narrative, where there is a note.
Told(n) == IF n \in notes THEN prose \cup {n} ELSE prose

\* One call to a model, once for a note, recorded before the note is changed.
DoNarrate(o) ==
  /\ o.op = "narrate"
  /\ \/ /\ o.note \notin narrated
        /\ narrated' = narrated \cup {o.note}
        /\ prose' = Told(o.note)
     \/ UNCHANGED <<narrated, prose>>
  /\ UNCHANGED <<notes, links, status>>

\* A call that has made its last write is over.
AfterWrite == IF Len(Head(work)) = 1 THEN Tail(work) ELSE [work EXCEPT ![1] = Tail(@)]

VaultWork ==
  /\ work # <<>>
  /\ LET o == Head(Head(work)) IN DoWrite(o) \/ DoLink(o) \/ DoPattern(o) \/ DoNarrate(o)
  /\ work' = AfterWrite
  /\ UNCHANGED <<indexVars, children, tried, vaultFaults>>

\* An OSError: of a note, the call returns; of a list, it goes on.
VaultWorkFails ==
  /\ work # <<>> /\ vaultFaults < MaxVaultFaults /\ vaultFaults' = vaultFaults + 1
  /\ work' = IF Head(Head(work)).op = "write" THEN Tail(work) ELSE AfterWrite
  /\ UNCHANGED <<indexVars, noteVars, children, tried>>

\* The monitor is killed and started again: the index is what the file says, and the
\* fix that was being tried is nobody's.  (The notes of the new run stand for themselves;
\* children go on counting.)
VaultRestarts ==
  /\ vaultFaults < MaxVaultFaults /\ vaultFaults' = vaultFaults + 1
  /\ work' = <<>>
  /\ grouped' = saved.grouped /\ ungrouped' = saved.ungrouped
  /\ byHash' = LoadedHashes(saved.grouped)
  /\ synced' = TRUE /\ held' = [held EXCEPT !.index = held.file]
  /\ tried' = [i \in Fired |-> IF tried[i] = "open" THEN "over" ELSE tried[i]]
  /\ UNCHANGED <<saved, fired, noteVars, children>>

VaultNext ==
  \/ \E f \in Failures : \E saves \in BOOLEAN :
       (saves \/ vaultFaults < MaxVaultFaults) /\ IncidentFires(f, saves)
  \/ ChildStarts
  \/ \E id \in Fired :
       AttemptStarts(id) \/ \E regressed \in BOOLEAN : AttemptEnds(id, regressed)
  \/ RunExhausted
  \/ VaultWork \/ VaultWorkFails \/ VaultRestarts

-----------------------------------------------------------------------------
(* Properties *)

VaultTypeOK ==
  /\ fired \in 0 .. MaxVaultIncidents /\ children \in 0 .. MaxVaultChildren
  /\ \A i \in 1 .. Len(grouped) : /\ grouped[i].slug \in Slugs
                                  /\ grouped[i].ids \in SUBSET Fired
  /\ \A d \in VDetectors : Cardinality(ungrouped[d]) < PatternThreshold
  /\ \A n \in notes : n[1] \in NoteKinds
  /\ tried \in [Fired -> {"none", "open", "over"}]
  /\ status \in [Fired -> {"none", "pending", "resolved"}]
  /\ prose \subseteq narrated \cap notes

\* How often the index holds an incident.
Holdings(id) ==
  Cardinality({i \in 1 .. Len(grouped) : id \in grouped[i].ids})
  + Cardinality({d \in VDetectors : \E it \in ungrouped[d] : it.id = id})

\* Every incident the index took is in one pattern or one bucket, through joins,
\* promotions, slugs that collide and restarts (patterns.py, classify and _promote).
IncidentsAccounted == \A id \in held.index : Holdings(id) = 1

\* What a restart reads is what was in memory, the hashes that are not in the file
\* included (patterns.py, _load).
ReloadFaithful ==
  synced => /\ saved.grouped = grouped /\ saved.ungrouped = ungrouped
            /\ LoadedHashes(saved.grouped) = byHash

\* No pattern note shows an incident that the saved index would forget.
NotesBehindIndex ==
  \A l \in links : l[1][1] = "pattern" =>
    l[2][2] \in held.file

\* The list in the note of a run, a detector or an incident never names a note that was
\* not written (store.py: the note, then the lists).
LinksResolve == \A l \in links : l[1] \in notes /\ (l[1][1] # "pattern" => l[2] \in notes)

\* The vault agrees with itself whatever write fails and wherever the monitor is killed.
VaultConsistent == IncidentsAccounted /\ ReloadFaithful /\ NotesBehindIndex /\ LinksResolve
=============================================================================
