-------------------------- MODULE SupervisorProofs --------------------------
(***************************************************************************)
(* Proofs about the components that MCComponents checks side by side: the  *)
(* supervisors and the follower of a log file.  A step of the composition  *)
(* is, for every component, one of its own or one that leaves it alone     *)
(* (Projections), so that each is proved about by itself: its invariant    *)
(* speaks of its own variables, is true at the start and is kept by its    *)
(* own steps.                                                              *)
(***************************************************************************)
EXTENDS MCComponents, FiniteSetTheorems, TLAPS

\* What a step of the composition is to each component.
LEMMA Projections ==
  ASSUME [ComponentsNext]_allVars
  PROVE  /\ [DockerNext]_boxVars /\ [SlurmNext]_slurmVars /\ [AttachNext]_attachVars
         /\ [LocalNext]_localVars /\ [TailNext]_tailVars
         /\ [SessionQueueNext]_queueVars /\ [IncidentsNext]_incidentVars
         /\ [VaultNext]_vaultVars /\ [StateFileNext]_fileVars /\ [HealingNext]_healingVars
         /\ [LineDetectorsNext]_detectorVars /\ [FixBranchesNext]_branchVars
<1>1. CASE UNCHANGED allVars
  BY <1>1 DEF allVars
<1>2. CASE Only("docker") /\ DockerNext
  BY <1>2 DEF Only
<1>3. CASE Only("slurm") /\ SlurmNext
  BY <1>3 DEF Only
<1>4. CASE Only("attach") /\ AttachNext
  BY <1>4 DEF Only
<1>5. CASE Only("local") /\ LocalNext
  BY <1>5 DEF Only
<1>6. CASE Only("tail") /\ TailNext
  BY <1>6 DEF Only
<1>7. CASE Only("session") /\ SessionQueueNext
  BY <1>7 DEF Only
<1>8. CASE Only("incidents") /\ IncidentsNext
  BY <1>8 DEF Only
<1>9. CASE Only("vault") /\ VaultNext
  BY <1>9 DEF Only
<1>10. CASE Only("state") /\ StateFileNext
  BY <1>10 DEF Only
<1>11. CASE Only("healer") /\ HealingNext
  BY <1>11 DEF Only
<1>12. CASE Only("detector") /\ LineDetectorsNext
  BY <1>12 DEF Only
<1>13. CASE Only("git") /\ FixBranchesNext
  BY <1>13 DEF Only
<1>. QED
  BY <1>1, <1>2, <1>3, <1>4, <1>5, <1>6, <1>7, <1>8, <1>9, <1>10, <1>11, <1>12, <1>13
     DEF ComponentsNext

\* What Append and Tail make of a sequence.
LEMMA AppendHas ==
  ASSUME NEW S, NEW s \in Seq(S), NEW e \in S
  PROVE  /\ Append(s, e) \in Seq(S) /\ Len(Append(s, e)) = Len(s) + 1
         /\ \A i \in 1 .. Len(s) : Append(s, e)[i] = s[i]
         /\ Append(s, e)[Len(s) + 1] = e
  OBVIOUS

LEMMA TailHas ==
  ASSUME NEW S, NEW s \in Seq(S), s # <<>>
  PROVE  /\ Tail(s) \in Seq(S) /\ Len(Tail(s)) = Len(s) - 1 /\ Len(s) \in Nat \ {0}
         /\ Head(s) = s[1] /\ Head(s) \in S
         /\ \A i \in 1 .. Len(s) - 1 : Tail(s)[i] = s[i + 1]
<1>1. Len(s) \in Nat \ {0}
  OBVIOUS
<1>. QED
  BY <1>1

LEMMA SeqHas ==
  ASSUME NEW S, NEW s \in Seq(S)
  PROVE  Len(s) \in Nat /\ \A i \in 1 .. Len(s) : s[i] \in S
  OBVIOUS

-----------------------------------------------------------------------------
(* The follower of a log file *)

\* The path names the newest file; the thread has heard nothing of files that came
\* after the one it has; and where it stands in a file is what it skipped and heard.
TailInv ==
  /\ TailTypeOK
  /\ path # 0 => path = inodes
  /\ tail.ino <= inodes
  /\ tail.phase \in {"inner", "stat"} => tail.ino # 0
  /\ tail.phase # "none" => \A i \in Inodes : i > tail.ino => heard[i] = 0
  /\ HeardOnce

LEMMA ZeroIsZero ==
  /\ Zero \in [Inodes -> 0 .. MaxPieces] /\ Zero \in [Inodes -> Nat]
  /\ \A i \in Inodes : Zero[i] = 0
  BY LogTailAssumption DEF Zero

LEMMA TailInitially == TailInit => TailInv
<1>. SUFFICES ASSUME TailInit PROVE TailInv
  OBVIOUS
<1>. USE LogTailAssumption DEF TailInit
<1>1. /\ \A i \in Inodes : written[i] = 0 /\ skipped[i] = 0 /\ heard[i] = 0
      /\ tail.phase = "none" /\ tail.ino = 0 /\ tail.pos = 0
  BY DEF Zero, Nobody
<1>2. TailTypeOK
  <2>1. tail \in [phase : {"none", "outer", "inner", "stat"}, ino : 0 .. MaxInodes,
                  pos : 0 .. MaxPieces]
    BY DEF Nobody
  <2>2. 0 \in 0 .. MaxInodes /\ {} \in SUBSET Inodes
    OBVIOUS
  <2>. QED
    BY <2>1, <2>2, ZeroIsZero DEF TailTypeOK
<1>3. HeardOnce
  BY <1>1 DEF HeardOnce
<1>. QED
  BY <1>1, <1>2, <1>3 DEF TailInv

LEMMA TailWriterKeeps ==
  ASSUME TailInv, CreateLog \/ WriteLog \/ RotateLog \/ TruncateLog
  PROVE  TailInv'
<1>. USE LogTailAssumption DEF TailInv, Inodes, threadVars
<1>1. UNCHANGED threadVars /\ cut \subseteq cut'
  BY DEF CreateLog, WriteLog, RotateLog, TruncateLog
<1>2. HeardOnce'
  BY <1>1 DEF HeardOnce
<1>3. CASE CreateLog
  <2>1. TailTypeOK'
    BY <1>3 DEF CreateLog, TailTypeOK
  <2>2. tail.ino \in Nat /\ inodes \in Nat
    BY DEF TailTypeOK
  <2>. QED
    BY <1>1, <1>2, <1>3, <2>1, <2>2 DEF CreateLog
<1>4. CASE WriteLog
  <2>1. TailTypeOK'
    BY <1>4, SMTT(60) DEF WriteLog, TailTypeOK
  <2>. QED
    BY <1>1, <1>2, <1>4, <2>1 DEF WriteLog
<1>5. CASE RotateLog
  <2>1. TailTypeOK'
    BY <1>5, SMTT(30) DEF RotateLog, TailTypeOK
  <2>. QED
    BY <1>1, <1>2, <1>5, <2>1 DEF RotateLog
<1>6. CASE TruncateLog
  <2>1. TailTypeOK'
    BY <1>6, SMTT(30) DEF TruncateLog, TailTypeOK
  <2>. QED
    BY <1>1, <1>2, <1>6, <2>1 DEF TruncateLog
<1>. QED
  BY <1>3, <1>4, <1>5, <1>6

LEMMA TailThreadKeeps ==
  ASSUME TailInv, StartTail \/ StopTail \/ ReadEnd \/ StatLog \/ ReadFails \/ TailEnds
  PROVE  TailInv'
<1>. USE LogTailAssumption DEF TailInv, Inodes, worldVars
<1>1. CASE StartTail
  <2>1. /\ \A i \in Inodes : skipped'[i] = 0 /\ heard'[i] = 0
        /\ tail'.phase = "outer" /\ tail'.ino = 0
    BY <1>1 DEF StartTail, Zero
  <2>2. TailTypeOK'
    <3>1. tail' \in [phase : {"none", "outer", "inner", "stat"}, ino : 0 .. MaxInodes,
                     pos : 0 .. MaxPieces]
      BY <1>1 DEF StartTail
    <3>. QED
      BY <1>1, <3>1, ZeroIsZero DEF StartTail, TailTypeOK
  <2>3. HeardOnce'
    BY <1>1, <2>1 DEF StartTail, HeardOnce
  <2>. QED
    BY <1>1, <2>1, <2>2, <2>3, SMTT(30) DEF StartTail, TailTypeOK
<1>2. CASE StopTail
  <2>1. TailTypeOK'
    BY <1>2, SMTT(30) DEF StopTail, TailTypeOK
  <2>. QED
    BY <1>2, <2>1 DEF StopTail, HeardOnce
<1>3. ASSUME NEW p \in {"none", "outer", "inner", "stat"},
             tail' = [tail EXCEPT !.phase = p],
             p = "inner" \/ p = "stat" => tail.phase \in {"inner", "stat"},
             tail.phase # "none",
             mishaps' \in Nat,
             UNCHANGED <<seekToEnd, worldVars, quitting, ready, skipped, heard, twice>>
      PROVE  TailInv'
  <2>1. tail'.phase = p /\ tail'.ino = tail.ino /\ tail'.pos = tail.pos
    BY <1>3 DEF TailTypeOK
  <2>2. TailTypeOK'
    BY <1>3 DEF TailTypeOK
  <2>3. HeardOnce'
    BY <1>3, <2>1 DEF HeardOnce
  <2>. QED
    BY <1>3, <2>1, <2>2, <2>3
<1>4. CASE ReadEnd
  BY <1>3, <1>4 DEF ReadEnd, TailTypeOK
<1>5. CASE StatLog
  BY <1>3, <1>5 DEF StatLog, TailTypeOK
<1>6. CASE ReadFails
  BY <1>3, <1>6 DEF ReadFails, TailTypeOK
<1>7. CASE TailEnds
  <2>1. tail'.phase = "none" /\ tail'.ino = 0
    BY <1>7 DEF TailEnds, Nobody
  <2>2. TailTypeOK'
    BY <1>7, SMTT(30) DEF TailEnds, TailTypeOK, Nobody
  <2>3. HeardOnce'
    BY <1>7, <2>1 DEF TailEnds, HeardOnce
  <2>. QED
    BY <1>7, <2>1, <2>2, <2>3, SMTT(30) DEF TailEnds, TailTypeOK
<1>. QED
  BY <1>1, <1>2, <1>4, <1>5, <1>6, <1>7

LEMMA OpenLogKeeps ==
  ASSUME TailInv, OpenLog
  PROVE  TailInv'
<1>. USE LogTailAssumption DEF TailInv, Inodes, worldVars, OpenLog
<1>1. /\ path \in Inodes /\ Place(path) \in 0 .. MaxPieces
      /\ skipped \in [Inodes -> 0 .. MaxPieces] /\ heard \in [Inodes -> Nat]
      /\ tail.ino \in Nat
  BY DEF Place, TailTypeOK
<1>2. /\ tail'.phase = "inner" /\ tail'.ino = path /\ tail'.pos = Place(path)
  OBVIOUS
<1>3. skipped' \in [Inodes -> 0 .. MaxPieces]
  BY <1>1
<1>4. TailTypeOK'
  BY <1>1, <1>3 DEF TailTypeOK
<1>5. CASE tail.ino = path
  <2>1. Place(path) = tail.pos /\ skipped' = skipped
    BY <1>5 DEF Place
  <2>2. HeardOnce'
    BY <1>1, <1>2, <1>5, <2>1 DEF HeardOnce
  <2>. QED
    BY <1>1, <1>2, <1>4, <1>5, <2>2
<1>6. CASE tail.ino # path
  <2>1. Place(path) # 0 => seekToEnd
    BY <1>6 DEF Place
  <2>2. heard[path] = 0
    BY <1>1, <1>6 DEF TailTypeOK
  <2>3. skipped' = [skipped EXCEPT ![path] = Place(path)]
    BY <1>6
  <2>4. HeardOnce'
    BY <1>1, <1>2, <2>1, <2>2, <2>3 DEF HeardOnce
  <2>. QED
    BY <1>1, <1>2, <1>4, <2>4
<1>. QED
  BY <1>5, <1>6

LEMMA ReadLineKeeps ==
  ASSUME TailInv, ReadLine
  PROVE  TailInv'
<1>. USE LogTailAssumption DEF TailInv, Inodes, worldVars, ReadLine
<1>1. /\ tail.ino \in Inodes /\ tail.pos \in 0 .. MaxPieces
      /\ written[tail.ino] \in 0 .. MaxPieces
      /\ heard \in [Inodes -> Nat] /\ skipped \in [Inodes -> 0 .. MaxPieces]
  BY SMTT(30) DEF TailTypeOK
<1>2. PICK n \in tail.pos + 1 .. written[tail.ino] :
        /\ tail' = [tail EXCEPT !.pos = n]
        /\ heard' = [heard EXCEPT ![tail.ino] = @ + (n - tail.pos)]
  OBVIOUS
<1>3. n \in 0 .. MaxPieces /\ n - tail.pos \in Nat
  BY <1>1, SMTT(30)
<1>4. heard' \in [Inodes -> Nat]
  BY <1>1, <1>2, <1>3, SMTT(30)
<1>5. tail'.phase = "inner" /\ tail'.ino = tail.ino /\ tail'.pos = n
  BY <1>2 DEF TailTypeOK
<1>6. /\ heard'[tail.ino] = heard[tail.ino] + (n - tail.pos)
      /\ \A i \in Inodes : i # tail.ino => heard'[i] = heard[i]
  BY <1>1, <1>2
<1>7. ~twice'
  BY DEF HeardOnce
<1>8. TailTypeOK'
  <2>1. tail' \in [phase : {"none", "outer", "inner", "stat"}, ino : 0 .. MaxInodes,
                   pos : 0 .. MaxPieces]
    BY <1>2, <1>3 DEF TailTypeOK
  <2>. QED
    BY <1>4, <1>7, <2>1 DEF TailTypeOK
<1>9. HeardOnce'
  BY <1>1, <1>3, <1>5, <1>6, <1>7 DEF HeardOnce
<1>. QED
  BY <1>1, <1>5, <1>6, <1>8, <1>9

\* Every step of the follower and of whoever writes its file.
LEMMA TailKeeps ==
  ASSUME TailInv, [TailNext]_tailVars
  PROVE  TailInv'
<1>1. CASE UNCHANGED tailVars
  BY <1>1 DEF tailVars, TailInv, TailTypeOK, HeardOnce
<1>2. CASE TailNext
  BY <1>2, TailWriterKeeps, TailThreadKeeps, OpenLogKeeps, ReadLineKeeps DEF TailNext, TailThread
<1>. QED
  BY <1>1, <1>2

\* A session hears every piece of a file that is not cut once and in order, from its
\* start or from where it stood, whatever rotations, errors and stops there are, for
\* any number of files and pieces (_tail.py, last_inode and pos in follow_file).
THEOREM PiecesAreHeardOnce == ComponentsSpec => []HeardOnce
<1>1. ComponentsInit => TailInv
  BY TailInitially DEF ComponentsInit
<1>2. TailInv /\ [ComponentsNext]_allVars => TailInv'
  BY TailKeeps, Projections
<1>3. TailInv => HeardOnce
  BY DEF TailInv
<1>. QED
  BY <1>1, <1>2, <1>3, PTL DEF ComponentsSpec

-----------------------------------------------------------------------------
(* The supervisors: who is listened to, and who is alive *)

\* Before the first start there is no thread; until a pause, no thread is told to end,
\* and one that was begun goes on.  Threads that were told to end are all ones that a
\* start or a join that took too long has counted.
AttachInv ==
  /\ AttachTypeOK
  /\ attachAt = "start" => begun = 0 /\ followers = 0 /\ ~released /\ ~streamEnded /\ ~letGo
  /\ attachAt \in {"drain", "act"} /\ ~letGo =>
       ~released /\ ~streamEnded /\ (begun > 0 => followers > 0)
  /\ followers <= 1 + doubled
  /\ released => followers <= doubled

LEMMA AttachInitially == AttachInit => AttachInv
<1>. SUFFICES ASSUME AttachInit PROVE AttachInv
  OBVIOUS
<1>1. /\ allowKill \in BOOLEAN /\ pidAlive \in BOOLEAN /\ released \in BOOLEAN
      /\ streamEnded \in BOOLEAN /\ letGo \in BOOLEAN
      /\ ~released /\ ~streamEnded /\ ~letGo
  BY DEF AttachInit
<1>2. /\ followers = 0 /\ begun = 0 /\ attachAt = "start" /\ pidFaults = 0 /\ doubled = 0
      /\ 0 \in 0 .. MaxFollowers /\ 0 \in 0 .. MaxPidFaults
  BY AttachAssumption DEF AttachInit
<1>3. AttachTypeOK
  BY <1>1, <1>2 DEF AttachTypeOK
<1>. QED
  BY <1>1, <1>2, <1>3 DEF AttachInv

\* A start begins one thread, beside others only when it is counted.
LEMMA FollowKeeps ==
  ASSUME AttachInv, Follow, attachAt' = "drain",
         attachAt = "start" \/ attachAt = "act",
         UNCHANGED <<allowKill, pidAlive, streamEnded, letGo, pidFaults>>
  PROVE  AttachInv'
<1>. USE AttachAssumption DEF AttachInv, AttachTypeOK
<1>1. CASE pidAlive
  <2>1. /\ begun' = begun + 1 /\ followers' = followers + 1 /\ begun < MaxFollowers
        /\ ~released' /\ released' \in BOOLEAN
    BY <1>1 DEF Follow
  <2>2. doubled' \in Nat /\ followers' <= 1 + doubled'
    <3>1. CASE followers > 0 /\ ~released
      BY <1>1, <2>1, <3>1 DEF Follow
    <3>2. CASE ~(followers > 0 /\ ~released)
      BY <1>1, <2>1, <3>2 DEF Follow
    <3>. QED
      BY <3>1, <3>2
  <2>3. ~letGo => ~streamEnded
    OBVIOUS
  <2>4. /\ followers' \in 0 .. MaxFollowers /\ begun' \in followers' .. MaxFollowers
        /\ pidFaults' \in 0 .. MaxPidFaults /\ followers' > 0
        /\ allowKill' \in BOOLEAN /\ pidAlive' \in BOOLEAN /\ streamEnded' \in BOOLEAN
        /\ letGo' \in BOOLEAN
    BY <2>1
  <2>. HIDE DEF AttachInv
  <2>5. AttachTypeOK'
    BY <2>1, <2>2, <2>4
  <2>. QED
    BY <2>1, <2>2, <2>3, <2>4, <2>5 DEF AttachInv
<1>2. CASE ~pidAlive
  BY <1>2 DEF Follow
<1>. QED
  BY <1>1, <1>2

\* A stop tells them all to end; the one it does not see the end of is counted.
LEMMA ReleaseKeeps ==
  ASSUME AttachInv, Release, UNCHANGED <<allowKill, pidAlive, streamEnded>>,
         \/ attachAt' = "over" /\ UNCHANGED letGo
         \/ attachAt' = "drain" /\ letGo' = TRUE
  PROVE  AttachInv'
<1>. USE AttachAssumption DEF AttachInv, AttachTypeOK
<1>1. released' /\ released' \in BOOLEAN /\ begun' = begun /\ letGo' \in BOOLEAN
  BY DEF Release
<1>2. /\ followers' \in 0 .. MaxFollowers /\ begun \in followers' .. MaxFollowers
      /\ doubled' \in Nat /\ pidFaults' \in 0 .. MaxPidFaults /\ followers' <= doubled'
  BY DEF Release
<1>3. /\ allowKill' \in BOOLEAN /\ pidAlive' \in BOOLEAN /\ streamEnded' \in BOOLEAN
      /\ attachAt' \in {"drain", "over"} /\ (attachAt' = "drain" => letGo')
  OBVIOUS
<1>4. AttachTypeOK'
  BY <1>1, <1>2, <1>3
<1>. HIDE DEF AttachInv
<1>5. followers' <= 1 + doubled'
  <2>1. followers' \in Nat /\ doubled' \in Nat /\ followers' <= doubled'
    BY <1>2
  <2>2. \A m, n \in Nat : m <= n => m <= 1 + n
    OBVIOUS
  <2>. QED
    BY ONLY <2>1, <2>2
<1>. QED
  BY <1>1, <1>2, <1>3, <1>4, <1>5 DEF AttachInv

LEMMA AttachKeeps ==
  ASSUME AttachInv, [AttachNext]_attachVars
  PROVE  AttachInv'
<1>. USE AttachAssumption DEF AttachInv, AttachTypeOK
<1>1. CASE UNCHANGED attachVars
  BY <1>1 DEF attachVars
<1>2. CASE PidDies
  BY <1>2 DEF PidDies
<1>3. CASE PidReused
  BY <1>3 DEF PidReused
<1>4. CASE FollowerEnds
  BY <1>4 DEF FollowerEnds
<1>5. CASE AttachStart
  BY <1>5, FollowKeeps DEF AttachStart
<1>6. CASE AttachDrain
  BY <1>6 DEF AttachDrain
<1>7. CASE AttachGoesOn
  BY <1>7 DEF AttachGoesOn
<1>8. CASE AttachResumes
  BY <1>8, FollowKeeps DEF AttachResumes
<1>9. CASE AttachPauses
  BY <1>9, ReleaseKeeps DEF AttachPauses
<1>10. CASE AttachAborts
  BY <1>10 DEF AttachAborts
<1>11. CASE AttachStops
  BY <1>11, ReleaseKeeps DEF AttachStops
<1>. QED
  BY <1>1, <1>2, <1>3, <1>4, <1>5, <1>6, <1>7, <1>8, <1>9, <1>10, <1>11 DEF AttachNext

LEMMA AttachedIsHeard == AttachInv => PidIsHeard
  BY DEF AttachInv, PidIsHeard

\* A job that is live and is not the one the supervisor remembers is one a command
\* failed on; until something fails or a pause, the event is clear and the newest job
\* has its thread.
Strays == {j \in Jobs : jobs[j] = "live" /\ j # job}

SlurmInv ==
  /\ SlurmTypeOK
  /\ Cardinality(Strays) <= slurmFaults
  /\ jobAt = "over" => job = 0 \/ jobs[job] # "live" \/ Cardinality(Strays) + 1 <= slurmFaults
  /\ jobAt = "start" => job = 0
  /\ jobAt # "over" /\ ~disturbed /\ slurmFaults = 0 =>
       /\ ~stopped /\ ~iterated
       /\ job # 0 => tails[job] # NoTail

LEMMA SlurmInitially == SlurmInit => SlurmInv
<1>. SUFFICES ASSUME SlurmInit PROVE SlurmInv
  OBVIOUS
<1>1. Strays = {}
  BY DEF SlurmInit, Strays
<1>2. Cardinality(Strays) = 0
  BY <1>1, FS_EmptySet
<1>3. SlurmTypeOK
  <2>1. /\ jobs \in [Jobs -> {"none", "live", "ending", "completed", "failed"}]
        /\ tails \in [Jobs -> 0 .. MaxJobs + 1]
    BY SlurmAssumption DEF SlurmInit, NoTail
  <2>2. stopped \in BOOLEAN /\ iterated \in BOOLEAN /\ disturbed \in BOOLEAN
    BY DEF SlurmInit
  <2>3. /\ job \in 0 .. MaxJobs /\ logPath \in 0 .. MaxJobs /\ logged \in SUBSET Jobs
        /\ jobAt \in {"start", "drain", "act", "over"} /\ slurmFaults \in 0 .. MaxSlurmFaults
    BY SlurmAssumption DEF SlurmInit
  <2>. QED
    BY <2>1, <2>2, <2>3 DEF SlurmTypeOK
<1>. QED
  BY <1>2, <1>3 DEF SlurmInit, SlurmInv

\* The same of what a call leaves behind.
JobStates == {"none", "live", "ending", "completed", "failed"}
Worlds == [jobs : [Jobs -> JobStates], job : 0 .. MaxJobs, logPath : 0 .. MaxJobs,
           tails : [Jobs -> 0 .. MaxJobs + 1], stopped : BOOLEAN,
           faults : 0 .. MaxSlurmFaults, raised : BOOLEAN]
StraysOf(w) == {j \in Jobs : w.jobs[j] = "live" /\ j # w.job}
Accounted(w) == Cardinality(StraysOf(w)) <= w.faults

LEMMA WorldOf ==
  ASSUME NEW js \in [Jobs -> JobStates], NEW b \in 0 .. MaxJobs, NEW l \in 0 .. MaxJobs,
         NEW ts \in [Jobs -> 0 .. MaxJobs + 1], NEW s \in BOOLEAN,
         NEW f \in 0 .. MaxSlurmFaults, NEW r \in BOOLEAN
  PROVE  [jobs |-> js, job |-> b, logPath |-> l, tails |-> ts, stopped |-> s, faults |-> f,
          raised |-> r] \in Worlds
  BY DEF Worlds

LEMMA StraysAreFinite ==
  ASSUME NEW w
  PROVE  IsFiniteSet(StraysOf(w)) /\ Cardinality(StraysOf(w)) \in Nat
<1>1. IsFiniteSet(Jobs)
  BY SlurmAssumption, FS_Interval DEF Jobs
<1>2. StraysOf(w) \in SUBSET Jobs
  BY DEF StraysOf
<1>. QED
  BY <1>1, <1>2, FS_Subset, FS_CardinalityType

\* A child that is not live makes room for one; an id that cannot be read is a stray.
LEMMA SubmitGives ==
  ASSUME NEW w \in Worlds, ~w.raised, Accounted(w), w.job = 0 \/ w.jobs[w.job] # "live",
         NEW v \in Submit(w)
  PROVE  /\ v \in Worlds /\ Accounted(v) /\ w.faults <= v.faults
         /\ v.raised => v.job = w.job
         /\ v.raised \/ (~v.stopped /\ v.job # 0 /\ v.tails[v.job] # NoTail)
<1>. USE SlurmAssumption
<1>. DEFINE j == Submitted(w) + 1
<1>1. j \in Nat \ {0}
  <2>1. IsFiniteSet(Jobs)
    BY FS_Interval DEF Jobs
  <2>2. {i \in Jobs : w.jobs[i] # "none"} \in SUBSET Jobs
    OBVIOUS
  <2>3. Submitted(w) \in Nat
    BY <2>1, <2>2, FS_Subset, FS_CardinalityType DEF Submitted
  <2>. QED
    BY <2>3
<1>2. /\ w.jobs \in [Jobs -> JobStates] /\ w.job \in 0 .. MaxJobs /\ w.logPath \in 0 .. MaxJobs
      /\ w.tails \in [Jobs -> 0 .. MaxJobs + 1] /\ w.stopped \in BOOLEAN
      /\ w.faults \in 0 .. MaxSlurmFaults /\ w.raised \in BOOLEAN
  BY DEF Worlds
<1>. HIDE DEF j
<1>3. CASE v = [w EXCEPT !.raised = TRUE]
  <2>1. /\ v \in Worlds /\ v.jobs = w.jobs /\ v.job = w.job /\ v.faults = w.faults /\ v.raised
    BY <1>3 DEF Worlds
  <2>2. StraysOf(v) = StraysOf(w)
    BY <2>1 DEF StraysOf
  <2>. QED
    BY <1>2, <2>1, <2>2 DEF Accounted
<1>4. CASE v = [w EXCEPT !.raised = TRUE, !.faults = @ + 1] /\ w.faults < MaxSlurmFaults
  <2>1. v.jobs = w.jobs /\ v.job = w.job /\ v.faults = w.faults + 1 /\ v.raised
    BY <1>4 DEF Worlds
  <2>2. v \in Worlds
    <3>1. v = [jobs |-> w.jobs, job |-> w.job, logPath |-> w.logPath, tails |-> w.tails,
                 stopped |-> w.stopped, faults |-> w.faults + 1, raised |-> TRUE]
      BY <1>4 DEF Worlds
    <3>2. w.faults + 1 \in 0 .. MaxSlurmFaults
      BY <1>2, <1>4
    <3>. QED
      BY <3>1, <3>2, WorldOf, <1>2
  <2>3. StraysOf(v) = StraysOf(w)
    BY <2>1 DEF StraysOf
  <2>. QED
    BY <1>2, <2>1, <2>2, <2>3, StraysAreFinite DEF Accounted
<1>5. CASE /\ v = [w EXCEPT !.jobs[j] = "live", !.raised = TRUE, !.faults = @ + 1]
           /\ w.faults < MaxSlurmFaults /\ j \in Jobs
  <2>1. /\ v.jobs = [w.jobs EXCEPT ![j] = "live"] /\ v.job = w.job /\ v.faults = w.faults + 1
        /\ v.raised
    BY <1>5 DEF Worlds
  <2>2. v \in Worlds
    <3>1. v = [jobs |-> [w.jobs EXCEPT ![j] = "live"], job |-> w.job, logPath |-> w.logPath, tails |-> w.tails,
                 stopped |-> w.stopped, faults |-> w.faults + 1, raised |-> TRUE]
      BY <1>5 DEF Worlds
    <3>2. w.faults + 1 \in 0 .. MaxSlurmFaults /\ [w.jobs EXCEPT ![j] = "live"] \in [Jobs -> JobStates]
      BY <1>2, <1>5 DEF JobStates
    <3>. QED
      BY <3>1, <3>2, WorldOf, <1>2
  <2>3. StraysOf(v) \subseteq StraysOf(w) \cup {j}
    BY <1>2, <1>5, <2>1 DEF StraysOf
  <2>4. Cardinality(StraysOf(v)) <= Cardinality(StraysOf(w)) + 1
    <3>1. /\ IsFiniteSet(StraysOf(w)) /\ Cardinality(StraysOf(w)) \in Nat
          /\ Cardinality(StraysOf(v)) \in Nat
      BY StraysAreFinite
    <3>2. /\ IsFiniteSet(StraysOf(w) \cup {j})
          /\ Cardinality(StraysOf(w) \cup {j}) <= Cardinality(StraysOf(w)) + 1
      <4>1. Cardinality(StraysOf(w) \cup {j})
              = IF j \in StraysOf(w) THEN Cardinality(StraysOf(w)) ELSE Cardinality(StraysOf(w)) + 1
        BY <3>1, FS_AddElement
      <4>. QED
        BY <3>1, <4>1, FS_AddElement
    <3>3. Cardinality(StraysOf(v)) <= Cardinality(StraysOf(w) \cup {j})
      BY <2>3, <3>2, FS_Subset
    <3>4. Cardinality(StraysOf(w) \cup {j}) \in Nat
      BY <3>2, FS_CardinalityType
    <3>. QED
      BY <3>1, <3>2, <3>3, <3>4
  <2>. QED
    BY <1>2, <2>1, <2>2, <2>4, StraysAreFinite DEF Accounted
<1>6. CASE /\ v = [w EXCEPT !.jobs[j] = "live", !.job = j, !.logPath = j, !.stopped = FALSE,
                            !.tails[j] = Waiting]
           /\ j \in Jobs
  <2>1. /\ v.jobs = [w.jobs EXCEPT ![j] = "live"] /\ v.job = j /\ v.faults = w.faults
        /\ v.tails = [w.tails EXCEPT ![j] = Waiting] /\ ~v.stopped
    BY <1>6 DEF Worlds
  <2>2. v \in Worlds
    <3>1. v = [jobs |-> [w.jobs EXCEPT ![j] = "live"], job |-> j, logPath |-> j, tails |-> [w.tails EXCEPT ![j] = Waiting],
                 stopped |-> FALSE, faults |-> w.faults, raised |-> w.raised]
      BY <1>6 DEF Worlds
    <3>2. /\ [w.jobs EXCEPT ![j] = "live"] \in [Jobs -> JobStates] /\ j \in 0 .. MaxJobs
          /\ [w.tails EXCEPT ![j] = Waiting] \in [Jobs -> 0 .. MaxJobs + 1]
      BY <1>2, <1>6 DEF JobStates, Waiting, Jobs
    <3>. QED
      BY <3>1, <3>2, WorldOf, <1>2
  <2>3. StraysOf(v) \subseteq StraysOf(w)
    BY <1>2, <1>6, <2>1 DEF StraysOf, Jobs
  <2>4. Cardinality(StraysOf(v)) <= Cardinality(StraysOf(w))
    BY <2>3, StraysAreFinite, FS_Subset
  <2>5. v.job # 0 /\ v.tails[v.job] # NoTail
    BY <1>2, <1>6, <2>1 DEF Jobs, Waiting, NoTail
  <2>. QED
    <3>1. Cardinality(StraysOf(w)) \in Nat /\ Cardinality(StraysOf(v)) \in Nat
      BY StraysAreFinite
    <3>2. Accounted(v)
      BY <1>2, <2>1, <2>4, <3>1 DEF Accounted
    <3>3. v.raised = w.raised
      BY <1>6 DEF Worlds
    <3>. QED
      BY <1>2, <2>1, <2>2, <2>5, <3>2, <3>3
<1>7. j \in Jobs \/ j > MaxJobs
  BY <1>1 DEF Jobs
<1>. QED
  BY <1>3, <1>4, <1>5, <1>6, <1>7 DEF Submit, SubmitWith, j

\* A cancelled job is not live, or something has failed.
LEMMA CancelGives ==
  ASSUME NEW w \in Worlds, Accounted(w), NEW v \in Cancel(w)
  PROVE  /\ v \in Worlds /\ Accounted(v) /\ w.faults <= v.faults /\ v.job = w.job
         /\ v.raised = w.raised
         /\ \/ v.job = 0 \/ v.jobs[v.job] # "live"
            \/ Cardinality(StraysOf(v)) + 1 <= v.faults
<1>. USE SlurmAssumption
<1>1. /\ w.jobs \in [Jobs -> JobStates] /\ w.job \in 0 .. MaxJobs /\ w.logPath \in 0 .. MaxJobs
      /\ w.tails \in [Jobs -> 0 .. MaxJobs + 1] /\ w.stopped \in BOOLEAN
      /\ w.faults \in 0 .. MaxSlurmFaults /\ w.raised \in BOOLEAN
      /\ Cardinality(StraysOf(w)) \in Nat /\ Cardinality(StraysOf(v)) \in Nat
  BY StraysAreFinite DEF Worlds
<1>2. CASE w.job = 0
  BY <1>1, <1>2 DEF Cancel
<1>3. CASE w.job # 0
  <2>. DEFINE s == IF w.jobs[w.job] = "live" THEN "ending" ELSE w.jobs[w.job]
              c == [w EXCEPT !.jobs[w.job] = s]
  <2>1. w.job \in Jobs /\ s \in JobStates /\ s # "live"
    BY <1>1, <1>3 DEF Jobs, JobStates
  <2>2. /\ c \in Worlds /\ c.jobs = [w.jobs EXCEPT ![w.job] = s] /\ c.job = w.job
        /\ c.tails = w.tails /\ c.faults = w.faults /\ c.raised = w.raised
    <3>. HIDE DEF s
    <3>. QED
      BY <1>1, <2>1 DEF Worlds
  <2>3. StraysOf(c) = StraysOf(w) /\ c.jobs[c.job] # "live"
    <3>. HIDE DEF s, c
    <3>. QED
      BY <1>1, <2>1, <2>2 DEF StraysOf
  <2>. HIDE DEF s
  <2>4. CASE v = [c EXCEPT !.stopped = TRUE, !.tails[c.job] = NoTail]
    <3>. HIDE DEF c
    <3>1. v.jobs = c.jobs /\ v.job = c.job /\ v.faults = c.faults /\ v.raised = c.raised
      BY <2>2, <2>4 DEF Worlds
    <3>2. v \in Worlds
      <4>1. v = [jobs |-> c.jobs, job |-> c.job, logPath |-> c.logPath, tails |-> [c.tails EXCEPT ![c.job] = NoTail],
                   stopped |-> TRUE, faults |-> c.faults, raised |-> c.raised]
        BY <2>2, <2>4 DEF Worlds
      <4>2. /\ [c.tails EXCEPT ![c.job] = NoTail] \in [Jobs -> 0 .. MaxJobs + 1]
            /\ c.jobs \in [Jobs -> JobStates] /\ c.job \in 0 .. MaxJobs /\ c.logPath \in 0 .. MaxJobs
            /\ c.faults \in 0 .. MaxSlurmFaults /\ c.raised \in BOOLEAN
        <5>1. /\ c.tails \in [Jobs -> 0 .. MaxJobs + 1]
              /\ c.jobs \in [Jobs -> JobStates] /\ c.job \in 0 .. MaxJobs
              /\ c.logPath \in 0 .. MaxJobs /\ c.faults \in 0 .. MaxSlurmFaults
              /\ c.raised \in BOOLEAN
          BY <2>2 DEF Worlds
        <5>2. NoTail \in 0 .. MaxJobs + 1
          BY DEF NoTail
        <5>. QED
          BY <5>1, <5>2
      <4>. QED
        BY <4>1, <4>2, WorldOf
    <3>3. StraysOf(v) = StraysOf(c)
      BY <3>1 DEF StraysOf
    <3>. QED
      BY <1>1, <1>3, <2>2, <2>3, <3>1, <3>2, <3>3 DEF Accounted
  <2>5. CASE v = [c EXCEPT !.stopped = TRUE, !.faults = @ + 1] /\ w.faults < MaxSlurmFaults
    <3>. HIDE DEF c
    <3>1. v.jobs = c.jobs /\ v.job = c.job /\ v.faults = c.faults + 1 /\ v.raised = c.raised
      BY <2>2, <2>5 DEF Worlds
    <3>2. v \in Worlds
      <4>1. v = [jobs |-> c.jobs, job |-> c.job, logPath |-> c.logPath, tails |-> c.tails,
                   stopped |-> TRUE, faults |-> c.faults + 1, raised |-> c.raised]
        BY <2>2, <2>5 DEF Worlds
      <4>2. /\ c.tails \in [Jobs -> 0 .. MaxJobs + 1] /\ c.faults + 1 \in 0 .. MaxSlurmFaults
            /\ c.jobs \in [Jobs -> JobStates] /\ c.job \in 0 .. MaxJobs /\ c.logPath \in 0 .. MaxJobs
            /\ c.raised \in BOOLEAN
        <5>1. /\ c.tails \in [Jobs -> 0 .. MaxJobs + 1]
              /\ c.jobs \in [Jobs -> JobStates] /\ c.job \in 0 .. MaxJobs
              /\ c.logPath \in 0 .. MaxJobs /\ c.raised \in BOOLEAN
          BY <2>2 DEF Worlds
        <5>2. c.faults + 1 \in 0 .. MaxSlurmFaults
          BY <1>1, <2>2, <2>5
        <5>. QED
          BY <5>1, <5>2
      <4>. QED
        BY <4>1, <4>2, WorldOf
    <3>3. StraysOf(v) = StraysOf(c)
      BY <3>1 DEF StraysOf
    <3>. QED
      BY <1>1, <1>3, <2>2, <2>3, <3>1, <3>2, <3>3 DEF Accounted
  <2>6. CASE v = [w EXCEPT !.stopped = TRUE, !.faults = @ + 1, !.tails[w.job] = NoTail]
             /\ w.faults < MaxSlurmFaults
    <3>1. v.jobs = w.jobs /\ v.job = w.job /\ v.faults = w.faults + 1 /\ v.raised = w.raised
      BY <2>6 DEF Worlds
    <3>2. v \in Worlds
      <4>1. v = [jobs |-> w.jobs, job |-> w.job, logPath |-> w.logPath, tails |-> [w.tails EXCEPT ![w.job] = NoTail],
                   stopped |-> TRUE, faults |-> w.faults + 1, raised |-> w.raised]
        BY <2>6 DEF Worlds
      <4>2. /\ [w.tails EXCEPT ![w.job] = NoTail] \in [Jobs -> 0 .. MaxJobs + 1]
            /\ w.faults + 1 \in 0 .. MaxSlurmFaults
        BY <1>1, <2>1, <2>6 DEF NoTail
      <4>. QED
        BY <4>1, <4>2, WorldOf, <1>1
    <3>3. StraysOf(v) = StraysOf(w)
      BY <3>1 DEF StraysOf
    <3>. QED
      BY <1>1, <1>3, <3>1, <3>2, <3>3 DEF Accounted
  <2>. QED
    BY <1>3, <2>4, <2>5, <2>6 DEF Cancel, s
<1>. QED
  BY <1>2, <1>3

\* What a start, and a restart, leave: the child there is, or one that is heard, or
\* an error.
LEMMA StartGives ==
  ASSUME NEW w \in Worlds, ~w.raised, Accounted(w), NEW v \in SubmitUnless(w)
  PROVE  /\ v \in Worlds /\ Accounted(v) /\ w.faults <= v.faults
         /\ v.raised => v.job = w.job
         /\ v.raised \/ v = w \/ (~v.stopped /\ v.job # 0 /\ v.tails[v.job] # NoTail)
<1>1. CASE SeenRunning(w)
  BY <1>1 DEF SubmitUnless, Worlds
<1>2. CASE ~SeenRunning(w)
  <2>1. w.job = 0 \/ w.jobs[w.job] # "live"
    BY <1>2 DEF SeenRunning
  <2>2. v \in Submit(w)
    BY <1>2 DEF SubmitUnless
  <2>. QED
    BY <2>1, <2>2, SubmitGives
<1>. QED
  BY <1>1, <1>2

LEMMA RestartGives ==
  ASSUME NEW w \in Worlds, ~w.raised, Accounted(w), NEW v \in Resubmit(w)
  PROVE  /\ v \in Worlds /\ Accounted(v) /\ w.faults <= v.faults
         /\ v.raised \/ (~v.stopped /\ v.job # 0 /\ v.tails[v.job] # NoTail)
<1>. USE SlurmAssumption
<1>1. PICK c \in Cancel(w) : v \in SubmitUnless([c EXCEPT !.job = 0])
  BY DEF Resubmit
<1>2. /\ c \in Worlds /\ Accounted(c) /\ w.faults <= c.faults /\ c.job = w.job
      /\ ~c.raised
      /\ c.job = 0 \/ c.jobs[c.job] # "live" \/ Cardinality(StraysOf(c)) + 1 <= c.faults
  BY CancelGives
<1>. DEFINE u == [c EXCEPT !.job = 0]
<1>3. /\ u \in Worlds /\ u.jobs = c.jobs /\ u.job = 0 /\ u.faults = c.faults /\ ~u.raised
  BY <1>2 DEF Worlds
<1>. HIDE DEF u
<1>4. /\ c.faults \in Nat /\ w.faults \in Nat
      /\ IsFiniteSet(StraysOf(c)) /\ Cardinality(StraysOf(c)) \in Nat
      /\ IsFiniteSet(StraysOf(u)) /\ Cardinality(StraysOf(u)) \in Nat
  BY <1>2, StraysAreFinite DEF Worlds
<1>5. Accounted(u)
  <2>1. CASE c.job = 0 \/ c.jobs[c.job] # "live"
    <3>1. StraysOf(u) = StraysOf(c)
      BY <1>3, <2>1 DEF StraysOf, Jobs
    <3>. QED
      BY <1>2, <1>3, <3>1 DEF Accounted
  <2>2. CASE Cardinality(StraysOf(c)) + 1 <= c.faults
    <3>1. StraysOf(u) \subseteq StraysOf(c) \cup {c.job}
      BY <1>3 DEF StraysOf
    <3>2. Cardinality(StraysOf(c) \cup {c.job})
            = IF c.job \in StraysOf(c) THEN Cardinality(StraysOf(c))
              ELSE Cardinality(StraysOf(c)) + 1
      BY <1>4, FS_AddElement
    <3>3. Cardinality(StraysOf(u)) <= Cardinality(StraysOf(c) \cup {c.job})
      BY <1>4, <3>1, FS_AddElement, FS_Subset
    <3>. QED
      BY <1>3, <1>4, <2>2, <3>2, <3>3 DEF Accounted
  <2>. QED
    BY <1>2, <2>1, <2>2
<1>6. v \in Submit(u)
  BY <1>1, <1>3 DEF SubmitUnless, SeenRunning, u
<1>7. /\ v \in Worlds /\ Accounted(v) /\ u.faults <= v.faults
      /\ v.raised \/ (~v.stopped /\ v.job # 0 /\ v.tails[v.job] # NoTail)
  BY <1>3, <1>5, <1>6, SubmitGives
<1>8. v.faults \in Nat
  BY <1>7 DEF Worlds
<1>. QED
  BY <1>2, <1>3, <1>4, <1>7, <1>8

\* The supervisor as such a world, before a call and after it.
LEMMA SlurmIsAWorld ==
  ASSUME SlurmInv
  PROVE  /\ Slurm \in Worlds /\ ~Slurm.raised /\ Accounted(Slurm)
         /\ Slurm.faults = slurmFaults /\ Slurm.job = job /\ Slurm.stopped = stopped
         /\ Slurm.tails = tails
<1>1. /\ jobs \in [Jobs -> JobStates] /\ job \in 0 .. MaxJobs /\ logPath \in 0 .. MaxJobs
      /\ tails \in [Jobs -> 0 .. MaxJobs + 1] /\ stopped \in BOOLEAN
      /\ slurmFaults \in 0 .. MaxSlurmFaults
  BY DEF SlurmInv, SlurmTypeOK, JobStates
<1>2. StraysOf(Slurm) = Strays
  BY DEF StraysOf, Strays, Slurm
<1>3. Accounted(Slurm)
  BY <1>2 DEF SlurmInv, Accounted, Slurm
<1>. QED
  BY <1>1, <1>3, WorldOf DEF Slurm

LEMMA LeavesAWorld ==
  ASSUME NEW w \in Worlds, Accounted(w), SlurmLeaves(w), SlurmTypeOK, UNCHANGED logged,
         jobAt' \in {"start", "drain", "act", "over"},
         iterated' \in BOOLEAN, disturbed' \in BOOLEAN
  PROVE  /\ SlurmTypeOK' /\ Strays' = StraysOf(w) /\ Cardinality(Strays') <= slurmFaults'
         /\ slurmFaults' = w.faults
<1>1. /\ w.jobs \in [Jobs -> JobStates] /\ w.job \in 0 .. MaxJobs /\ w.logPath \in 0 .. MaxJobs
      /\ w.tails \in [Jobs -> 0 .. MaxJobs + 1] /\ w.stopped \in BOOLEAN
      /\ w.faults \in 0 .. MaxSlurmFaults
  BY DEF Worlds
<1>2. /\ jobs' = w.jobs /\ job' = w.job /\ logPath' = w.logPath /\ tails' = w.tails
      /\ stopped' = w.stopped /\ slurmFaults' = w.faults
  BY DEF SlurmLeaves
<1>3. SlurmTypeOK'
  BY <1>1, <1>2 DEF SlurmTypeOK, JobStates
<1>4. Strays' = StraysOf(w)
  BY <1>2 DEF Strays, StraysOf
<1>. QED
  BY <1>2, <1>3, <1>4 DEF Accounted

LEMMA SlurmCallsKeep ==
  ASSUME SlurmInv, SlurmStart \/ SlurmAct \/ SlurmShutdown
  PROVE  SlurmInv'
<1>. USE SlurmAssumption
<1>1. /\ SlurmTypeOK /\ iterated \in BOOLEAN /\ disturbed \in BOOLEAN /\ slurmFaults \in Nat
  BY DEF SlurmInv, SlurmTypeOK
<1>2. Slurm \in Worlds /\ ~Slurm.raised /\ Accounted(Slurm) /\ Slurm.faults = slurmFaults
      /\ Slurm.job = job
  BY SlurmIsAWorld
<1>3. CASE SlurmStart
  <2>1. PICK w \in SubmitUnless(Slurm) :
          SlurmLeaves(w) /\ jobAt' = IF w.raised THEN "over" ELSE "drain"
    BY <1>3 DEF SlurmStart
  <2>2. /\ w \in Worlds /\ Accounted(w)
        /\ w.raised => w.job = job
        /\ w.raised \/ w = Slurm \/ (~w.stopped /\ w.job # 0 /\ w.tails[w.job] # NoTail)
    BY <1>2, StartGives
  <2>3. jobAt = "start" /\ UNCHANGED <<logged, iterated, disturbed>> /\ job = 0
    BY <1>3 DEF SlurmStart, SlurmInv
  <2>4. /\ SlurmTypeOK' /\ Cardinality(Strays') <= slurmFaults' /\ slurmFaults' = w.faults
    BY <1>1, <2>1, <2>2, <2>3, LeavesAWorld
  <2>5. slurmFaults <= w.faults /\ w.faults \in Nat
    <3>1. slurmFaults <= w.faults
      BY <1>2, StartGives
    <3>. QED
      BY <2>2, <3>1 DEF Worlds
  <2>6. CASE w.raised
    <3>1. jobAt' = "over" /\ job' = 0
      BY <2>1, <2>2, <2>3, <2>6 DEF SlurmLeaves
    <3>. QED
      BY <2>4, <3>1 DEF SlurmInv
  <2>7. CASE ~w.raised
    <3>1. jobAt' = "drain" /\ stopped' = w.stopped /\ tails' = w.tails /\ job' = w.job
      BY <2>1, <2>7 DEF SlurmLeaves
    <3>2. ASSUME ~disturbed', slurmFaults' = 0
          PROVE  ~stopped' /\ ~iterated' /\ (job' # 0 => tails'[job'] # NoTail)
      <4>1. slurmFaults = 0 /\ ~disturbed
        BY <1>1, <2>3, <2>4, <2>5, <3>2
      <4>2. ~stopped /\ ~iterated
        BY <2>3, <4>1 DEF SlurmInv
      <4>3. Slurm.stopped = stopped /\ Slurm.job = 0
        BY <1>2, <2>3, SlurmIsAWorld
      <4>. QED
        BY <2>2, <2>3, <2>7, <3>1, <4>2, <4>3
    <3>. QED
      BY <2>4, <3>1, <3>2 DEF SlurmInv
  <2>. QED
    BY <2>6, <2>7
<1>4. CASE SlurmAct
  <2>1. jobAt = "act" /\ jobAt' = "drain" /\ UNCHANGED <<logged, iterated>>
    BY <1>4 DEF SlurmAct
  <2>2. CASE UNCHANGED <<jobs, job, logPath, tails, stopped, slurmFaults, disturbed>>
    <3>1. Strays' = Strays
      BY <2>2 DEF Strays
    <3>2. SlurmTypeOK'
      BY <1>1, <2>1, <2>2 DEF SlurmTypeOK
    <3>. QED
      BY <2>1, <2>2, <3>1, <3>2 DEF SlurmInv
  <2>3. ASSUME NEW w \in Resubmit(Slurm) \cup SubmitUnless(Slurm), SlurmLeaves(w),
               disturbed' = (disturbed \/ w.raised)
        PROVE  SlurmInv'
    <3>1. /\ w \in Worlds /\ Accounted(w) /\ slurmFaults <= w.faults
          /\ w.raised \/ w = Slurm \/ (~w.stopped /\ w.job # 0 /\ w.tails[w.job] # NoTail)
      <4>1. CASE w \in Resubmit(Slurm)
        BY <1>2, <4>1, RestartGives
      <4>2. CASE w \in SubmitUnless(Slurm)
        BY <1>2, <4>2, StartGives
      <4>. QED
        BY <2>3, <4>1, <4>2
    <3>2. disturbed' \in BOOLEAN
      BY <2>3
    <3>3. /\ SlurmTypeOK' /\ Cardinality(Strays') <= slurmFaults' /\ slurmFaults' = w.faults
      BY <1>1, <2>1, <2>3, <3>1, <3>2, LeavesAWorld
    <3>4. stopped' = w.stopped /\ tails' = w.tails /\ job' = w.job
      BY <2>3 DEF SlurmLeaves
    <3>5. ASSUME ~disturbed', slurmFaults' = 0
          PROVE  ~stopped' /\ ~iterated' /\ (job' # 0 => tails'[job'] # NoTail)
      <4>1. w.faults \in Nat
        BY <3>1 DEF Worlds
      <4>2. slurmFaults = 0 /\ ~disturbed /\ ~w.raised
        <5>1. slurmFaults = 0
          BY <1>1, <3>1, <3>3, <3>5, <4>1
        <5>2. ~disturbed /\ ~w.raised
          BY <2>3, <3>5
        <5>. QED
          BY <5>1, <5>2
      <4>3. ~stopped /\ ~iterated /\ (job # 0 => tails[job] # NoTail)
        BY <2>1, <4>2 DEF SlurmInv
      <4>4. Slurm.stopped = stopped /\ Slurm.job = job /\ Slurm.tails = tails
        BY SlurmIsAWorld
      <4>. QED
        BY <2>1, <3>1, <3>4, <4>2, <4>3, <4>4
    <3>. QED
      BY <2>1, <3>3, <3>5 DEF SlurmInv
  <2>4. ASSUME NEW w \in Cancel(Slurm), SlurmLeaves(w), disturbed'
        PROVE  SlurmInv'
    <3>1. w \in Worlds /\ Accounted(w)
      BY <1>2, CancelGives
    <3>2. SlurmTypeOK' /\ Cardinality(Strays') <= slurmFaults'
      <4>1. disturbed' \in BOOLEAN
        BY <1>4, <1>1 DEF SlurmAct
      <4>. QED
        BY <1>1, <2>1, <2>4, <3>1, <4>1, LeavesAWorld
    <3>. QED
      BY <2>1, <2>4, <3>2 DEF SlurmInv
  <2>. QED
    BY <1>4, <2>2, <2>3, <2>4 DEF SlurmAct
<1>5. CASE SlurmShutdown
  <2>1. PICK w \in Cancel(Slurm) : SlurmLeaves(w)
    BY <1>5 DEF SlurmShutdown
  <2>2. /\ w \in Worlds /\ Accounted(w)
        /\ w.job = 0 \/ w.jobs[w.job] # "live" \/ Cardinality(StraysOf(w)) + 1 <= w.faults
    BY <1>2, CancelGives
  <2>3. jobAt' = "over" /\ UNCHANGED <<logged, iterated, disturbed>>
    BY <1>5 DEF SlurmShutdown
  <2>4. /\ SlurmTypeOK' /\ Strays' = StraysOf(w) /\ Cardinality(Strays') <= slurmFaults'
        /\ slurmFaults' = w.faults
    BY <1>1, <2>1, <2>2, <2>3, LeavesAWorld
  <2>5. job' = w.job /\ jobs' = w.jobs
    BY <2>1 DEF SlurmLeaves
  <2>. QED
    BY <2>2, <2>3, <2>4, <2>5 DEF SlurmInv
<1>. QED
  BY <1>3, <1>4, <1>5

\* What SLURM, and the threads, do by themselves.
LEMMA SlurmWorldKeeps ==
  ASSUME SlurmInv, NEW j \in Jobs,
         JobLogs(j) \/ JobEnds(j) \/ TailOpens(j) \/ TailSeesStop(j)
  PROVE  SlurmInv'
<1>. USE SlurmAssumption
<1>1. CASE JobLogs(j)
  <2>1. Strays' = Strays
    BY <1>1 DEF JobLogs, Strays
  <2>2. SlurmTypeOK'
    BY <1>1 DEF JobLogs, SlurmInv, SlurmTypeOK
  <2>. QED
    BY <1>1, <2>1, <2>2 DEF JobLogs, SlurmInv
<1>2. CASE JobEnds(j)
  <2>1. UNCHANGED <<job, logPath, logged, tails, stopped, jobAt, iterated, disturbed, slurmFaults>>
    BY <1>2 DEF JobEnds
  <2>2. jobs \in [Jobs -> JobStates]
    BY DEF SlurmInv, SlurmTypeOK, JobStates
  <2>3. PICK s \in {"completed", "failed"} : jobs' = [jobs EXCEPT ![j] = s]
    BY <1>2 DEF JobEnds
  <2>4. SlurmTypeOK'
    <3>1. jobs' \in [Jobs -> JobStates]
      BY <2>2, <2>3 DEF JobStates
    <3>. QED
      BY <2>1, <3>1 DEF SlurmInv, SlurmTypeOK, JobStates
  <2>5. /\ Strays' \subseteq Strays
        /\ job # 0 /\ jobs'[job] = "live" => jobs[job] = "live"
    <3>1. \A i \in Jobs : jobs'[i] = "live" => jobs[i] = "live"
      BY <2>2, <2>3
    <3>2. job \in Jobs \cup {0}
      BY DEF SlurmInv, SlurmTypeOK, Jobs
    <3>. QED
      BY <2>1, <3>1, <3>2 DEF Strays
  <2>6. Cardinality(Strays') <= Cardinality(Strays) /\ Cardinality(Strays') \in Nat
        /\ Cardinality(Strays) \in Nat
    <3>1. IsFiniteSet(Jobs)
      BY FS_Interval DEF Jobs
    <3>2. IsFiniteSet(Strays)
      BY <3>1, FS_Subset DEF Strays
    <3>. QED
      BY <2>5, <3>2, FS_Subset, FS_CardinalityType
  <2>7. slurmFaults \in Nat
    BY DEF SlurmInv, SlurmTypeOK
  <2>. QED
    BY <2>1, <2>4, <2>5, <2>6, <2>7 DEF SlurmInv
<1>3. CASE TailOpens(j) \/ TailSeesStop(j)
  <2>1. UNCHANGED <<jobs, job, logPath, logged, stopped, jobAt, iterated, disturbed, slurmFaults>>
    BY <1>3 DEF TailOpens, TailSeesStop
  <2>2. PICK t \in 0 .. MaxJobs + 1 :
          tails' = [tails EXCEPT ![j] = t] /\ (t # NoTail \/ stopped)
    BY <1>3 DEF TailOpens, TailSeesStop, NoTail, SlurmInv, SlurmTypeOK, Jobs
  <2>3. tails \in [Jobs -> 0 .. MaxJobs + 1]
    BY DEF SlurmInv, SlurmTypeOK
  <2>4. tails' \in [Jobs -> 0 .. MaxJobs + 1]
    BY <2>2, <2>3
  <2>5. SlurmTypeOK'
    BY <2>1, <2>4 DEF SlurmInv, SlurmTypeOK
  <2>6. Strays' = Strays
    BY <2>1 DEF Strays
  <2>7. ~stopped /\ job # 0 /\ tails[job] # NoTail => tails'[job] # NoTail
    <3>1. job \in Jobs \cup {0}
      BY DEF SlurmInv, SlurmTypeOK, Jobs
    <3>. QED
      BY <2>2, <2>3, <3>1
  <2>. QED
    BY <2>1, <2>5, <2>6, <2>7 DEF SlurmInv
<1>. QED
  BY <1>1, <1>2, <1>3

LEMMA SlurmKeeps ==
  ASSUME SlurmInv, [SlurmNext]_slurmVars
  PROVE  SlurmInv'
<1>1. CASE UNCHANGED slurmVars
  <2>1. Strays' = Strays
    BY <1>1 DEF slurmVars, Strays
  <2>2. SlurmTypeOK'
    BY <1>1 DEF slurmVars, SlurmInv, SlurmTypeOK
  <2>. QED
    BY <1>1, <2>1, <2>2 DEF slurmVars, SlurmInv
<1>2. CASE SlurmDrain
  <2>1. Strays' = Strays
    BY <1>2 DEF SlurmDrain, Strays
  <2>2. SlurmTypeOK'
    BY <1>2 DEF SlurmDrain, SlurmInv, SlurmTypeOK
  <2>. QED
    BY <1>2, <2>1, <2>2 DEF SlurmDrain, SlurmInv
<1>. QED
  BY <1>1, <1>2, SlurmCallsKeep, SlurmWorldKeeps DEF SlurmNext

LEMMA JobsAreHeard == SlurmInv => JobIsHeard
  BY DEF SlurmInv, JobIsHeard

LEMMA JobsAreAccounted == SlurmInv => JobsAccounted
<1>. SUFFICES ASSUME SlurmInv PROVE JobsAccounted
  OBVIOUS
<1>. DEFINE live == {j \in Jobs : jobs[j] = "live"}
<1>1. IsFiniteSet(Jobs)
  BY SlurmAssumption, FS_Interval DEF Jobs
<1>2. /\ IsFiniteSet(Strays) /\ IsFiniteSet(live)
      /\ Cardinality(Strays) \in Nat /\ Cardinality(live) \in Nat /\ slurmFaults \in Nat
  <2>1. Strays \in SUBSET Jobs /\ live \in SUBSET Jobs
    BY DEF Strays
  <2>2. slurmFaults \in Nat
    BY SlurmAssumption DEF SlurmInv, SlurmTypeOK
  <2>. QED
    BY <1>1, <2>1, <2>2, FS_Subset, FS_CardinalityType
<1>3. Cardinality(Strays \cup {job})
        = IF job \in Strays THEN Cardinality(Strays) ELSE Cardinality(Strays) + 1
  BY <1>2, FS_AddElement
<1>4. Cardinality(live) <= Cardinality(Strays \cup {job})
  <2>1. live \subseteq Strays \cup {job}
    BY DEF Strays
  <2>. QED
    BY <1>2, <2>1, FS_AddElement, FS_Subset
<1>5. job = 0 \/ jobs[job] # "live" => live = Strays
  BY DEF Strays, Jobs
<1>6. CASE jobAt = "over"
  BY <1>2, <1>3, <1>4, <1>5, <1>6 DEF SlurmInv, JobsAccounted
<1>7. CASE jobAt # "over"
  BY <1>2, <1>3, <1>4, <1>7 DEF SlurmInv, JobsAccounted
<1>. QED
  BY <1>6, <1>7

\* What a world's docker logs and their readers are: readers are those of containers
\* that were run, and one that reads or closes has set _proc.
ReadersKnown(w) ==
  /\ w.box # "none" => w.boxes # 0
  /\ \A n \in Boxes : w.pumps[n] # "none" \/ w.proc = n => n <= w.boxes
  /\ \A n \in Boxes : w.pumps[n] \in {"reading", "closing"} => w.proc # 0

\* The newest container's reader will start, or reads what the container writes, or
\* another one has ended its docker logs.
HeardIn(w) ==
  \/ w.pumps[w.boxes] = "new"
  \/ w.pumps[w.boxes] = "reading" /\ w.follows[w.boxes] = w.boxes
  \/ w.cutOff

\* Until docker fails to answer or the child is paused, the event of the supervisor is
\* clear, and a container that runs is heard.
BoxInv ==
  /\ DockerTypeOK
  /\ ReadersKnown(World)
  /\ boxAt = "start" => box # "up" /\ ~quit /\ ~detached /\ ~interfered
  /\ boxAt \in {"drain", "tick", "status", "again", "alive", "watch"} /\ ~interfered /\ blips = 0 =>
       /\ ~quit /\ ~detached
       /\ box = "up" => HeardIn(World)

ReaderStates == {"none", "new", "reading", "closing"}
AllBoxWorlds == [box : {"none", "up", "dead"}, boxes : 0 .. MaxBoxes,
                 pumps : [Boxes -> ReaderStates], follows : [Boxes -> 0 .. MaxBoxes],
                 proc : 0 .. MaxBoxes, cutOff : BOOLEAN,
                 quit : BOOLEAN, blips : 0 .. MaxBlips, raised : BOOLEAN]
BoxWorlds == {w \in AllBoxWorlds : ReadersKnown(w)}

\* What there is of the variables, as a predicate that a step that touches none keeps.
LEMMA WorldFields ==
  /\ World.box = box /\ World.boxes = boxes /\ World.pumps = pumps /\ World.follows = follows
  /\ World.proc = proc /\ World.cutOff = cutOff /\ World.quit = quit /\ World.blips = blips
  /\ ~World.raised
  BY DEF World

LEMMA BoxWorldOf ==
  ASSUME NEW b \in {"none", "up", "dead"}, NEW n \in 0 .. MaxBoxes,
         NEW p \in [Boxes -> ReaderStates], NEW f \in [Boxes -> 0 .. MaxBoxes],
         NEW h \in 0 .. MaxBoxes, NEW c \in BOOLEAN,
         NEW q \in BOOLEAN, NEW l \in 0 .. MaxBlips, NEW r \in BOOLEAN,
         b # "none" => n # 0,
         \A m \in Boxes : p[m] # "none" \/ h = m => m <= n,
         \A m \in Boxes : p[m] \in {"reading", "closing"} => h # 0
  PROVE  [box |-> b, boxes |-> n, pumps |-> p, follows |-> f, proc |-> h, cutOff |-> c,
          quit |-> q, blips |-> l, raised |-> r] \in BoxWorlds
<1>. DEFINE w == [box |-> b, boxes |-> n, pumps |-> p, follows |-> f, proc |-> h, cutOff |-> c,
                  quit |-> q, blips |-> l, raised |-> r]
<1>1. w \in AllBoxWorlds
  BY DEF AllBoxWorlds
<1>2. ReadersKnown(w)
  BY DEF ReadersKnown
<1>. QED
  BY <1>1, <1>2 DEF BoxWorlds

LEMMA BoxWorldHas ==
  ASSUME NEW w \in BoxWorlds
  PROVE  /\ w.box \in {"none", "up", "dead"} /\ w.boxes \in 0 .. MaxBoxes
         /\ w.pumps \in [Boxes -> ReaderStates] /\ w.follows \in [Boxes -> 0 .. MaxBoxes]
         /\ w.proc \in 0 .. MaxBoxes /\ w.cutOff \in BOOLEAN
         /\ w.quit \in BOOLEAN /\ w.blips \in 0 .. MaxBlips /\ w.raised \in BOOLEAN
         /\ w.box # "none" => w.boxes # 0
         /\ \A m \in Boxes : w.pumps[m] # "none" \/ w.proc = m => m <= w.boxes
         /\ \A m \in Boxes : w.pumps[m] \in {"reading", "closing"} => w.proc # 0
  BY DEF BoxWorlds, AllBoxWorlds, ReadersKnown

\* A world that keeps its readers is one with another container, event and count.
LEMMA BoxWorldStays ==
  ASSUME NEW w \in BoxWorlds, NEW b \in {"none", "up", "dead"}, NEW q \in BOOLEAN,
         NEW l \in 0 .. MaxBlips, NEW r \in BOOLEAN, b # "none" => w.boxes # 0
  PROVE  [box |-> b, boxes |-> w.boxes, pumps |-> w.pumps, follows |-> w.follows,
          proc |-> w.proc, cutOff |-> w.cutOff, quit |-> q, blips |-> l,
          raised |-> r] \in BoxWorlds
<1>. DEFINE n == w.boxes
            p == w.pumps
            f == w.follows
            h == w.proc
            c == w.cutOff
<1>1. /\ n \in 0 .. MaxBoxes /\ p \in [Boxes -> ReaderStates] /\ f \in [Boxes -> 0 .. MaxBoxes]
      /\ h \in 0 .. MaxBoxes /\ c \in BOOLEAN
      /\ \A m \in Boxes : p[m] # "none" \/ h = m => m <= n
      /\ \A m \in Boxes : p[m] \in {"reading", "closing"} => h # 0
      /\ b # "none" => n # 0
  BY BoxWorldHas
<1>. HIDE DEF n, p, f, h, c
<1>2. [box |-> b, boxes |-> n, pumps |-> p, follows |-> f, proc |-> h, cutOff |-> c,
       quit |-> q, blips |-> l, raised |-> r] \in BoxWorlds
  BY <1>1, BoxWorldOf
<1>. QED
  BY <1>2 DEF n, p, f, h, c

\* A change of some fields, field by field.
LEMMA BoxWorldIs ==
  ASSUME NEW w \in BoxWorlds
  PROVE  w \in AllBoxWorlds
  BY DEF BoxWorlds

LEMMA BoxInitially == DockerInit => BoxInv
<1>. SUFFICES ASSUME DockerInit PROVE BoxInv
  OBVIOUS
<1>1. /\ quit \in BOOLEAN /\ detached \in BOOLEAN /\ interfered \in BOOLEAN /\ exitHandled \in BOOLEAN
      /\ ~quit /\ ~detached /\ ~interfered /\ cutOff \in BOOLEAN
  BY DEF DockerInit
<1>2. /\ box = "none" /\ boxes = 0 /\ boxAt = "start" /\ deadSince = "alive" /\ proc = 0
      /\ blips = 0 /\ 0 \in 0 .. MaxBoxes /\ 0 \in 0 .. MaxBlips
  BY DockerAssumption DEF DockerInit
<1>3. /\ pumps \in [Boxes -> ReaderStates] /\ follows \in [Boxes -> 0 .. MaxBoxes]
      /\ \A n \in Boxes : pumps[n] = "none" /\ n # 0
  BY <1>2, DockerAssumption DEF DockerInit, ReaderStates, Boxes
<1>4. DockerTypeOK
  BY <1>1, <1>2, <1>3 DEF DockerTypeOK, ReaderStates
<1>5. ReadersKnown(World)
  BY <1>2, <1>3, WorldFields DEF ReadersKnown
<1>. QED
  BY <1>1, <1>2, <1>4, <1>5 DEF BoxInv

\* A container that runs is seen alive, or docker has not answered.
LEMMA BoxInspectGives ==
  ASSUME NEW w \in BoxWorlds, NEW i \in InspectOf(w)
  PROVE  /\ i.blips \in 0 .. MaxBlips /\ w.blips <= i.blips
         /\ ~i.up => w.box # "up" \/ i.blips > 0
         /\ i.up => w.box = "up"
<1>1. w.blips \in 0 .. MaxBlips
  BY BoxWorldHas
<1>2. CASE i = [up |-> w.box = "up", blips |-> w.blips]
  <2>1. i.blips = w.blips
    BY <1>2
  <2>2. i.up = (w.box = "up")
    BY <1>2
  <2>3. w.blips <= w.blips
    BY <1>1, DockerAssumption
  <2>. QED
    BY <1>1, <2>1, <2>2, <2>3
<1>3. CASE i = [up |-> FALSE, blips |-> w.blips + 1] /\ w.box = "up" /\ w.blips < MaxBlips
  <2>1. i.blips = w.blips + 1
    BY <1>3
  <2>2. ~i.up
    BY <1>3
  <2>. QED
    BY <1>1, <1>3, <2>1, <2>2, DockerAssumption
<1>. QED
  BY <1>2, <1>3 DEF InspectOf

\* start() takes docker logs for the child, or raises, or runs a container that is heard.
LEMMA BoxStartGives ==
  ASSUME NEW w \in BoxWorlds, NEW v \in StartFrom(w)
  PROVE  /\ v \in BoxWorlds /\ v.blips = w.blips
         /\ \/ v = w
            \/ v.raised /\ v.box = w.box /\ v.quit = w.quit /\ (HeardIn(w) => HeardIn(v))
            \/ v.box = "up" /\ HeardIn(v) /\ ~v.quit /\ v.raised = w.raised
<1>1. CASE v = w
  BY <1>1
<1>2. CASE v = [w EXCEPT !.raised = TRUE]
  <2>1. v = [box |-> w.box, boxes |-> w.boxes, pumps |-> w.pumps, follows |-> w.follows,
             proc |-> w.proc, cutOff |-> w.cutOff, quit |-> w.quit, blips |-> w.blips,
             raised |-> TRUE]
    BY <1>2, BoxWorldIs DEF AllBoxWorlds
  <2>0. /\ w.box \in {"none", "up", "dead"} /\ (w.box # "none" => w.boxes # 0)
        /\ w.quit \in BOOLEAN /\ w.blips \in 0 .. MaxBlips /\ TRUE \in BOOLEAN
    BY BoxWorldHas
  <2>2. v \in BoxWorlds
    BY <2>0, <2>1, BoxWorldStays
  <2>3. /\ v.raised /\ v.box = w.box /\ v.quit = w.quit /\ v.blips = w.blips
        /\ v.pumps = w.pumps /\ v.follows = w.follows /\ v.boxes = w.boxes /\ v.cutOff = w.cutOff
    BY <2>1
  <2>. QED
    BY <2>2, <2>3 DEF HeardIn
<1>3. CASE v = [RunBox(w) EXCEPT !.quit = FALSE] /\ w.boxes # MaxBoxes
  <2>. DEFINE n == w.boxes + 1
              p == [w.pumps EXCEPT ![n] = "new"]
  <2>1. v = [box |-> "up", boxes |-> n, pumps |-> p, follows |-> w.follows,
             proc |-> w.proc, cutOff |-> FALSE, quit |-> FALSE, blips |-> w.blips,
             raised |-> w.raised]
    BY <1>3, BoxWorldIs DEF RunBox, AllBoxWorlds
  <2>2. /\ n \in 0 .. MaxBoxes /\ n \in Boxes /\ n # 0
        /\ p \in [Boxes -> ReaderStates] /\ p[n] = "new"
        /\ \A m \in Boxes : m # n => p[m] = w.pumps[m]
    BY <1>3, BoxWorldHas, DockerAssumption DEF Boxes, ReaderStates
  <2>3. \A m \in Boxes : p[m] # "none" \/ w.proc = m => m <= n
    <3>. SUFFICES ASSUME NEW m \in Boxes, m # n, w.pumps[m] # "none" \/ w.proc = m
                  PROVE  m <= n
      BY <2>2 DEF Boxes
    <3>1. m <= w.boxes
      BY BoxWorldHas
    <3>. QED
      BY <3>1, BoxWorldHas, DockerAssumption DEF Boxes
  <2>4. \A m \in Boxes : p[m] \in {"reading", "closing"} => w.proc # 0
    BY <2>2, BoxWorldHas
  <2>. HIDE DEF n, p
  <2>5. v \in BoxWorlds
    BY <2>1, <2>2, <2>3, <2>4, BoxWorldOf, BoxWorldHas
  <2>6. /\ v.box = "up" /\ v.pumps[v.boxes] = "new" /\ ~v.quit /\ v.raised = w.raised
        /\ v.blips = w.blips
    BY <2>1, <2>2
  <2>. QED
    BY <2>5, <2>6 DEF HeardIn
<1>. QED
  BY <1>1, <1>2, <1>3 DEF StartFrom

\* The reader that is waited for leaves a world behind.
LEMMA BoxJoined ==
  ASSUME NEW w \in BoxWorlds, w.box = "up", NEW v, v = [Joined(w) EXCEPT !.box = "none", !.quit = TRUE]
  PROVE  v \in BoxWorlds /\ v.box = "none" /\ v.blips = w.blips /\ v.raised = w.raised
<1>. DEFINE n    == w.boxes
            last == IF w.pumps[n] = "new" THEN n ELSE w.proc
            ends == IF w.pumps[n] = "none" THEN {} ELSE {n, last}
            p    == [w.pumps EXCEPT ![n] = "none"]
            f    == [m \in Boxes |-> IF m \in ends THEN 0 ELSE w.follows[m]]
<1>1. v = [box |-> "none", boxes |-> n, pumps |-> p, follows |-> f, proc |-> last,
           cutOff |-> w.cutOff, quit |-> TRUE, blips |-> w.blips, raised |-> w.raised]
  BY BoxWorldIs DEF Joined, AllBoxWorlds
<1>2. n \in Boxes /\ n \in 0 .. MaxBoxes /\ n <= n
  BY BoxWorldHas, DockerAssumption DEF Boxes
<1>3. p \in [Boxes -> ReaderStates] /\ \A m \in Boxes : p[m] \in {"none", w.pumps[m]}
  BY BoxWorldHas, <1>2 DEF ReaderStates
<1>4. f \in [Boxes -> 0 .. MaxBoxes]
  BY BoxWorldHas, DockerAssumption
<1>5. last \in 0 .. MaxBoxes /\ (w.proc # 0 => last # 0) /\ last \in {n, w.proc}
  BY BoxWorldHas, <1>2 DEF Boxes
<1>6. /\ \A m \in Boxes : p[m] # "none" \/ last = m => m <= n
      /\ \A m \in Boxes : p[m] \in {"reading", "closing"} => last # 0
  BY BoxWorldHas, <1>2, <1>3, <1>5
<1>. HIDE DEF n, last, ends, p, f
<1>7. v \in BoxWorlds
  <2>1. /\ w.cutOff \in BOOLEAN /\ w.blips \in 0 .. MaxBlips /\ w.raised \in BOOLEAN
        /\ TRUE \in BOOLEAN /\ "none" \in {"none", "up", "dead"}
    BY BoxWorldHas
  <2>. QED
    BY ONLY <1>1, <1>2, <1>3, <1>4, <1>5, <1>6, <2>1, BoxWorldOf
<1>. QED
  BY ONLY <1>1, <1>7

\* stop() leaves nothing that runs, or something has failed.
LEMMA BoxStopGives ==
  ASSUME NEW w \in BoxWorlds, NEW v \in StopFrom(w)
  PROVE  /\ v \in BoxWorlds /\ w.blips <= v.blips /\ v.raised = w.raised
         /\ v.blips = 0 => v.box # "up"
<1>. USE DockerAssumption
<1>1. PICK i \in InspectOf(w) :
        v \in IF ~i.up THEN {[w EXCEPT !.quit = TRUE, !.blips = i.blips]}
         ELSE {[Joined(w) EXCEPT !.box = "none", !.quit = TRUE]}
              \cup {[w EXCEPT !.box = b, !.quit = TRUE, !.blips = @ + 1] :
                      b \in IF w.blips = MaxBlips THEN {}
                            ELSE IF autoRemove THEN {"up", "none"} ELSE {"up", "dead", "none"}}
  BY DEF StopFrom
<1>2. /\ i.blips \in 0 .. MaxBlips /\ w.blips <= i.blips
      /\ ~i.up => w.box # "up" \/ i.blips > 0
      /\ i.up => w.box = "up"
      /\ w.blips \in 0 .. MaxBlips
  BY BoxInspectGives, BoxWorldHas
<1>3. CASE v = [w EXCEPT !.quit = TRUE, !.blips = i.blips] /\ ~i.up
  <2>1. v = [box |-> w.box, boxes |-> w.boxes, pumps |-> w.pumps, follows |-> w.follows,
             proc |-> w.proc, cutOff |-> w.cutOff, quit |-> TRUE, blips |-> i.blips,
             raised |-> w.raised]
    BY <1>3, BoxWorldIs DEF AllBoxWorlds
  <2>0. /\ w.box \in {"none", "up", "dead"} /\ (w.box # "none" => w.boxes # 0)
        /\ w.raised \in BOOLEAN /\ TRUE \in BOOLEAN
    BY BoxWorldHas
  <2>2. v \in BoxWorlds
    BY <1>2, <2>0, <2>1, BoxWorldStays
  <2>3. v.blips = i.blips /\ v.raised = w.raised /\ v.box = w.box
    BY <2>1
  <2>. QED
    BY <1>2, <1>3, <2>2, <2>3
<1>4. CASE v = [Joined(w) EXCEPT !.box = "none", !.quit = TRUE] /\ i.up
  <2>1. v \in BoxWorlds /\ v.box = "none" /\ v.blips = w.blips /\ v.raised = w.raised
    BY <1>2, <1>4, BoxJoined
  <2>. QED
    BY <1>2, <2>1
<1>5. ASSUME NEW b \in {"up", "dead", "none"}, i.up, w.blips # MaxBlips,
             v = [w EXCEPT !.box = b, !.quit = TRUE, !.blips = @ + 1]
      PROVE  v \in BoxWorlds /\ v.blips = w.blips + 1 /\ v.raised = w.raised
  <2>1. v = [box |-> b, boxes |-> w.boxes, pumps |-> w.pumps, follows |-> w.follows,
             proc |-> w.proc, cutOff |-> w.cutOff, quit |-> TRUE, blips |-> w.blips + 1,
             raised |-> w.raised]
    BY <1>5, BoxWorldIs DEF AllBoxWorlds
  <2>2. w.blips + 1 \in 0 .. MaxBlips /\ w.boxes # 0
    BY <1>2, <1>5, BoxWorldHas
  <2>0. w.raised \in BOOLEAN /\ TRUE \in BOOLEAN
    BY BoxWorldHas
  <2>3. v \in BoxWorlds
    BY <2>0, <2>1, <2>2, BoxWorldStays
  <2>. QED
    BY <2>1, <2>3
<1>6. CASE v \in BoxWorlds /\ v.blips = w.blips + 1 /\ v.raised = w.raised
  BY <1>2, <1>6
<1>. QED
  <2>1. CASE ~i.up
    BY <1>1, <1>3, <2>1
  <2>2. CASE i.up
    <3>1. CASE v = [Joined(w) EXCEPT !.box = "none", !.quit = TRUE]
      BY <1>4, <2>2, <3>1
    <3>2. CASE v # [Joined(w) EXCEPT !.box = "none", !.quit = TRUE]
      <4>1. PICK b \in {"up", "dead", "none"} :
              w.blips # MaxBlips /\ v = [w EXCEPT !.box = b, !.quit = TRUE, !.blips = @ + 1]
        BY <1>1, <2>2, <3>2
      <4>. QED
        BY <1>5, <1>6, <2>2, <4>1
    <3>. QED
      BY <3>1, <3>2
  <2>. QED
    BY <2>1, <2>2

LEMMA BoxIsAWorld ==
  ASSUME BoxInv
  PROVE  World \in BoxWorlds
  BY BoxWorldOf DEF World, BoxInv, DockerTypeOK, ReadersKnown, ReaderStates

\* A call that leaves a world, and where the loop goes on.
LEMMA BoxLeavesAWorld ==
  ASSUME BoxInv, NEW w \in BoxWorlds, BoxBecomes(w),
         boxAt' \in {"drain", "tick", "status", "again", "alive", "watch", "stopping", "over"},
         exitHandled' \in BOOLEAN, deadSince' \in {"alive", "dead", "past"},
         detached' \in BOOLEAN, interfered' \in BOOLEAN,
         boxAt' \notin {"stopping", "over"} /\ ~interfered' /\ w.blips = 0 =>
           ~w.quit /\ ~detached' /\ (w.box = "up" => HeardIn(w))
  PROVE  BoxInv'
<1>1. /\ box' = w.box /\ boxes' = w.boxes /\ quit' = w.quit /\ blips' = w.blips
      /\ pumps' = w.pumps /\ follows' = w.follows /\ proc' = w.proc /\ cutOff' = w.cutOff
  BY DEF BoxBecomes
<1>2. DockerTypeOK'
  BY <1>1, BoxWorldHas DEF DockerTypeOK, ReaderStates
<1>3. ReadersKnown(World)'
  BY <1>1, BoxWorldHas DEF ReadersKnown, World
<1>4. HeardIn(w) <=> HeardIn(World)'
  BY <1>1 DEF HeardIn, World
<1>. QED
  BY <1>1, <1>2, <1>3, <1>4 DEF BoxInv

\* A step of a reader: who is known stays known, and who is heard stays heard, unless
\* the docker logs in _proc is the newest container's and another's reader ends it.
LEMMA BoxReadersKeep ==
  ASSUME BoxInv, BoxReader
  PROVE  BoxInv'
<1>. USE DockerAssumption
<1>1. /\ pumps \in [Boxes -> ReaderStates] /\ follows \in [Boxes -> 0 .. MaxBoxes]
      /\ proc \in 0 .. MaxBoxes /\ boxes \in 0 .. MaxBoxes /\ cutOff \in BOOLEAN
      /\ box # "none" => boxes # 0
      /\ \A m \in Boxes : pumps[m] # "none" \/ proc = m => m <= boxes
      /\ \A m \in Boxes : pumps[m] \in {"reading", "closing"} => proc # 0
  BY WorldFields DEF BoxInv, DockerTypeOK, ReadersKnown, ReaderStates
<1>2. PICK n \in Boxes : LogsStart(n) \/ LogsEnd(n) \/ StreamEnds(n) \/ ReaderCloses(n)
  BY DEF BoxReader
<1>3. n # 0 /\ n \in 0 .. MaxBoxes
  BY DEF Boxes
<1>4. UNCHANGED monitorOfBox
  BY <1>2 DEF LogsStart, LogsEnd, StreamEnds, ReaderCloses
<1>5. /\ pumps' \in [Boxes -> ReaderStates] /\ follows' \in [Boxes -> 0 .. MaxBoxes]
      /\ proc' \in 0 .. MaxBoxes /\ cutOff' \in BOOLEAN
      /\ \A m \in Boxes : pumps'[m] # "none" \/ proc' = m => m <= boxes
      /\ \A m \in Boxes : pumps'[m] \in {"reading", "closing"} => proc' # 0
  <2>1. CASE LogsStart(n)
    BY <1>1, <1>3, <2>1 DEF LogsStart, ReaderStates
  <2>2. CASE LogsEnd(n)
    BY <1>1, <1>3, <2>2 DEF LogsEnd, ReaderStates
  <2>3. CASE StreamEnds(n)
    BY <1>1, <1>3, <2>3 DEF StreamEnds, ReaderStates
  <2>4. CASE ReaderCloses(n)
    <3>1. /\ pumps' = [pumps EXCEPT ![n] = "none"] /\ proc' = proc /\ pumps[n] = "closing"
          /\ follows' = [follows EXCEPT ![proc] = 0]
          /\ cutOff' = (cutOff \/ (proc # n /\ proc = boxes /\ follows[proc] # 0))
      BY <2>4 DEF ReaderCloses
    <3>2. pumps' \in [Boxes -> ReaderStates] /\ \A m \in Boxes : pumps'[m] \in {"none", pumps[m]}
      BY <1>1, <3>1 DEF ReaderStates
    <3>3. follows' \in [Boxes -> 0 .. MaxBoxes]
      <4>1. 0 \in 0 .. MaxBoxes
        OBVIOUS
      <4>. QED
        BY ONLY <1>1, <3>1, <4>1
    <3>4. cutOff' \in BOOLEAN
      BY <1>1, <3>1
    <3>. QED
      BY <1>1, <3>1, <3>2, <3>3, <3>4
  <2>. QED
    BY <1>2, <2>1, <2>2, <2>3, <2>4
<1>6. DockerTypeOK' /\ ReadersKnown(World)'
  BY <1>1, <1>4, <1>5 DEF BoxInv, DockerTypeOK, monitorOfBox, worldOfBox, ReadersKnown, World, ReaderStates
<1>7. ASSUME ~quit, box = "up", HeardIn(World)
      PROVE  HeardIn(World)'
  <2>1. /\ boxes' = boxes /\ boxes \in Boxes /\ boxes # 0
        /\ \/ pumps[boxes] = "new" \/ cutOff
           \/ pumps[boxes] = "reading" /\ follows[boxes] = boxes
    BY <1>1, <1>4, <1>7, WorldFields DEF HeardIn, Boxes, monitorOfBox
  <2>2. \/ pumps'[boxes] = "new" \/ cutOff'
        \/ pumps'[boxes] = "reading" /\ follows'[boxes] = boxes
    <3>1. CASE LogsStart(n)
      BY <1>1, <1>7, <2>1, <3>1 DEF LogsStart
    <3>2. CASE LogsEnd(n)
      BY <1>1, <1>7, <2>1, <3>2 DEF LogsEnd
    <3>3. CASE StreamEnds(n)
      BY <1>1, <1>7, <2>1, <3>3 DEF StreamEnds
    <3>4. CASE ReaderCloses(n)
      BY <1>1, <1>7, <2>1, <3>4 DEF ReaderCloses
    <3>. QED
      BY <1>2, <3>1, <3>2, <3>3, <3>4
  <2>. QED
    BY <2>1, <2>2 DEF HeardIn, World
<1>. QED
  BY <1>4, <1>6, <1>7 DEF BoxInv, monitorOfBox

LEMMA BoxClocksKeep ==
  ASSUME BoxInv, BoxDies \/ BoxGraceEnds \/ BoxSignal
  PROVE  BoxInv'
<1>. USE DockerAssumption DEF BoxInv, DockerTypeOK, ReadersKnown, HeardIn, World
<1>1. CASE BoxDies
  BY <1>1 DEF BoxDies, readerVars
<1>2. CASE BoxGraceEnds
  BY <1>2 DEF BoxGraceEnds, readerVars
<1>3. CASE BoxSignal
  BY <1>3 DEF BoxSignal, readerVars
<1>. QED
  BY <1>1, <1>2, <1>3

LEMMA BoxCallsKeep ==
  ASSUME BoxInv, BoxStart \/ BoxTick \/ BoxShutdown
  PROVE  BoxInv'
<1>1. /\ World \in BoxWorlds /\ ~World.raised /\ World.box = box
      /\ World.quit = quit /\ World.blips = blips
  BY BoxIsAWorld, WorldFields
<1>2. /\ exitHandled \in BOOLEAN /\ deadSince \in {"alive", "dead", "past"}
      /\ detached \in BOOLEAN /\ interfered \in BOOLEAN /\ blips \in Nat
  BY DockerAssumption DEF BoxInv, DockerTypeOK
<1>3. CASE BoxStart
  <2>1. PICK w \in StartFrom(World) :
          BoxBecomes(w) /\ boxAt' = IF w.raised THEN "over" ELSE "drain"
    BY <1>3 DEF BoxStart
  <2>2. /\ boxAt = "start" /\ UNCHANGED <<exitHandled, deadSince, detached, interfered>>
        /\ box # "up" /\ ~quit /\ ~detached
    BY <1>3 DEF BoxStart, BoxInv
  <2>3. /\ w \in BoxWorlds
        /\ w.raised \/ w = World \/ (w.box = "up" /\ HeardIn(w) /\ ~w.quit)
    BY <1>1, <2>1, BoxStartGives
  <2>4. CASE w.raised
    <3>1. boxAt' = "over"
      BY <2>1, <2>4
    <3>. QED
      BY <1>2, <2>1, <2>2, <2>3, <3>1, BoxLeavesAWorld
  <2>5. CASE ~w.raised
    <3>1. boxAt' = "drain"
      BY <2>1, <2>5
    <3>2. ~w.quit /\ ~detached' /\ (w.box = "up" => HeardIn(w))
      BY <1>1, <2>2, <2>3, <2>5
    <3>. QED
      BY <1>2, <2>1, <2>2, <2>3, <3>1, <3>2, BoxLeavesAWorld
  <2>. QED
    BY <2>4, <2>5
<1>4. CASE BoxTick
  <2>1. /\ boxAt = "tick" /\ boxAt' = "status"
        /\ UNCHANGED <<exitHandled, deadSince, detached>>
    BY <1>4 DEF BoxTick
  <2>2. ~interfered /\ blips = 0 => ~quit /\ ~detached /\ (box = "up" => HeardIn(World))
    BY <2>1 DEF BoxInv
  <2>3. CASE UNCHANGED <<box, boxes, readerVars, quit, blips, interfered>>
    BY <2>1, <2>3 DEF BoxInv, DockerTypeOK, ReadersKnown, HeardIn, World, readerVars
  <2>4. ASSUME NEW w \in RestartFrom(World) \cup StartFrom(World), BoxBecomes(w),
               interfered' = (interfered \/ w.box # "up")
        PROVE  BoxInv'
    <3>1. interfered' \in BOOLEAN /\ (~interfered' => ~interfered /\ w.box = "up")
      BY <2>4
    <3>2. /\ w \in BoxWorlds /\ blips <= w.blips
          /\ w.blips = 0 /\ w.box = "up" =>
               \/ w.quit = quit /\ box = "up" /\ (HeardIn(World) => HeardIn(w))
               \/ ~w.quit /\ HeardIn(w)
      <4>1. CASE w \in StartFrom(World)
        <5>1. /\ w \in BoxWorlds /\ w.blips = blips
              /\ \/ w.quit = quit /\ w.box = box /\ (HeardIn(World) => HeardIn(w))
                 \/ ~w.quit /\ HeardIn(w)
          BY <1>1, <4>1, BoxStartGives
        <5>. QED
          BY <1>2, <5>1
      <4>2. CASE w \in RestartFrom(World)
        <5>1. PICK u \in StopFrom(World) : w \in StartFrom(u)
          BY <4>2 DEF RestartFrom
        <5>2. /\ u \in BoxWorlds /\ blips <= u.blips
              /\ u.blips = 0 => u.box # "up"
          BY <1>1, BoxStopGives
        <5>3. /\ w \in BoxWorlds /\ w.blips = u.blips
              /\ \/ w.box = u.box
                 \/ ~w.quit /\ HeardIn(w)
          BY <5>1, <5>2, BoxStartGives
        <5>. QED
          BY <5>2, <5>3
      <4>. QED
        BY <2>4, <4>1, <4>2
    <3>3. w.blips \in Nat
      BY <3>2, BoxWorldHas, DockerAssumption
    <3>4. ~interfered' /\ w.blips = 0 =>
            ~w.quit /\ ~detached' /\ (w.box = "up" => HeardIn(w))
      <4>1. ASSUME ~interfered', w.blips = 0
            PROVE  ~w.quit /\ ~detached' /\ (w.box = "up" => HeardIn(w))
        <5>1. blips = 0 /\ ~interfered /\ w.box = "up"
          BY <1>2, <3>1, <3>2, <3>3, <4>1
        <5>. QED
          BY <2>1, <2>2, <3>2, <4>1, <5>1
      <4>. QED
        BY <4>1
    <3>. QED
      BY <1>2, <2>1, <2>4, <3>1, <3>2, <3>4, BoxLeavesAWorld
  <2>5. ASSUME NEW w \in StopFrom(World), BoxBecomes(w), interfered' = TRUE
        PROVE  BoxInv'
    <3>1. w \in BoxWorlds
      BY <1>1, BoxStopGives
    <3>2. interfered' \in BOOLEAN /\ interfered'
      BY <2>5
    <3>. QED
      BY <1>2, <2>1, <2>5, <3>1, <3>2, BoxLeavesAWorld
  <2>. QED
    BY <1>4, <2>3, <2>4, <2>5 DEF BoxTick
<1>5. CASE BoxShutdown
  <2>1. PICK w \in StopFrom(World) : BoxBecomes(w)
    BY <1>5 DEF BoxShutdown
  <2>2. boxAt' = "over" /\ UNCHANGED <<exitHandled, deadSince, detached, interfered>>
    BY <1>5 DEF BoxShutdown
  <2>3. w \in BoxWorlds
    BY <1>1, BoxStopGives
  <2>. QED
    BY <1>2, <2>1, <2>2, <2>3, BoxLeavesAWorld
<1>. QED
  BY <1>3, <1>4, <1>5

\* What the loop does with an answer of docker inspect.
LEMMA BoxLooksKeep ==
  ASSUME BoxInv, BoxDrain \/ BoxStatus \/ BoxAgain \/ BoxAlive \/ BoxWatch
  PROVE  BoxInv'
<1>. USE DockerAssumption
<1>1. /\ World \in BoxWorlds /\ ~World.raised /\ World.box = box /\ World.boxes = boxes
      /\ World.quit = quit /\ World.blips = blips
  BY BoxIsAWorld, WorldFields
<1>2. /\ exitHandled \in BOOLEAN /\ deadSince \in {"alive", "dead", "past"}
      /\ detached \in BOOLEAN /\ interfered \in BOOLEAN /\ blips \in 0 .. MaxBlips
      /\ quit \in BOOLEAN
  BY DEF BoxInv, DockerTypeOK
\* The children and the readers are left alone.
<1>0. ASSUME UNCHANGED <<box, boxes, readerVars, quit>>, blips' \in 0 .. MaxBlips, blips <= blips',
             UNCHANGED interfered, detached' \in BOOLEAN, exitHandled' \in BOOLEAN,
             deadSince' \in {"alive", "dead", "past"}, ~quit /\ ~detached => ~detached',
             boxAt \in {"drain", "tick", "status", "again", "alive", "watch"},
             boxAt' \in {"drain", "tick", "status", "again", "alive", "watch", "stopping", "over"}
      PROVE  BoxInv'
  <2>1. /\ DockerTypeOK' /\ ReadersKnown(World)'
        /\ box' = box /\ quit' = quit /\ (HeardIn(World)' <=> HeardIn(World))
    BY <1>0, <1>2 DEF BoxInv, DockerTypeOK, ReadersKnown, HeardIn, World, readerVars
  <2>2. blips' = 0 => blips = 0
    BY <1>0, <1>2
  <2>. QED
    BY <1>0, <2>1, <2>2 DEF BoxInv
<1>3. CASE BoxDrain
  BY <1>0, <1>2, <1>3 DEF BoxDrain
<1>4. CASE BoxAlive
  BY <1>0, <1>2, <1>4 DEF BoxAlive
<1>5. CASE BoxWatch
  BY <1>0, <1>2, <1>5 DEF BoxWatch
<1>6. ASSUME NEW i \in InspectOf(World), blips' = i.blips, boxAt' = IF i.up THEN "alive" ELSE "watch",
             boxAt \in {"status", "again"},
             UNCHANGED <<box, boxes, readerVars, quit, exitHandled, deadSince, detached, interfered>>
      PROVE  BoxInv'
  <2>1. i.blips \in 0 .. MaxBlips /\ blips <= i.blips
    BY <1>1, BoxInspectGives
  <2>2. boxAt' \in {"alive", "watch"}
    BY <1>6
  <2>. QED
    BY <1>0, <1>2, <1>6, <2>1, <2>2
<1>7. CASE BoxAgain
  BY <1>6, <1>7 DEF BoxAgain
<1>8. CASE BoxStatus
  <2>1. boxAt = "status" /\ UNCHANGED <<deadSince, detached, interfered>>
    BY <1>8 DEF BoxStatus
  <2>2. PICK i \in InspectOf(World) :
       IF i.up \/ exitHandled
         THEN /\ boxAt' = IF i.up THEN "alive" ELSE "watch"
              /\ blips' = i.blips
              /\ UNCHANGED <<box, boxes, readerVars, quit, exitHandled>>
         ELSE /\ exitHandled' = TRUE
              /\ IF relaunches
                   THEN \E w \in StartFrom([World EXCEPT !.blips = i.blips]) :
                          BoxBecomes(w) /\ boxAt' = IF w.raised THEN "stopping" ELSE "again"
                   ELSE /\ boxAt' = "stopping" /\ blips' = i.blips
                        /\ UNCHANGED <<box, boxes, readerVars, quit>>
    BY <1>8 DEF BoxStatus
  <2>3. i.blips \in 0 .. MaxBlips /\ blips <= i.blips
    BY <1>1, BoxInspectGives
  <2>4. CASE i.up \/ exitHandled
    BY <1>6, <2>1, <2>2, <2>4
  <2>5. CASE ~(i.up \/ exitHandled)
    <3>1. exitHandled' \in BOOLEAN
      BY <2>2, <2>5
    <3>2. CASE relaunches
      <4>. DEFINE u == [World EXCEPT !.blips = i.blips]
      <4>1. PICK w \in StartFrom(u) :
              BoxBecomes(w) /\ boxAt' = IF w.raised THEN "stopping" ELSE "again"
        BY <2>2, <2>5, <3>2
      <4>2. /\ u \in BoxWorlds /\ u.quit = quit /\ u.box = box
            /\ u.blips = i.blips /\ ~u.raised /\ (HeardIn(World) => HeardIn(u))
        <5>1. u = [box |-> World.box, boxes |-> World.boxes, pumps |-> World.pumps,
                   follows |-> World.follows, proc |-> World.proc, cutOff |-> World.cutOff,
                   quit |-> World.quit, blips |-> i.blips, raised |-> World.raised]
          BY <1>1, BoxWorldIs DEF AllBoxWorlds
        <5>. HIDE DEF u
        <5>0. /\ World.box \in {"none", "up", "dead"} /\ (World.box # "none" => World.boxes # 0)
              /\ World.quit \in BOOLEAN /\ World.raised \in BOOLEAN
          BY <1>1, BoxWorldHas
        <5>2. u \in BoxWorlds
          BY <1>1, <2>3, <5>0, <5>1, BoxWorldStays
        <5>3. /\ u.quit = World.quit /\ u.box = World.box /\ u.blips = i.blips
              /\ u.raised = World.raised /\ u.pumps = World.pumps /\ u.boxes = World.boxes
              /\ u.follows = World.follows /\ u.cutOff = World.cutOff
          BY <5>1
        <5>. QED
          BY <1>1, <5>2, <5>3 DEF HeardIn
      <4>. HIDE DEF u
      <4>3. /\ w \in BoxWorlds /\ w.blips = i.blips
            /\ \/ w = u
               \/ w.raised
               \/ w.box = "up" /\ HeardIn(w) /\ ~w.quit
        BY <4>1, <4>2, BoxStartGives
      <4>4. CASE w.raised
        <5>1. boxAt' = "stopping"
          BY <4>1, <4>4
        <5>. QED
          BY <1>2, <2>1, <3>1, <4>1, <4>3, <5>1, BoxLeavesAWorld
      <4>5. CASE ~w.raised
        <5>1. boxAt' = "again"
          BY <4>1, <4>5
        <5>2. ~interfered' /\ w.blips = 0 =>
                ~w.quit /\ ~detached' /\ (w.box = "up" => HeardIn(w))
          <6>1. ~interfered /\ blips = 0 => ~quit /\ ~detached /\ (box = "up" => HeardIn(World))
            BY <2>1 DEF BoxInv
          <6>2. w.blips = 0 => blips = 0
            BY <1>2, <2>3, <4>3
          <6>. QED
            BY <2>1, <4>2, <4>3, <4>5, <6>1, <6>2
        <5>. QED
          BY <1>2, <2>1, <3>1, <4>1, <4>3, <5>1, <5>2, BoxLeavesAWorld
      <4>. QED
        BY <4>4, <4>5
    <3>3. CASE ~relaunches
      <4>1. boxAt' = "stopping" /\ blips' = i.blips /\ UNCHANGED <<box, boxes, readerVars, quit>>
        BY <2>2, <2>5, <3>3
      <4>. QED
        BY <1>0, <1>2, <2>1, <2>3, <3>1, <4>1
    <3>. QED
      BY <3>2, <3>3
  <2>. QED
    BY <2>4, <2>5
<1>. QED
  BY <1>3, <1>4, <1>5, <1>7, <1>8

LEMMA BoxKeeps ==
  ASSUME BoxInv, [DockerNext]_boxVars
  PROVE  BoxInv'
<1>1. CASE UNCHANGED boxVars
  BY <1>1 DEF boxVars, readerVars, BoxInv, DockerTypeOK, ReadersKnown, HeardIn, World
<1>. QED
  BY <1>1, BoxReadersKeep, BoxClocksKeep, BoxCallsKeep, BoxLooksKeep DEF DockerNext, DockerLoop

LEMMA BoxesAreHeard == BoxInv => BoxIsHeard
  BY WorldFields DEF BoxInv, BoxIsHeard, HeardIn

\* A child that runs is one the monitor listens to, under each of the supervisors that
\* follow a log, through any number of restarts, relaunches and starts over a child
\* that is there, as long as each command is obeyed and no late reader ends the docker
\* logs of a new container (docker.py, slurm.py, attach.py: the event that stop() sets
\* and start() clears; docker.py:209-214).
THEOREM ChildrenAreHeard == ComponentsSpec => []ChildIsHeard
<1>. DEFINE Inv == BoxInv /\ SlurmInv /\ AttachInv
<1>1. ComponentsInit => Inv
  BY BoxInitially, SlurmInitially, AttachInitially DEF ComponentsInit
<1>2. Inv /\ [ComponentsNext]_allVars => Inv'
  BY BoxKeeps, SlurmKeeps, AttachKeeps, Projections
<1>3. Inv => ChildIsHeard
  BY BoxesAreHeard, JobsAreHeard, AttachedIsHeard DEF ChildIsHeard
<1>. HIDE DEF Inv
<1>. QED
  BY <1>1, <1>2, <1>3, PTL DEF ComponentsSpec

\* Who is alive under the local supervisor.
GroupInv ==
  /\ launch \in 0 .. MaxStarts /\ leader \in BOOLEAN /\ workers \subseteq Launches
  /\ localAt \in {"idle", "term", "wait", "group", "join", "start"}
  /\ launch = 0 => ~leader
  /\ localAt = "group" => ~leader
  /\ OneGroup

LEMMA GroupInitially == LocalInit => GroupInv
<1>. SUFFICES ASSUME LocalInit PROVE GroupInv
  OBVIOUS
<1>1. leader \in BOOLEAN /\ ~leader
  BY DEF LocalInit
<1>2. launch = 0 /\ workers = {} /\ localAt = "idle" /\ 0 \in 0 .. MaxStarts
  BY LocalReaderAssumption DEF LocalInit
<1>. QED
  BY <1>1, <1>2 DEF GroupInv, OneGroup

LEMMA GroupKeeps ==
  ASSUME GroupInv, [LocalNext]_localVars
  PROVE  GroupInv'
<1>. USE LocalReaderAssumption DEF GroupInv, OneGroup, Launches
<1>1. CASE UNCHANGED <<launch, leader, workers, localAt>>
  BY <1>1
<1>2. CASE UNCHANGED localVars
  BY <1>1, <1>2 DEF localVars
<1>3. ASSUME NEW l \in Launches,
             GroupWrites(l) \/ ReaderPuts(l) \/ ReaderDrops(l) \/ ReaderPutsAgain(l) \/ ReaderEnds(l)
      PROVE  GroupInv'
  <2>1. UNCHANGED groupVars /\ UNCHANGED callVars
    BY <1>3 DEF GroupWrites, ReaderPuts, ReaderDrops, ReaderPutsAgain, ReaderEnds
  <2>. QED
    BY <1>1, <2>1 DEF groupVars, callVars
<1>4. CASE MonitorTakes
  BY <1>1, <1>4 DEF MonitorTakes, groupVars, callVars
<1>5. CASE LeaderForks
  BY <1>5 DEF LeaderForks, callVars
<1>6. CASE LeaderExits
  BY <1>6 DEF LeaderExits, callVars
<1>7. CASE LocalStart
  BY <1>7 DEF LocalStart, LocalLaunch
<1>8. ASSUME NEW restart \in BOOLEAN, LocalStop(restart)
      PROVE  GroupInv'
  BY <1>8 DEF LocalStop, groupVars
<1>9. CASE LocalTerm
  <2>1. leader' \in BOOLEAN /\ (launch = 0 => ~leader')
    <3>1. leader' = leader \/ leader' = FALSE
      BY <1>9, Zenon DEF LocalTerm
    <3>2. CASE leader' = leader
      BY <3>2
    <3>3. CASE leader' = FALSE
      BY <3>3, Zenon
    <3>. QED
      BY <3>1, <3>2, <3>3
  <2>2. workers' \subseteq workers
    BY <1>9 DEF LocalTerm
  <2>3. localAt' = "wait" /\ launch' = launch
    BY <1>9 DEF LocalTerm
  <2>. QED
    BY <2>1, <2>2, <2>3
<1>10. CASE LocalWait
  BY <1>10 DEF LocalWait
<1>11. CASE LocalGroup
  BY <1>11 DEF LocalGroup
<1>12. CASE LocalJoin
  BY <1>12 DEF LocalJoin, groupVars
<1>13. CASE LocalRelaunch
  <2>1. CASE launch < MaxStarts
    <3>1. /\ leader' \in BOOLEAN /\ launch' = launch + 1 /\ workers' = workers
          /\ localAt' = "idle" /\ workers = {}
      BY <1>13, <2>1 DEF LocalRelaunch, LocalLaunch
    <3>2. launch' \in 1 .. MaxStarts
      BY <2>1, <3>1
    <3>. QED
      BY <3>1, <3>2
  <2>2. CASE ~(launch < MaxStarts)
    BY <1>13, <2>2 DEF LocalRelaunch
  <2>. QED
    BY <2>1, <2>2
<1>. QED
  BY <1>2, <1>3, <1>4, <1>5, <1>6, <1>7, <1>8, <1>9, <1>10, <1>11, <1>12, <1>13 DEF LocalNext

\* Nobody of an earlier launch is alive beside a new one, and SLURM has one job that
\* nobody cancelled and one more for each command that failed, for any number of
\* launches, submissions and failures (local.py, stop and start; slurm.py, _restart).
THEOREM OneChildAtATime == ComponentsSpec => []OneChild
<1>. DEFINE Inv == GroupInv /\ SlurmInv
<1>1. ComponentsInit => Inv
  BY GroupInitially, SlurmInitially DEF ComponentsInit
<1>2. Inv /\ [ComponentsNext]_allVars => Inv'
  BY GroupKeeps, SlurmKeeps, Projections
<1>3. Inv => OneChild
  BY JobsAreAccounted DEF OneChild, GroupInv
<1>. HIDE DEF Inv
<1>. QED
  BY <1>1, <1>2, <1>3, PTL DEF ComponentsSpec

-----------------------------------------------------------------------------
(* The lines of the local supervisor *)

\* The places of a sequence that hold something, and what Append and Tail make of them.
Places(s) == {j \in 1 .. Len(s) : s[j] # 0}

LEMMA PlacesAreFinite ==
  ASSUME NEW s \in Seq(Nat)
  PROVE  IsFiniteSet(Places(s)) /\ Cardinality(Places(s)) \in Nat
<1>1. IsFiniteSet(1 .. Len(s))
  BY FS_Interval, SeqHas
<1>2. Places(s) \in SUBSET (1 .. Len(s))
  BY DEF Places
<1>. QED
  BY <1>1, <1>2, FS_Subset, FS_CardinalityType

LEMMA AppendCounts ==
  ASSUME NEW s \in Seq(Nat), NEW e \in Nat, NEW t, t = Append(s, e)
  PROVE  Cardinality(Places(t)) = Cardinality(Places(s)) + (IF e = 0 THEN 0 ELSE 1)
<1>1. /\ Len(t) = Len(s) + 1 /\ Len(s) \in Nat /\ t[Len(s) + 1] = e
      /\ \A j \in 1 .. Len(s) : t[j] = s[j]
  BY AppendHas, SeqHas
<1>2. CASE e = 0
  <2>1. Places(t) = Places(s)
    BY <1>1, <1>2 DEF Places
  <2>. QED
    BY <1>2, <2>1, PlacesAreFinite
<1>3. CASE e # 0
  <2>1. Places(t) = Places(s) \cup {Len(s) + 1}
    BY <1>1, <1>3 DEF Places
  <2>2. Len(s) + 1 \notin Places(s)
    BY <1>1 DEF Places
  <2>3. Cardinality(Places(s) \cup {Len(s) + 1}) = Cardinality(Places(s)) + 1
    BY <2>2, PlacesAreFinite, FS_AddElement
  <2>. QED
    BY <1>3, <2>1, <2>3
<1>. QED
  BY <1>2, <1>3

LEMMA TailCounts ==
  ASSUME NEW s \in Seq(Nat), s # <<>>, NEW t, t = Tail(s)
  PROVE  Cardinality(Places(s)) = Cardinality(Places(t)) + (IF Head(s) = 0 THEN 0 ELSE 1)
<1>1. /\ Len(t) = Len(s) - 1 /\ Len(s) \in Nat \ {0} /\ Head(s) = s[1] /\ t \in Seq(Nat)
      /\ \A j \in 1 .. Len(s) - 1 : t[j] = s[j + 1]
  BY TailHas
<1>. DEFINE Rest == Places(s) \ {1}
            f    == [j \in Places(t) |-> j + 1]
<1>2. \A j \in Places(t) : j \in Nat /\ j + 1 \in Rest
  BY <1>1 DEF Places
<1>3. \A k \in Rest : k - 1 \in Places(t) /\ (k - 1) + 1 = k
  BY <1>1 DEF Places
<1>4. f \in Bijection(Places(t), Rest)
  <2>1. f \in [Places(t) -> Rest]
    BY <1>2
  <2>2. \A a, b \in Places(t) : f[a] = f[b] => a = b
    BY <1>2
  <2>3. \A k \in Rest : \E j \in Places(t) : f[j] = k
    <3>1. ASSUME NEW k \in Rest PROVE \E j \in Places(t) : f[j] = k
      <4>1. k - 1 \in Places(t) /\ f[k - 1] = k
        BY <1>3, <3>1
      <4>. QED
        BY <4>1
    <3>. QED
      BY <3>1
  <2>. HIDE DEF f, Rest
  <2>. QED
    BY <2>1, <2>2, <2>3 DEF Bijection, Injection, Surjection, IsInjective
<1>5. ExistsBijection(Places(t), Rest)
  BY <1>4 DEF ExistsBijection
<1>6. Cardinality(Rest) = Cardinality(Places(t))
  BY <1>1, <1>5, PlacesAreFinite, FS_Bijection
<1>7. Cardinality(Rest) = IF 1 \in Places(s) THEN Cardinality(Places(s)) - 1 ELSE Cardinality(Places(s))
  BY PlacesAreFinite, FS_RemoveElement
<1>8. 1 \in Places(s) <=> Head(s) # 0
  BY <1>1 DEF Places
<1>9. Cardinality(Places(s)) \in Nat /\ Cardinality(Places(t)) \in Nat
  BY <1>1, PlacesAreFinite
<1>. HIDE DEF Rest
<1>. QED
  BY <1>6, <1>7, <1>8, <1>9

WrittenLines == 1 .. line
Gone         == taken \cup lost
Holders      == {l \in Launches : inHand[l] # 0}
Piped(l)     == 1 .. Len(pipes[l])
Queued       == 1 .. Len(queue)

StreamTypes ==
  /\ pipes \in [Launches -> Seq(Nat)] /\ inHand \in [Launches -> Nat]
  /\ readers \in [Launches -> {"off", "read", "full", "again"}]
  /\ queue \in Seq(Nat) /\ Len(queue) <= QueueSize /\ archived \in Nat /\ line \in Nat
  /\ late \in Nat /\ taken \subseteq WrittenLines /\ lost \subseteq WrittenLines
  /\ \A j \in Queued : queue[j] <= line
  /\ \A l \in Launches : inHand[l] <= line /\ \A p \in Piped(l) : pipes[l][p] \in WrittenLines

\* A reader that is off has read all there was of its launch, and of the readers only
\* the newest is at work, unless a stop did not wait for it.
ReadersRun ==
  /\ localAt # "idle" => launch > 0
  /\ \A l \in Launches : inHand[l] # 0 <=> readers[l] \in {"full", "again"}
  /\ \A l \in Launches : readers[l] = "off" => pipes[l] = <<>>
  /\ \A l \in Launches : l > launch => readers[l] = "off"
  /\ launch > 0 /\ readers[launch] = "off" => ~leader /\ workers = {}
  /\ late = 0 => \A l \in Launches : readers[l] # "off" => l = launch /\ localAt # "start"

\* A line is in one place.
LinesApart ==
  /\ \A j, k \in Queued : queue[j] = queue[k] => j = k \/ queue[j] = 0
  /\ \A l, m \in Launches : inHand[l] = inHand[m] => l = m \/ inHand[l] = 0
  /\ \A l \in Launches : \A p, r \in Piped(l) : p < r => pipes[l][p] < pipes[l][r]
  /\ \A l, m \in Launches : l # m =>
       \A p \in Piped(l), r \in Piped(m) : pipes[l][p] # pipes[m][r]
  /\ \A j \in Queued : queue[j] \notin Gone
  /\ \A l \in Launches : /\ inHand[l] \notin Gone
                         /\ \A j \in Queued : inHand[l] = queue[j] => inHand[l] = 0
  /\ \A l \in Launches : \A p \in Piped(l) :
       /\ pipes[l][p] \notin Gone
       /\ \A j \in Queued : pipes[l][p] # queue[j]
       /\ \A m \in Launches : pipes[l][p] # inHand[m]

Counted ==
  archived = Cardinality(taken) + Cardinality(lost) + Cardinality(Places(queue)) + Cardinality(Holders)

\* While the readers keep apart, lines go through pipe, hand and queue in the order
\* they were written, behind those that are lost; and the place the reader made is free.
NewestLast ==
  late = 0 =>
    /\ \A j, k \in Queued : j < k /\ queue[k] # 0 => queue[j] < queue[k]
    /\ \A l \in Launches : inHand[l] # 0 => \A j \in Queued : queue[j] < inHand[l]
    /\ \A l \in Launches : \A p \in Piped(l) :
         inHand[l] < pipes[l][p] /\ \A j \in Queued : queue[j] < pipes[l][p]
    /\ \A i \in lost :
         /\ \A j \in Queued : queue[j] # 0 => i < queue[j]
         /\ \A l \in Launches : /\ inHand[l] # 0 => i < inHand[l]
                                /\ \A p \in Piped(l) : i < pipes[l][p]
    /\ \A l \in Launches : readers[l] = "again" => Len(queue) < QueueSize

LinesInv == StreamTypes /\ ReadersRun /\ LinesApart /\ Counted /\ NewestLast

LEMMA StreamFacts ==
  ASSUME StreamTypes
  PROVE  /\ Len(queue) \in Nat /\ QueueSize \in Nat \ {0} /\ archived \in Nat /\ line \in Nat
         /\ \A j \in Queued : queue[j] \in Nat /\ queue[j] <= line
         /\ \A l \in Launches :
              /\ inHand[l] \in Nat /\ inHand[l] <= line /\ pipes[l] \in Seq(Nat)
              /\ Len(pipes[l]) \in Nat
              /\ \A p \in Piped(l) : pipes[l][p] \in Nat /\ pipes[l][p] <= line /\ pipes[l][p] # 0
         /\ IsFiniteSet(taken) /\ IsFiniteSet(lost) /\ IsFiniteSet(Holders)
         /\ Cardinality(taken) \in Nat /\ Cardinality(lost) \in Nat /\ Cardinality(Holders) \in Nat
         /\ Cardinality(Places(queue)) \in Nat /\ 0 \notin Gone
         /\ \A i \in Gone : i \in Nat /\ i <= line
<1>1. \A l \in Launches : pipes[l] \in Seq(Nat) /\ inHand[l] \in Nat
  BY DEF StreamTypes
<1>2. \A l \in Launches : Len(pipes[l]) \in Nat /\ \A p \in Piped(l) : pipes[l][p] \in Nat
  BY <1>1, SeqHas DEF Piped
<1>3. queue \in Seq(Nat) /\ Len(queue) \in Nat /\ \A j \in Queued : queue[j] \in Nat
  BY SeqHas DEF StreamTypes, Queued
<1>4. Cardinality(Places(queue)) \in Nat
  BY <1>3, PlacesAreFinite
<1>5. IsFiniteSet(1 .. line) /\ IsFiniteSet(1 .. MaxStarts)
  BY FS_Interval, LocalReaderAssumption DEF StreamTypes
<1>6. IsFiniteSet(taken) /\ IsFiniteSet(lost)
  BY <1>5, FS_Subset DEF StreamTypes, WrittenLines
<1>7. IsFiniteSet(Holders)
  <2>1. Holders \in SUBSET (1 .. MaxStarts)
    BY DEF Holders, Launches
  <2>. QED
    BY <1>5, <2>1, FS_Subset
<1>8. /\ Cardinality(taken) \in Nat /\ Cardinality(lost) \in Nat /\ Cardinality(Holders) \in Nat
  BY <1>6, <1>7, FS_CardinalityType
<1>9. line \in Nat /\ archived \in Nat /\ QueueSize \in Nat \ {0}
  BY LocalReaderAssumption DEF StreamTypes
<1>10. 0 \notin Gone /\ \A i \in Gone : i \in Nat /\ i <= line
  BY <1>9 DEF StreamTypes, Gone, WrittenLines
<1>11. \A l \in Launches : /\ inHand[l] <= line
                           /\ \A p \in Piped(l) : pipes[l][p] <= line /\ pipes[l][p] # 0
  BY <1>2, <1>9 DEF StreamTypes, WrittenLines
<1>. QED
  BY <1>1, <1>2, <1>3, <1>4, <1>6, <1>7, <1>8, <1>9, <1>10, <1>11 DEF StreamTypes

LEMMA LinesInitially == LocalInit => LinesInv
<1>. SUFFICES ASSUME LocalInit PROVE LinesInv
  OBVIOUS
<1>. USE LocalReaderAssumption DEF LocalInit
<1>1. /\ \A l \in Launches : pipes[l] = <<>> /\ readers[l] = "off" /\ inHand[l] = 0
      /\ Len(queue) = 0 /\ taken = {} /\ lost = {} /\ archived = 0 /\ line = 0 /\ late = 0
      /\ launch = 0 /\ localAt = "idle"
  OBVIOUS
<1>2. \A l \in Launches : Len(pipes[l]) = 0
  BY <1>1
<1>3. StreamTypes
  <2>1. pipes \in [Launches -> Seq(Nat)]
    <3>1. <<>> \in Seq(Nat)
      OBVIOUS
    <3>. QED
      BY <3>1
  <2>2. queue \in Seq(Nat)
    OBVIOUS
  <2>. QED
    BY <1>1, <1>2, <2>1, <2>2 DEF StreamTypes, WrittenLines, Queued, Piped
<1>4. ReadersRun
  BY <1>1 DEF ReadersRun
<1>5. LinesApart
  BY <1>1, <1>2 DEF LinesApart, Queued, Piped, Gone
<1>6. NewestLast
  BY <1>1, <1>2 DEF NewestLast, Queued, Piped
<1>7. Counted
  <2>1. Places(queue) = {} /\ Holders = {} /\ taken = {} /\ lost = {}
    BY <1>1 DEF Places, Holders
  <2>. QED
    <3>1. Cardinality({}) = 0
      BY FS_EmptySet
    <3>2. Cardinality(taken) + Cardinality(lost) + Cardinality(Places(queue)) + Cardinality(Holders) = 0
      BY ONLY <2>1, <3>1
    <3>. QED
      BY <1>1, <3>2 DEF Counted
<1>. QED
  BY <1>3, <1>4, <1>5, <1>6, <1>7 DEF LinesInv

LEMMA WriteKeepsLines ==
  ASSUME LinesInv, GroupInv, NEW l \in Launches, GroupWrites(l)
  PROVE  LinesInv'
<1>1. StreamTypes /\ ReadersRun /\ LinesApart /\ Counted /\ NewestLast
  BY DEF LinesInv
<1>2. /\ HoldsPipe(l) /\ line' = line + 1
      /\ pipes' = [pipes EXCEPT ![l] = Append(@, line + 1)]
      /\ UNCHANGED <<launch, leader, workers, localAt, late, readers, inHand, queue, archived, taken, lost>>
  BY DEF GroupWrites, groupVars, callVars
<1>3. /\ pipes \in [Launches -> Seq(Nat)] /\ line \in Nat /\ Len(pipes[l]) \in Nat /\ pipes[l] \in Seq(Nat)
  BY <1>1, StreamFacts DEF StreamTypes
<1>4. l = launch /\ launch > 0 /\ readers[l] # "off"
  <2>1. l = launch
    BY <1>2 DEF HoldsPipe, GroupInv, OneGroup
  <2>2. launch > 0
    BY <2>1, LocalReaderAssumption DEF Launches
  <2>. QED
    BY <1>1, <1>2, <2>1, <2>2 DEF ReadersRun, HoldsPipe
<1>5. /\ pipes' \in [Launches -> Seq(Nat)]
      /\ \A m \in Launches \ {l} : pipes'[m] = pipes[m]
      /\ Len(pipes'[l]) = Len(pipes[l]) + 1 /\ pipes'[l][Len(pipes[l]) + 1] = line + 1
      /\ \A p \in 1 .. Len(pipes[l]) : pipes'[l][p] = pipes[l][p]
  <2>1. pipes'[l] = Append(pipes[l], line + 1) /\ Append(pipes[l], line + 1) \in Seq(Nat)
    BY <1>2, <1>3, AppendHas
  <2>2. pipes' \in [Launches -> Seq(Nat)]
    BY <1>2, <1>3, <2>1
  <2>3. \A m \in Launches \ {l} : pipes'[m] = pipes[m]
    BY <1>2, <1>3
  <2>. QED
    BY <1>3, <2>1, <2>2, <2>3, AppendHas
<1>6. \A m \in Launches : \A p \in Piped(m)' :
        \/ p \in Piped(m) /\ pipes'[m][p] = pipes[m][p]
        \/ m = l /\ p = Len(pipes[l]) + 1 /\ pipes'[m][p] = line + 1
  <2>1. ASSUME NEW m \in Launches, NEW p \in Piped(m)'
        PROVE  \/ p \in Piped(m) /\ pipes'[m][p] = pipes[m][p]
               \/ m = l /\ p = Len(pipes[l]) + 1 /\ pipes'[m][p] = line + 1
    <3>1. p \in 1 .. Len(pipes'[m])
      BY DEF Piped
    <3>2. CASE m # l
      BY <1>5, <2>1, <3>1, <3>2 DEF Piped
    <3>3. CASE m = l
      <4>1. p \in 1 .. Len(pipes[l]) + 1
        BY <1>5, <3>1, <3>3
      <4>2. p \in 1 .. Len(pipes[l]) \/ p = Len(pipes[l]) + 1
        BY <1>3, <4>1
      <4>. QED
        BY <1>5, <3>3, <4>2 DEF Piped
    <3>. QED
      BY <3>2, <3>3
  <2>. QED
    BY <2>1
<1>7. /\ \A m \in Launches : inHand[m] \in Nat /\ inHand[m] <= line
      /\ \A m \in Launches : \A p \in Piped(m) :
           pipes[m][p] \in Nat /\ pipes[m][p] <= line /\ pipes[m][p] # 0
      /\ \A j \in Queued : queue[j] \in Nat /\ queue[j] <= line
      /\ \A i \in Gone : i \in Nat /\ i <= line
  BY <1>1, StreamFacts
<1>8. Queued' = Queued /\ Gone' = Gone /\ Holders' = Holders
  BY <1>2 DEF Queued, Gone, Holders
<1>9. StreamTypes'
  <2>1. \A m \in Launches : \A p \in Piped(m)' : pipes'[m][p] \in WrittenLines'
    <3>1. ASSUME NEW m \in Launches, NEW p \in Piped(m)'
          PROVE  pipes'[m][p] \in 1 .. line + 1
      <4>1. CASE p \in Piped(m) /\ pipes'[m][p] = pipes[m][p]
        BY <1>3, <1>7, <4>1
      <4>2. CASE pipes'[m][p] = line + 1
        BY <1>3, <4>2
      <4>. QED
        BY <1>6, <3>1, <4>1, <4>2
    <3>. QED
      BY <1>2, <3>1 DEF WrittenLines
  <2>2. taken' \subseteq WrittenLines' /\ lost' \subseteq WrittenLines'
    BY <1>1, <1>2, <1>3 DEF StreamTypes, WrittenLines
  <2>3. \A m \in Launches : inHand'[m] <= line'
    BY <1>2, <1>3, <1>7
  <2>4. \A j \in Queued' : queue'[j] <= line'
    BY <1>2, <1>3, <1>7, <1>8
  <2>5. line' \in Nat
    BY <1>2, <1>3
  <2>. QED
    BY <1>1, <1>2, <1>5, <2>1, <2>2, <2>3, <2>4, <2>5 DEF StreamTypes
<1>10. ReadersRun'
  <2>1. \A m \in Launches : readers'[m] = "off" => pipes'[m] = <<>>
    BY <1>1, <1>2, <1>4, <1>5 DEF ReadersRun
  <2>. QED
    BY <1>1, <1>2, <2>1 DEF ReadersRun
<1>11. LinesApart'
  <2>1. \A m \in Launches : \A p, r \in Piped(m)' : p < r => pipes'[m][p] < pipes'[m][r]
    <3>1. ASSUME NEW m \in Launches, NEW p \in Piped(m)', NEW r \in Piped(m)', p < r
          PROVE  pipes'[m][p] < pipes'[m][r]
      <4>1. p \in Piped(m)
        BY <1>3, <1>6, <3>1 DEF Piped
      <4>2. pipes'[m][p] = pipes[m][p] /\ pipes[m][p] \in Nat /\ pipes[m][p] <= line
        BY <1>3, <1>5, <1>7, <3>1, <4>1 DEF Piped
      <4>3. CASE r \in Piped(m) /\ pipes'[m][r] = pipes[m][r]
        BY <1>1, <3>1, <4>1, <4>2, <4>3 DEF LinesApart
      <4>4. CASE pipes'[m][r] = line + 1
        BY <1>3, <4>2, <4>4
      <4>. QED
        BY <1>6, <3>1, <4>3, <4>4
    <3>. QED
      BY <3>1
  <2>2. \A m, n \in Launches : m # n =>
          \A p \in Piped(m)', r \in Piped(n)' : pipes'[m][p] # pipes'[n][r]
    <3>1. ASSUME NEW m \in Launches, NEW n \in Launches, m # n, NEW p \in Piped(m)', NEW r \in Piped(n)'
          PROVE  pipes'[m][p] # pipes'[n][r]
      <4>1. CASE p \in Piped(m) /\ pipes'[m][p] = pipes[m][p] /\ r \in Piped(n) /\ pipes'[n][r] = pipes[n][r]
        BY <1>1, <3>1, <4>1 DEF LinesApart
      <4>2. CASE m = l /\ pipes'[m][p] = line + 1
        <5>1. r \in Piped(n) /\ pipes'[n][r] = pipes[n][r]
          BY <1>6, <3>1, <4>2
        <5>2. pipes[n][r] \in Nat /\ pipes[n][r] <= line
          BY <1>7, <5>1
        <5>. QED
          BY <1>3, <4>2, <5>1, <5>2
      <4>3. CASE n = l /\ pipes'[n][r] = line + 1
        <5>1. p \in Piped(m) /\ pipes'[m][p] = pipes[m][p]
          BY <1>6, <3>1, <4>3
        <5>2. pipes[m][p] \in Nat /\ pipes[m][p] <= line
          BY <1>7, <5>1
        <5>. QED
          BY <1>3, <4>3, <5>1, <5>2
      <4>. QED
        BY <1>6, <3>1, <4>1, <4>2, <4>3
    <3>. QED
      BY <3>1
  <2>3. \A m \in Launches : \A p \in Piped(m)' :
          /\ pipes'[m][p] \notin Gone'
          /\ \A j \in Queued' : pipes'[m][p] # queue'[j]
          /\ \A n \in Launches : pipes'[m][p] # inHand'[n]
    <3>1. ASSUME NEW m \in Launches, NEW p \in Piped(m)'
          PROVE  /\ pipes'[m][p] \notin Gone
                 /\ \A j \in Queued : pipes'[m][p] # queue[j]
                 /\ \A n \in Launches : pipes'[m][p] # inHand[n]
      <4>1. CASE p \in Piped(m) /\ pipes'[m][p] = pipes[m][p]
        BY <1>1, <4>1 DEF LinesApart
      <4>2. CASE pipes'[m][p] = line + 1
        BY <1>3, <1>7, <4>2
      <4>. QED
        BY <1>6, <3>1, <4>1, <4>2
    <3>. QED
      BY <1>2, <1>8, <3>1
  <2>. QED
    BY <1>1, <1>2, <1>8, <2>1, <2>2, <2>3 DEF LinesApart
<1>12. Counted'
  BY <1>1, <1>2, <1>8 DEF Counted, Places
<1>13. NewestLast'
  <2>1. ASSUME late = 0, NEW m \in Launches, NEW p \in Piped(m)'
        PROVE  /\ inHand[m] < pipes'[m][p] /\ \A j \in Queued : queue[j] < pipes'[m][p]
               /\ \A i \in lost : i < pipes'[m][p]
    <3>1. CASE p \in Piped(m) /\ pipes'[m][p] = pipes[m][p]
      BY <1>1, <2>1, <3>1 DEF NewestLast
    <3>2. CASE pipes'[m][p] = line + 1
      BY <1>3, <1>7, <3>2 DEF Gone
    <3>. QED
      BY <1>6, <2>1, <3>1, <3>2
  <2>. QED
    BY <1>1, <1>2, <1>8, <2>1 DEF NewestLast
<1>. QED
  BY <1>9, <1>10, <1>11, <1>12, <1>13 DEF LinesInv

LEMMA QueueGrows ==
  ASSUME StreamTypes, NEW e \in Nat, queue' = Append(queue, e)
  PROVE  /\ queue' \in Seq(Nat) /\ Len(queue') = Len(queue) + 1
         /\ \A j \in Queued' : \/ j \in Queued /\ queue'[j] = queue[j]
                               \/ j = Len(queue) + 1 /\ queue'[j] = e
         /\ Cardinality(Places(queue))' = Cardinality(Places(queue)) + (IF e = 0 THEN 0 ELSE 1)
<1>1. queue \in Seq(Nat) /\ Len(queue) \in Nat
  BY StreamFacts DEF StreamTypes
<1>2. /\ queue' \in Seq(Nat) /\ Len(queue') = Len(queue) + 1
      /\ queue'[Len(queue) + 1] = e
      /\ \A j \in 1 .. Len(queue) : queue'[j] = queue[j]
  BY <1>1, AppendHas
<1>3. \A j \in Queued' : j \in Queued \/ j = Len(queue) + 1
  BY <1>1, <1>2 DEF Queued
<1>4. \A j \in Queued' : \/ j \in Queued /\ queue'[j] = queue[j]
                         \/ j = Len(queue) + 1 /\ queue'[j] = e
  BY <1>2, <1>3 DEF Queued
<1>5. Cardinality(Places(queue')) = Cardinality(Places(queue)) + (IF e = 0 THEN 0 ELSE 1)
  BY <1>1, AppendCounts
<1>. QED
  BY <1>2, <1>4, <1>5 DEF Places

LEMMA QueueShrinks ==
  ASSUME StreamTypes, queue # <<>>, queue' = Tail(queue)
  PROVE  /\ queue' \in Seq(Nat) /\ Len(queue') = Len(queue) - 1
         /\ 1 \in Queued /\ Head(queue) = queue[1] /\ Head(queue) \in Nat
         /\ \A j \in Queued' : j \in Nat /\ j >= 1 /\ j + 1 \in Queued /\ queue'[j] = queue[j + 1]
         /\ Cardinality(Places(queue)) =
              Cardinality(Places(queue))' + (IF Head(queue) = 0 THEN 0 ELSE 1)
<1>1. queue \in Seq(Nat) /\ Len(queue) \in Nat
  BY StreamFacts DEF StreamTypes
<1>2. /\ queue' \in Seq(Nat) /\ Len(queue') = Len(queue) - 1 /\ Len(queue) \in Nat \ {0}
      /\ Head(queue) = queue[1] /\ Head(queue) \in Nat
      /\ \A j \in 1 .. Len(queue) - 1 : queue'[j] = queue[j + 1]
  BY <1>1, TailHas
<1>3. \A j \in Queued' : j \in Nat /\ j >= 1 /\ j \in 1 .. Len(queue) - 1 /\ j + 1 \in Queued
  BY <1>2 DEF Queued
<1>4. 1 \in Queued
  BY <1>2 DEF Queued
<1>5. Cardinality(Places(queue)) = Cardinality(Places(queue')) + (IF Head(queue) = 0 THEN 0 ELSE 1)
  BY <1>1, TailCounts
<1>. QED
  BY <1>2, <1>3, <1>4, <1>5 DEF Places

LEMMA PipeShrinks ==
  ASSUME StreamTypes, NEW l \in Launches, pipes[l] # <<>>,
         pipes' = [pipes EXCEPT ![l] = Tail(@)]
  PROVE  /\ pipes' \in [Launches -> Seq(Nat)] /\ 1 \in Piped(l) /\ Head(pipes[l]) = pipes[l][1]
         /\ \A m \in Launches : \A p \in Piped(m)' :
              \/ m # l /\ p \in Piped(m) /\ pipes'[m][p] = pipes[m][p]
              \/ /\ m = l /\ p \in Nat /\ p >= 1 /\ p + 1 \in Piped(m)
                 /\ pipes'[m][p] = pipes[m][p + 1]
<1>1. pipes \in [Launches -> Seq(Nat)] /\ pipes[l] \in Seq(Nat)
  BY StreamFacts DEF StreamTypes
<1>2. /\ Tail(pipes[l]) \in Seq(Nat) /\ Len(Tail(pipes[l])) = Len(pipes[l]) - 1
      /\ Len(pipes[l]) \in Nat \ {0} /\ Head(pipes[l]) = pipes[l][1]
      /\ \A i \in 1 .. Len(pipes[l]) - 1 : Tail(pipes[l])[i] = pipes[l][i + 1]
  BY <1>1, TailHas
<1>3. /\ pipes' \in [Launches -> Seq(Nat)] /\ pipes'[l] = Tail(pipes[l])
      /\ \A m \in Launches \ {l} : pipes'[m] = pipes[m]
  BY <1>1, <1>2
<1>4. 1 \in Piped(l)
  BY <1>2 DEF Piped
<1>5. \A m \in Launches \ {l} : \A p \in Piped(m)' : p \in Piped(m) /\ pipes'[m][p] = pipes[m][p]
  BY <1>3 DEF Piped
<1>6. \A p \in Piped(l)' : p \in Nat /\ p >= 1 /\ p + 1 \in Piped(l) /\ pipes'[l][p] = pipes[l][p + 1]
  <2>1. ASSUME NEW p \in Piped(l)'
        PROVE  p \in Nat /\ p >= 1 /\ p + 1 \in Piped(l) /\ pipes'[l][p] = pipes[l][p + 1]
    <3>1. p \in 1 .. Len(pipes[l]) - 1
      BY <1>2, <1>3 DEF Piped
    <3>. QED
      BY <1>2, <1>3, <3>1 DEF Piped
  <2>. QED
    BY <2>1
<1>. QED
  BY <1>2, <1>3, <1>4, <1>5, <1>6

\* What a pipe keeps is apart and in order.
IsPiped(m, i) == \E r \in Piped(m) : pipes[m][r] = i

LEMMA PipesStayApart ==
  ASSUME StreamTypes, LinesApart, NEW l \in Launches, pipes[l] # <<>>,
         pipes' = [pipes EXCEPT ![l] = Tail(@)]
  PROVE  /\ \A m \in Launches : \A p, r \in Piped(m)' : p < r => pipes'[m][p] < pipes'[m][r]
         /\ \A m, n \in Launches : m # n =>
              \A p \in Piped(m)', r \in Piped(n)' : pipes'[m][p] # pipes'[n][r]
         /\ \A m \in Launches : \A p \in Piped(m)' :
              IsPiped(m, pipes'[m][p]) /\ pipes'[m][p] # Head(pipes[l])
         /\ \A p \in Piped(l)' : Head(pipes[l]) < pipes'[l][p]
<1>1. /\ pipes' \in [Launches -> Seq(Nat)] /\ 1 \in Piped(l) /\ Head(pipes[l]) = pipes[l][1]
      /\ \A m \in Launches : \A p \in Piped(m)' :
           \/ m # l /\ p \in Piped(m) /\ pipes'[m][p] = pipes[m][p]
           \/ /\ m = l /\ p \in Nat /\ p >= 1 /\ p + 1 \in Piped(m)
              /\ pipes'[m][p] = pipes[m][p + 1]
  BY PipeShrinks
<1>2. /\ \A m \in Launches : \A p \in Piped(m) : pipes[m][p] \in Nat
      /\ \A m \in Launches : \A p, r \in Piped(m) : p < r => pipes[m][p] < pipes[m][r]
      /\ \A m, n \in Launches : m # n =>
           \A p \in Piped(m), r \in Piped(n) : pipes[m][p] # pipes[n][r]
  BY StreamFacts DEF LinesApart
<1>3. ASSUME NEW p \in Piped(l)'
      PROVE  p \in Nat /\ p >= 1 /\ p + 1 \in Piped(l) /\ pipes'[l][p] = pipes[l][p + 1]
  BY <1>1, <1>3
<1>4. ASSUME NEW m \in Launches, m # l, NEW p \in Piped(m)'
      PROVE  p \in Piped(m) /\ pipes'[m][p] = pipes[m][p]
  BY <1>1, <1>4
<1>5. ASSUME NEW m \in Launches, NEW p \in Piped(m)', NEW r \in Piped(m)', p < r
      PROVE  pipes'[m][p] < pipes'[m][r]
  <2>1. CASE m # l
    BY <1>2, <1>4, <1>5, <2>1
  <2>2. CASE m = l
    <3>1. /\ p \in Nat /\ p + 1 \in Piped(l) /\ pipes'[l][p] = pipes[l][p + 1]
          /\ r \in Nat /\ r + 1 \in Piped(l) /\ pipes'[l][r] = pipes[l][r + 1]
      BY <1>3, <1>5, <2>2
    <3>2. p + 1 < r + 1
      BY <1>5, <3>1
    <3>3. pipes[l][p + 1] < pipes[l][r + 1]
      BY <1>2, <3>1, <3>2
    <3>. QED
      BY <2>2, <3>1, <3>3
  <2>. QED
    BY <2>1, <2>2
<1>6. ASSUME NEW m \in Launches, NEW p \in Piped(m)'
      PROVE  \E r \in Piped(m) : pipes'[m][p] = pipes[m][r]
  <2>1. CASE m = l
    <3>1. p + 1 \in Piped(l) /\ pipes'[l][p] = pipes[l][p + 1]
      BY <1>3, <1>6, <2>1
    <3>. QED
      BY <2>1, <3>1
  <2>2. CASE m # l
    BY <1>4, <1>6, <2>2
  <2>. QED
    BY <2>1, <2>2
<1>7. ASSUME NEW m \in Launches, NEW n \in Launches, m # n, NEW p \in Piped(m)', NEW r \in Piped(n)'
      PROVE  pipes'[m][p] # pipes'[n][r]
  <2>1. PICK a \in Piped(m) : pipes'[m][p] = pipes[m][a]
    BY <1>6, <1>7
  <2>2. PICK b \in Piped(n) : pipes'[n][r] = pipes[n][b]
    BY <1>6, <1>7
  <2>3. pipes[m][a] # pipes[n][b]
    BY <1>2, <1>7
  <2>. QED
    BY <2>1, <2>2, <2>3
<1>8. ASSUME NEW p \in Piped(l)'
      PROVE  Head(pipes[l]) < pipes'[l][p]
  <2>1. p \in Nat /\ p >= 1 /\ p + 1 \in Piped(l) /\ pipes'[l][p] = pipes[l][p + 1]
    BY <1>3, <1>8
  <2>2. 1 < p + 1
    BY <2>1
  <2>3. pipes[l][1] < pipes[l][p + 1]
    BY <1>1, <1>2, <2>1, <2>2
  <2>. QED
    BY <1>1, <2>1, <2>3
<1>9. ASSUME NEW m \in Launches, NEW p \in Piped(m)'
      PROVE  pipes'[m][p] # Head(pipes[l])
  <2>1. PICK a \in Piped(m) : pipes'[m][p] = pipes[m][a]
    BY <1>6, <1>9
  <2>2. CASE m = l
    <3>1. Head(pipes[l]) < pipes'[l][p]
      BY <1>8, <1>9, <2>2
    <3>2. pipes'[l][p] \in Nat /\ Head(pipes[l]) \in Nat
      BY <1>1, <1>2, <2>1, <2>2
    <3>3. \A x, y \in Nat : x < y => y # x
      OBVIOUS
    <3>. QED
      BY <2>2, <3>1, <3>2, <3>3
  <2>3. CASE m # l
    <3>1. pipes[m][a] # pipes[l][1]
      BY <1>1, <1>2, <2>3
    <3>. QED
      BY <1>1, <2>1, <3>1
  <2>. QED
    BY <2>2, <2>3
<1>10. \A m \in Launches : \A p \in Piped(m)' : IsPiped(m, pipes'[m][p])
  BY <1>6 DEF IsPiped
<1>. QED
  BY <1>5, <1>7, <1>8, <1>9, <1>10

\* What a line that is read leaves in its pipe, and what it is itself.
LEMMA PipeFacts ==
  ASSUME StreamTypes, LinesApart, NewestLast, NEW l \in Launches, pipes[l] # <<>>,
         pipes' = [pipes EXCEPT ![l] = Tail(@)], NEW h, h = Head(pipes[l])
  PROVE  /\ h \in Nat /\ h <= line /\ h # 0 /\ h \notin Gone
         /\ \A j \in Queued : queue[j] # h
         /\ \A m \in Launches : inHand[m] # h
         /\ \A m \in Launches : \A p \in Piped(m)' :
              /\ pipes'[m][p] \in WrittenLines /\ pipes'[m][p] \in Nat /\ pipes'[m][p] # h
              /\ pipes'[m][p] \notin Gone
              /\ \A j \in Queued : pipes'[m][p] # queue[j]
              /\ \A n \in Launches : pipes'[m][p] # inHand[n]
         /\ late = 0 =>
              /\ inHand[l] < h /\ \A j \in Queued : queue[j] < h
              /\ \A i \in lost : i < h
              /\ \A p \in Piped(l)' : h < pipes'[l][p]
              /\ \A m \in Launches : \A p \in Piped(m)' :
                   /\ inHand[m] < pipes'[m][p] /\ \A j \in Queued : queue[j] < pipes'[m][p]
                   /\ \A i \in lost : i < pipes'[m][p]
<1>1. 1 \in Piped(l) /\ h = pipes[l][1]
  BY PipeShrinks
<1>0. \A m \in Launches : \A p \in Piped(m)' : IsPiped(m, pipes'[m][p]) /\ pipes'[m][p] # h
  BY PipesStayApart
<1>2. /\ h \in Nat /\ h <= line /\ h # 0 /\ h \notin Gone
      /\ \A j \in Queued : queue[j] # h
      /\ \A m \in Launches : inHand[m] # h
  <2>1. h \in Nat /\ h <= line /\ h # 0
    BY <1>1, StreamFacts
  <2>. QED
    BY <1>1, <2>1 DEF LinesApart
<1>3. ASSUME NEW m \in Launches, NEW p \in Piped(m)'
      PROVE  /\ pipes'[m][p] \in WrittenLines /\ pipes'[m][p] \in Nat /\ pipes'[m][p] # h
             /\ pipes'[m][p] \notin Gone
             /\ \A j \in Queued : pipes'[m][p] # queue[j]
             /\ \A n \in Launches : pipes'[m][p] # inHand[n]
  <2>1. pipes'[m][p] # h /\ IsPiped(m, pipes'[m][p])
    BY <1>0, <1>3
  <2>2. PICK r \in Piped(m) : pipes'[m][p] = pipes[m][r]
    BY <2>1 DEF IsPiped
  <2>3. pipes[m][r] \in WrittenLines /\ pipes[m][r] \in Nat
    BY StreamFacts DEF StreamTypes
  <2>4. /\ pipes[m][r] \notin Gone
        /\ \A j \in Queued : pipes[m][r] # queue[j]
        /\ \A n \in Launches : pipes[m][r] # inHand[n]
    BY DEF LinesApart
  <2>. QED
    BY <2>1, <2>2, <2>3, <2>4
<1>4. ASSUME late = 0
      PROVE  /\ inHand[l] < h /\ \A j \in Queued : queue[j] < h
             /\ \A i \in lost : i < h
             /\ \A p \in Piped(l)' : h < pipes'[l][p]
  <2>1. \A p \in Piped(l)' : h < pipes'[l][p]
    BY PipesStayApart
  <2>. QED
    BY <1>1, <1>4, <2>1 DEF NewestLast
<1>5. ASSUME late = 0, NEW m \in Launches, NEW p \in Piped(m)'
      PROVE  /\ inHand[m] < pipes'[m][p] /\ \A j \in Queued : queue[j] < pipes'[m][p]
             /\ \A i \in lost : i < pipes'[m][p]
  <2>0. IsPiped(m, pipes'[m][p])
    BY <1>0, <1>5
  <2>1. PICK r \in Piped(m) : pipes'[m][p] = pipes[m][r]
    BY <2>0 DEF IsPiped
  <2>2. /\ inHand[m] < pipes[m][r] /\ \A j \in Queued : queue[j] < pipes[m][r]
        /\ \A i \in lost : i < pipes[m][r]
    BY <1>5 DEF NewestLast
  <2>. QED
    BY <2>1, <2>2
<1>. QED
  BY <1>2, <1>3, <1>4, <1>5

LEMMA PutKeepsLines ==
  ASSUME LinesInv, NEW l \in Launches, ReaderPuts(l)
  PROVE  LinesInv'
<1>1. StreamTypes /\ ReadersRun /\ LinesApart /\ Counted /\ NewestLast
  BY DEF LinesInv
<1>2. /\ readers[l] = "read" /\ pipes[l] # <<>> /\ archived' = archived + 1
      /\ pipes' = [pipes EXCEPT ![l] = Tail(@)]
      /\ UNCHANGED <<launch, leader, workers, localAt, late, line, taken, lost>>
  BY DEF ReaderPuts, groupVars, callVars
<1>3. PICK h : h = Head(pipes[l])
  OBVIOUS
<1>4. /\ h \in Nat /\ h <= line /\ h # 0 /\ h \notin Gone
      /\ \A j \in Queued : queue[j] # h
      /\ \A m \in Launches : inHand[m] # h
      /\ \A m \in Launches : \A p \in Piped(m)' :
           /\ pipes'[m][p] \in WrittenLines /\ pipes'[m][p] \in Nat /\ pipes'[m][p] # h
           /\ pipes'[m][p] \notin Gone
           /\ \A j \in Queued : pipes'[m][p] # queue[j]
           /\ \A n \in Launches : pipes'[m][p] # inHand[n]
  BY <1>1, <1>2, <1>3, PipeFacts, ZenonT(40)
<1>5. late = 0 =>
        /\ inHand[l] < h /\ \A j \in Queued : queue[j] < h
        /\ \A i \in lost : i < h
        /\ \A p \in Piped(l)' : h < pipes'[l][p]
        /\ \A m \in Launches : \A p \in Piped(m)' :
             /\ inHand[m] < pipes'[m][p] /\ \A j \in Queued : queue[j] < pipes'[m][p]
             /\ \A i \in lost : i < pipes'[m][p]
  BY <1>1, <1>2, <1>3, PipeFacts
<1>6. /\ \A m \in Launches : \A p, r \in Piped(m)' : p < r => pipes'[m][p] < pipes'[m][r]
      /\ \A m, n \in Launches : m # n =>
           \A p \in Piped(m)', r \in Piped(n)' : pipes'[m][p] # pipes'[n][r]
  BY <1>1, <1>2, PipesStayApart
<1>7. pipes' \in [Launches -> Seq(Nat)]
  BY <1>1, <1>2, PipeShrinks
<1>8. inHand[l] = 0 /\ (late = 0 => \A m \in Launches \ {l} : readers[m] = "off" /\ pipes[m] = <<>> /\ inHand[m] = 0)
  BY <1>1, <1>2 DEF ReadersRun
<1>9. pipes \in [Launches -> Seq(Nat)] /\ inHand \in [Launches -> Nat] /\ queue \in Seq(Nat)
      /\ readers \in [Launches -> {"off", "read", "full", "again"}]
      /\ line \in Nat /\ archived \in Nat /\ Len(queue) \in Nat /\ QueueSize \in Nat
  BY <1>1, StreamFacts DEF StreamTypes
<1>10. /\ \A m \in Launches \ {l} : pipes'[m] = pipes[m]
       /\ (late = 0 => \A m \in Launches : m # l => ~(\E p \in Piped(m)' : TRUE))
  <2>1. \A m \in Launches \ {l} : pipes'[m] = pipes[m]
    BY <1>2, <1>9
  <2>2. ASSUME late = 0, NEW m \in Launches, m # l PROVE ~(\E p \in Piped(m)' : TRUE)
    <3>1. Len(pipes'[m]) = 0
      BY <1>8, <2>1, <2>2
    <3>. QED
      BY <3>1 DEF Piped
  <2>. QED
    BY <2>1, <2>2
<1>11. Gone' = Gone /\ WrittenLines' = WrittenLines /\ late' = late
  BY <1>2 DEF Gone, WrittenLines
<1>12. CASE Len(queue) < QueueSize
  <2>1. queue' = Append(queue, h) /\ UNCHANGED <<readers, inHand>>
    BY <1>3, <1>12 DEF ReaderPuts
  <2>2. /\ queue' \in Seq(Nat) /\ Len(queue') = Len(queue) + 1
        /\ \A j \in Queued' : \/ j \in Queued /\ queue'[j] = queue[j]
                              \/ j = Len(queue) + 1 /\ queue'[j] = h
        /\ Cardinality(Places(queue))' = Cardinality(Places(queue)) + 1
    BY <1>1, <1>4, <2>1, QueueGrows
  <2>3. Holders' = Holders
    BY <2>1 DEF Holders
  <2>4. StreamTypes'
    <3>1. \A j \in Queued' : queue'[j] <= line'
      BY <1>1, <1>2, <1>4, <2>2 DEF StreamTypes
    <3>2. \A m \in Launches : /\ inHand'[m] <= line'
                              /\ \A p \in Piped(m)' : pipes'[m][p] \in WrittenLines'
      <4>1. \A m \in Launches : \A p \in Piped(m)' : pipes'[m][p] \in WrittenLines
        BY <1>4
      <4>. QED
        BY <1>1, <1>2, <1>11, <2>1, <4>1 DEF StreamTypes
    <3>. QED
      <4>1. archived' \in Nat /\ line' \in Nat /\ Len(queue') <= QueueSize
        BY <1>2, <1>9, <1>12, <2>2
      <4>2. taken' \subseteq WrittenLines' /\ lost' \subseteq WrittenLines' /\ late' \in Nat
        BY <1>1, <1>2, <1>11 DEF StreamTypes
      <4>. QED
        BY <1>7, <1>9, <2>1, <2>2, <3>1, <3>2, <4>1, <4>2 DEF StreamTypes
  <2>5. ReadersRun'
    <3>1. \A m \in Launches : readers[m] = "off" => m # l /\ pipes'[m] = <<>>
      BY <1>1, <1>2, <1>10 DEF ReadersRun
    <3>. QED
      BY <1>1, <1>2, <2>1, <3>1 DEF ReadersRun
  <2>6. LinesApart'
    <3>1. ASSUME NEW j \in Queued', NEW k \in Queued', queue'[j] = queue'[k]
          PROVE  j = k \/ queue'[j] = 0
      <4>1. CASE j \in Queued /\ queue'[j] = queue[j] /\ k \in Queued /\ queue'[k] = queue[k]
        BY <1>1, <3>1, <4>1 DEF LinesApart
      <4>2. CASE j = Len(queue) + 1 /\ queue'[j] = h
        BY <1>4, <2>2, <3>1, <4>2
      <4>3. CASE k = Len(queue) + 1 /\ queue'[k] = h
        BY <1>4, <2>2, <3>1, <4>3
      <4>. QED
        BY <2>2, <3>1, <4>1, <4>2, <4>3
    <3>2. \A j \in Queued' : queue'[j] \notin Gone'
      BY <1>1, <1>4, <1>11, <2>2 DEF LinesApart
    <3>3. ASSUME NEW m \in Launches
          PROVE  /\ inHand'[m] \notin Gone'
                 /\ \A j \in Queued' : inHand'[m] = queue'[j] => inHand'[m] = 0
      <4>1. inHand'[m] = inHand[m] /\ inHand[m] # h
        BY <1>4, <2>1
      <4>2. inHand[m] \notin Gone /\ \A j \in Queued : inHand[m] = queue[j] => inHand[m] = 0
        BY <1>1 DEF LinesApart
      <4>. QED
        BY <1>11, <2>2, <4>1, <4>2
    <3>4. ASSUME NEW m \in Launches, NEW p \in Piped(m)'
          PROVE  /\ pipes'[m][p] \notin Gone'
                 /\ \A j \in Queued' : pipes'[m][p] # queue'[j]
                 /\ \A n \in Launches : pipes'[m][p] # inHand'[n]
      BY <1>4, <1>11, <2>1, <2>2, <3>4, ZenonT(40)
    <3>. QED
      BY <1>1, <1>6, <2>1, <3>1, <3>2, <3>3, <3>4 DEF LinesApart
  <2>7. Counted'
    BY <1>1, <1>2, <2>2, <2>3, StreamFacts DEF Counted
  <2>8. NewestLast'
    <3>. SUFFICES ASSUME late = 0 PROVE NewestLast'
      BY <1>11 DEF NewestLast
    <3>1. ASSUME NEW j \in Queued', NEW k \in Queued', j < k, queue'[k] # 0
          PROVE  queue'[j] < queue'[k]
      <4>1. j \in Queued /\ queue'[j] = queue[j]
        BY <1>9, <2>2, <3>1 DEF Queued
      <4>. QED
        BY <1>1, <1>5, <2>2, <3>1, <4>1 DEF NewestLast
    <3>2. ASSUME NEW m \in Launches
          PROVE  inHand'[m] = 0 /\ readers'[m] # "again"
      BY <1>2, <1>8, <2>1
    <3>3. ASSUME NEW m \in Launches, NEW p \in Piped(m)'
          PROVE  /\ inHand'[m] < pipes'[m][p] /\ \A j \in Queued' : queue'[j] < pipes'[m][p]
                 /\ \A i \in lost' : i < pipes'[m][p]
      <4>1. m = l
        BY <1>10, <3>3
      <4>. QED
        BY <1>2, <1>5, <2>1, <2>2, <3>3, <4>1
    <3>4. ASSUME NEW i \in lost', NEW j \in Queued', queue'[j] # 0
          PROVE  i < queue'[j]
      BY <1>1, <1>2, <1>5, <2>2, <3>4 DEF NewestLast
    <3>. QED
      BY <3>1, <3>2, <3>3, <3>4 DEF NewestLast
  <2>. QED
    BY <2>4, <2>5, <2>6, <2>7, <2>8 DEF LinesInv
<1>13. CASE ~(Len(queue) < QueueSize)
  <2>1. /\ UNCHANGED queue /\ readers' = [readers EXCEPT ![l] = "full"]
        /\ inHand' = [inHand EXCEPT ![l] = h]
    BY <1>3, <1>13 DEF ReaderPuts, Reader
  <2>2. /\ inHand' \in [Launches -> Nat] /\ inHand'[l] = h
        /\ readers' \in [Launches -> {"off", "read", "full", "again"}] /\ readers'[l] = "full"
        /\ \A m \in Launches \ {l} : inHand'[m] = inHand[m] /\ readers'[m] = readers[m]
    BY <1>4, <1>9, <2>1
  <2>3. Queued' = Queued /\ Places(queue)' = Places(queue)
    BY <2>1 DEF Queued, Places
  <2>4. Cardinality(Holders)' = Cardinality(Holders) + 1
    <3>1. Holders' = Holders \cup {l} /\ l \notin Holders
      BY <1>4, <1>8, <2>2 DEF Holders
    <3>. QED
      BY <1>1, <3>1, StreamFacts, FS_AddElement
  <2>5. StreamTypes'
    <3>1. \A m \in Launches : inHand'[m] <= line'
      BY <1>1, <1>2, <1>4, <2>2 DEF StreamTypes
    <3>2. \A m \in Launches : \A p \in Piped(m)' : pipes'[m][p] \in WrittenLines'
      BY <1>4, <1>11
    <3>. QED
      <4>1. archived' \in Nat /\ line' \in Nat
        BY <1>2, <1>9
      <4>2. taken' \subseteq WrittenLines' /\ lost' \subseteq WrittenLines' /\ late' \in Nat
        BY <1>1, <1>2, <1>11 DEF StreamTypes
      <4>3. queue' \in Seq(Nat) /\ Len(queue') <= QueueSize /\ \A j \in Queued' : queue'[j] <= line'
        BY <1>1, <1>2, <2>1, <2>3 DEF StreamTypes
      <4>. QED
        BY <1>7, <2>2, <3>1, <3>2, <4>1, <4>2, <4>3 DEF StreamTypes
  <2>6. ReadersRun'
    <3>1. \A m \in Launches : readers'[m] = "off" => m # l /\ readers[m] = "off" /\ pipes'[m] = <<>>
      BY <1>1, <1>2, <1>10, <2>2 DEF ReadersRun
    <3>2. \A m \in Launches : inHand'[m] # 0 <=> readers'[m] \in {"full", "again"}
      BY <1>1, <1>4, <2>2 DEF ReadersRun
    <3>3. \A m \in Launches : m > launch => m # l
      BY <1>1, <1>2 DEF ReadersRun
    <3>4. launch > 0 /\ readers'[launch] = "off" => readers[launch] = "off"
      BY <1>9, <2>1
    <3>. QED
      BY <1>1, <1>2, <2>2, <3>1, <3>2, <3>3, <3>4 DEF ReadersRun
  <2>7. LinesApart'
    <3>1. ASSUME NEW m \in Launches, NEW n \in Launches, inHand'[m] = inHand'[n]
          PROVE  m = n \/ inHand'[m] = 0
      BY <1>1, <1>4, <2>2, <3>1 DEF LinesApart
    <3>2. ASSUME NEW m \in Launches
          PROVE  /\ inHand'[m] \notin Gone'
                 /\ \A j \in Queued' : inHand'[m] = queue'[j] => inHand'[m] = 0
      BY <1>1, <1>4, <1>11, <2>1, <2>2, <2>3 DEF LinesApart
    <3>3. ASSUME NEW m \in Launches, NEW p \in Piped(m)'
          PROVE  /\ pipes'[m][p] \notin Gone'
                 /\ \A j \in Queued' : pipes'[m][p] # queue'[j]
                 /\ \A n \in Launches : pipes'[m][p] # inHand'[n]
      BY <1>4, <1>11, <2>1, <2>2, <2>3, <3>3
    <3>. QED
      BY <1>1, <1>6, <1>11, <2>1, <2>3, <3>1, <3>2, <3>3 DEF LinesApart
  <2>8. Counted'
    BY <1>1, <1>2, <2>3, <2>4, StreamFacts DEF Counted
  <2>9. NewestLast'
    <3>. SUFFICES ASSUME late = 0 PROVE NewestLast'
      BY <1>11 DEF NewestLast
    <3>1. ASSUME NEW m \in Launches, inHand'[m] # 0
          PROVE  m = l /\ \A j \in Queued' : queue'[j] < inHand'[m]
      BY <1>5, <1>8, <2>1, <2>2, <2>3, <3>1
    <3>2. ASSUME NEW m \in Launches
          PROVE  readers'[m] # "again"
      BY <1>8, <2>2
    <3>3. ASSUME NEW m \in Launches, NEW p \in Piped(m)'
          PROVE  /\ inHand'[m] < pipes'[m][p] /\ \A j \in Queued' : queue'[j] < pipes'[m][p]
                 /\ \A i \in lost' : i < pipes'[m][p]
      <4>1. m = l
        BY <1>10, <3>3
      <4>. QED
        BY <1>2, <1>5, <2>1, <2>2, <2>3, <3>3, <4>1
    <3>4. ASSUME NEW i \in lost', NEW m \in Launches, inHand'[m] # 0
          PROVE  i < inHand'[m]
      BY <1>2, <1>5, <2>2, <3>1, <3>4
    <3>. QED
      BY <1>1, <1>2, <2>1, <2>3, <3>1, <3>2, <3>3, <3>4 DEF NewestLast
  <2>. QED
    BY <2>5, <2>6, <2>7, <2>8, <2>9 DEF LinesInv
<1>. QED
  BY <1>12, <1>13

\* The oldest line of the queue goes to the monitor, or is dropped.
LEMMA ShrinkKeepsLines ==
  ASSUME StreamTypes, LinesApart, Counted, NewestLast, queue # <<>>, queue' = Tail(queue),
         NEW h, h = Head(queue), UNCHANGED <<pipes, inHand, archived, line, late>>,
         \/ taken' = taken \cup ({h} \ {0}) /\ lost' = lost
         \/ lost' = lost \cup ({h} \ {0}) /\ taken' = taken,
         readers' \in [Launches -> {"off", "read", "full", "again"}]
  PROVE  StreamTypes' /\ LinesApart' /\ Counted' /\ NewestLast'
<1>1. /\ queue' \in Seq(Nat) /\ Len(queue') = Len(queue) - 1
      /\ 1 \in Queued /\ h = queue[1] /\ h \in Nat
      /\ \A j \in Queued' : j \in Nat /\ j >= 1 /\ j + 1 \in Queued /\ queue'[j] = queue[j + 1]
      /\ Cardinality(Places(queue)) = Cardinality(Places(queue))' + (IF h = 0 THEN 0 ELSE 1)
  BY QueueShrinks
<1>2. /\ Len(queue) \in Nat /\ Len(queue) <= QueueSize /\ QueueSize \in Nat \ {0}
      /\ line \in Nat /\ h <= line /\ 0 \notin Gone /\ archived \in Nat
      /\ IsFiniteSet(taken) /\ IsFiniteSet(lost) /\ Cardinality(taken) \in Nat
      /\ Cardinality(lost) \in Nat /\ Cardinality(Holders) \in Nat
      /\ h \notin Gone
  BY <1>1, StreamFacts DEF StreamTypes, LinesApart
<1>0. /\ \A x, y \in Nat : x + 1 = y + 1 => x = y
      /\ \A x \in Nat : x >= 1 => 1 < x + 1 /\ x + 1 # 1
  OBVIOUS
<1>3. Gone' = Gone \cup ({h} \ {0}) /\ Holders' = Holders /\ WrittenLines' = WrittenLines
      /\ \A m \in Launches : Piped(m)' = Piped(m)
  BY DEF Gone, Holders, WrittenLines, Piped
<1>4. StreamTypes'
  <2>1. taken' \subseteq WrittenLines' /\ lost' \subseteq WrittenLines'
    <3>1. h = 0 \/ h \in WrittenLines
      BY <1>1, <1>2 DEF WrittenLines
    <3>. QED
      BY <1>3, <3>1 DEF StreamTypes
  <2>2. \A j \in Queued' : queue'[j] <= line'
    BY <1>1 DEF StreamTypes
  <2>3. Len(queue') <= QueueSize
    BY <1>1, <1>2
  <2>. QED
    BY <1>1, <1>3, <2>1, <2>2, <2>3 DEF StreamTypes
<1>5. LinesApart'
  <2>1. ASSUME NEW j \in Queued', NEW k \in Queued', queue'[j] = queue'[k]
        PROVE  j = k \/ queue'[j] = 0
    <3>1. /\ j \in Nat /\ j + 1 \in Queued /\ queue'[j] = queue[j + 1]
          /\ k \in Nat /\ k + 1 \in Queued /\ queue'[k] = queue[k + 1]
      BY <1>1, <2>1
    <3>2. j + 1 = k + 1 \/ queue[j + 1] = 0
      BY <2>1, <3>1 DEF LinesApart
    <3>. QED
      BY <1>0, <3>1, <3>2
  <2>2. ASSUME NEW j \in Queued'
        PROVE  queue'[j] \notin Gone'
    <3>1. j \in Nat /\ j >= 1 /\ j + 1 \in Queued /\ queue'[j] = queue[j + 1]
      BY <1>1, <2>2
    <3>2. queue[j + 1] \notin Gone /\ (queue[j + 1] = h => h = 0)
      BY <1>0, <1>1, <3>1 DEF LinesApart
    <3>. QED
      BY <1>3, <3>1, <3>2
  <2>3. ASSUME NEW m \in Launches
        PROVE  /\ inHand'[m] \notin Gone'
               /\ \A j \in Queued' : inHand'[m] = queue'[j] => inHand'[m] = 0
    <3>1. inHand[m] \notin Gone /\ (inHand[m] = h => inHand[m] = 0)
      BY <1>1 DEF LinesApart
    <3>2. ASSUME NEW j \in Queued', inHand[m] = queue'[j] PROVE inHand[m] = 0
      <4>1. j + 1 \in Queued /\ queue'[j] = queue[j + 1]
        BY <1>1, <3>2
      <4>. QED
        BY <3>2, <4>1 DEF LinesApart
    <3>. QED
      BY <1>3, <3>1, <3>2
  <2>4. ASSUME NEW m \in Launches, NEW p \in Piped(m)
        PROVE  /\ pipes'[m][p] \notin Gone'
               /\ \A j \in Queued' : pipes'[m][p] # queue'[j]
               /\ \A n \in Launches : pipes'[m][p] # inHand'[n]
    <3>1. pipes[m][p] \notin Gone /\ pipes[m][p] # h /\ \A n \in Launches : pipes[m][p] # inHand[n]
      BY <1>1, <2>4 DEF LinesApart
    <3>2. ASSUME NEW j \in Queued' PROVE pipes[m][p] # queue'[j]
      <4>1. j + 1 \in Queued /\ queue'[j] = queue[j + 1]
        BY <1>1, <3>2
      <4>2. pipes[m][p] # queue[j + 1]
        BY <2>4, <4>1 DEF LinesApart
      <4>. QED
        BY <4>1, <4>2
    <3>. QED
      BY <1>3, <3>1, <3>2
  <2>5. /\ \A m, n \in Launches : inHand'[m] = inHand'[n] => m = n \/ inHand'[m] = 0
        /\ \A m \in Launches : \A p, r \in Piped(m)' : p < r => pipes'[m][p] < pipes'[m][r]
        /\ \A m, n \in Launches : m # n =>
             \A p \in Piped(m)', r \in Piped(n)' : pipes'[m][p] # pipes'[n][r]
    BY <1>3 DEF LinesApart
  <2>6. \A m \in Launches : \A p \in Piped(m)' :
          /\ pipes'[m][p] \notin Gone'
          /\ \A j \in Queued' : pipes'[m][p] # queue'[j]
          /\ \A n \in Launches : pipes'[m][p] # inHand'[n]
    BY <1>3, <2>4
  <2>. QED
    BY <2>1, <2>2, <2>3, <2>5, <2>6 DEF LinesApart
<1>6. Counted'
  <2>. DEFINE a == Cardinality(taken)
              b == Cardinality(lost)
              c == Cardinality(Places(queue'))
              d == Cardinality(Holders)
  <2>1. a \in Nat /\ b \in Nat /\ c \in Nat /\ d \in Nat
    BY <1>1, <1>2, PlacesAreFinite
  <2>2. archived = a + b + (c + (IF h = 0 THEN 0 ELSE 1)) + d
    BY <1>1 DEF Counted, Places
  <2>3. Cardinality(taken') + Cardinality(lost') = a + b + (IF h = 0 THEN 0 ELSE 1)
    <3>1. CASE h = 0
      <4>1. taken' = taken /\ lost' = lost
        BY <3>1
      <4>. QED
        BY <2>1, <3>1, <4>1
    <3>2. CASE h # 0
      <4>1. h \notin taken /\ h \notin lost
        BY <1>2 DEF Gone
      <4>2. Cardinality(taken \cup {h}) = a + 1 /\ Cardinality(lost \cup {h}) = b + 1
        BY <1>2, <4>1, FS_AddElement
      <4>3. CASE taken' = taken \cup {h} /\ lost' = lost
        BY <2>1, <3>2, <4>2, <4>3
      <4>4. CASE lost' = lost \cup {h} /\ taken' = taken
        BY <2>1, <3>2, <4>2, <4>4
      <4>. QED
        BY <3>2, <4>3, <4>4
    <3>. QED
      BY <3>1, <3>2
  <2>4. archived' = archived /\ Cardinality(Holders)' = d /\ Cardinality(Places(queue))' = c
    BY <1>3 DEF Places
  <2>. HIDE DEF a, b, c, d
  <2>5. archived' = Cardinality(taken') + Cardinality(lost') + c + d
    BY <2>1, <2>2, <2>3, <2>4
  <2>. QED
    BY <2>4, <2>5 DEF Counted
<1>7. NewestLast'
  <2>. SUFFICES ASSUME late = 0 PROVE NewestLast'
    BY DEF NewestLast
  <2>1. ASSUME NEW j \in Queued', NEW k \in Queued', j < k, queue'[k] # 0
        PROVE  queue'[j] < queue'[k]
    <3>1. /\ j \in Nat /\ j + 1 \in Queued /\ queue'[j] = queue[j + 1]
          /\ k \in Nat /\ k + 1 \in Queued /\ queue'[k] = queue[k + 1]
      BY <1>1, <2>1
    <3>2. j + 1 < k + 1
      BY <2>1, <3>1
    <3>. QED
      BY <2>1, <3>1, <3>2 DEF NewestLast
  <2>2. ASSUME NEW m \in Launches
        PROVE  /\ inHand[m] # 0 => \A j \in Queued' : queue'[j] < inHand[m]
               /\ \A p \in Piped(m) : inHand[m] < pipes[m][p] /\ \A j \in Queued' : queue'[j] < pipes[m][p]
    BY <1>1, <2>2 DEF NewestLast
  <2>3. ASSUME NEW i \in lost'
        PROVE  /\ \A j \in Queued' : queue'[j] # 0 => i < queue'[j]
               /\ \A m \in Launches : /\ inHand[m] # 0 => i < inHand[m]
                                      /\ \A p \in Piped(m) : i < pipes[m][p]
    <3>1. CASE i \in lost
      <4>1. ASSUME NEW j \in Queued', queue'[j] # 0 PROVE i < queue'[j]
        BY <1>1, <3>1, <4>1 DEF NewestLast
      <4>. QED
        BY <3>1, <4>1 DEF NewestLast
    <3>2. CASE i = h
      <4>1. ASSUME NEW j \in Queued', queue'[j] # 0 PROVE i < queue'[j]
        <5>1. j \in Nat /\ j >= 1 /\ j + 1 \in Queued /\ queue'[j] = queue[j + 1]
          BY <1>1, <4>1
        <5>. QED
          BY <1>0, <1>1, <3>2, <4>1, <5>1 DEF NewestLast
      <4>. QED
        BY <1>1, <3>2, <4>1 DEF NewestLast
    <3>. QED
      BY <2>3, <3>1, <3>2
  <2>4. Len(queue') < QueueSize
    BY <1>1, <1>2
  <2>. QED
    BY <1>3, <2>1, <2>2, <2>3, <2>4 DEF NewestLast
<1>. QED
  BY <1>4, <1>5, <1>6, <1>7

LEMMA TakeKeepsLines ==
  ASSUME LinesInv, MonitorTakes
  PROVE  LinesInv'
<1>1. StreamTypes /\ ReadersRun /\ LinesApart /\ Counted /\ NewestLast
  BY DEF LinesInv
<1>2. /\ queue # <<>> /\ queue' = Tail(queue) /\ taken' = taken \cup ({Head(queue)} \ {0})
      /\ UNCHANGED <<launch, leader, workers, localAt, late, pipes, readers, inHand, archived, line, lost>>
  BY DEF MonitorTakes, groupVars, callVars, Sentinel
<1>3. PICK h : h = Head(queue)
  OBVIOUS
<1>4. readers' \in [Launches -> {"off", "read", "full", "again"}]
  BY <1>1, <1>2 DEF StreamTypes
<1>5. StreamTypes' /\ LinesApart' /\ Counted' /\ NewestLast'
  BY <1>1, <1>2, <1>3, <1>4, ShrinkKeepsLines
<1>6. ReadersRun'
  BY <1>1, <1>2 DEF ReadersRun
<1>. QED
  BY <1>5, <1>6 DEF LinesInv

LEMMA DropKeepsLines ==
  ASSUME LinesInv, NEW l \in Launches, ReaderDrops(l)
  PROVE  LinesInv'
<1>1. StreamTypes /\ ReadersRun /\ LinesApart /\ Counted /\ NewestLast
  BY DEF LinesInv
<1>2. /\ readers[l] = "full" /\ readers' = [readers EXCEPT ![l] = "again"]
      /\ UNCHANGED <<launch, leader, workers, localAt, late, pipes, inHand, archived, line, taken>>
  BY DEF ReaderDrops, groupVars, callVars, Reader
<1>3. /\ readers' \in [Launches -> {"off", "read", "full", "again"}] /\ readers'[l] = "again"
      /\ \A m \in Launches \ {l} : readers'[m] = readers[m]
  BY <1>1, <1>2 DEF StreamTypes
<1>4. ReadersRun'
  <2>1. \A m \in Launches : /\ readers'[m] = "off" <=> readers[m] = "off"
                            /\ readers'[m] \in {"full", "again"} <=> readers[m] \in {"full", "again"}
    BY <1>2, <1>3
  <2>3. readers'[launch] = "off" => readers[launch] = "off"
    BY <1>1, <1>2, <2>1 DEF StreamTypes
  <2>. QED
    BY <1>1, <1>2, <2>1, <2>3 DEF ReadersRun
<1>5. StreamTypes' /\ LinesApart' /\ Counted' /\ NewestLast'
  <2>1. CASE queue = <<>>
    <3>1. UNCHANGED <<queue, lost>>
      BY <2>1 DEF ReaderDrops
    <3>2. Queued' = Queued /\ Gone' = Gone /\ Holders' = Holders /\ WrittenLines' = WrittenLines
          /\ Places(queue)' = Places(queue) /\ \A m \in Launches : Piped(m)' = Piped(m)
      BY <1>2, <3>1 DEF Queued, Gone, Holders, WrittenLines, Places, Piped
    <3>3. Len(queue') < QueueSize
      BY <2>1, <3>1, LocalReaderAssumption
    <3>4. StreamTypes'
      BY <1>1, <1>2, <1>3, <3>1, <3>2 DEF StreamTypes
    <3>5. LinesApart' /\ Counted'
      BY <1>1, <1>2, <3>1, <3>2 DEF LinesApart, Counted
    <3>6. NewestLast'
      BY <1>1, <1>2, <3>1, <3>2, <3>3 DEF NewestLast
    <3>. QED
      BY <3>4, <3>5, <3>6
  <2>2. CASE queue # <<>>
    <3>1. queue' = Tail(queue) /\ lost' = lost \cup ({Head(queue)} \ {0})
      BY <2>2 DEF ReaderDrops, Sentinel
    <3>2. PICK h : h = Head(queue)
      OBVIOUS
    <3>. QED
      BY <1>1, <1>2, <1>3, <2>2, <3>1, <3>2, ShrinkKeepsLines
  <2>. QED
    BY <2>1, <2>2
<1>. QED
  BY <1>4, <1>5 DEF LinesInv

\* The line a reader held takes its place, or is dropped when another was quicker.
LEMMA PutAgainKeepsLines ==
  ASSUME LinesInv, NEW l \in Launches, ReaderPutsAgain(l)
  PROVE  LinesInv'
<1>1. StreamTypes /\ ReadersRun /\ LinesApart /\ Counted /\ NewestLast
  BY DEF LinesInv
<1>2. /\ readers[l] = "again" /\ readers' = [readers EXCEPT ![l] = "read"]
      /\ inHand' = [inHand EXCEPT ![l] = 0]
      /\ UNCHANGED <<launch, leader, workers, localAt, late, pipes, archived, line, taken>>
  BY DEF ReaderPutsAgain, groupVars, callVars, Reader
<1>3. PICK h : h = inHand[l]
  OBVIOUS
<1>4. /\ h \in Nat /\ h <= line /\ h # 0 /\ h \notin Gone
      /\ \A j \in Queued : queue[j] # h
      /\ \A m \in Launches \ {l} : inHand[m] # h
      /\ \A m \in Launches : \A p \in Piped(m) : pipes[m][p] # h
  <2>1. h \in Nat /\ h <= line
    BY <1>1, <1>3, StreamFacts
  <2>2. h # 0
    BY <1>1, <1>2, <1>3 DEF ReadersRun
  <2>. QED
    BY <1>1, <1>3, <2>1, <2>2 DEF LinesApart
<1>5. /\ readers' \in [Launches -> {"off", "read", "full", "again"}] /\ readers'[l] = "read"
      /\ inHand' \in [Launches -> Nat] /\ inHand'[l] = 0
      /\ \A m \in Launches \ {l} : readers'[m] = readers[m] /\ inHand'[m] = inHand[m]
  BY <1>1, <1>2 DEF StreamTypes
<1>6. /\ queue \in Seq(Nat) /\ Len(queue) \in Nat /\ QueueSize \in Nat /\ line \in Nat
      /\ Len(queue) <= QueueSize /\ 0 \notin Gone
      /\ \A j \in Queued : queue[j] \in Nat /\ queue[j] <= line
      /\ \A m \in Launches : \A p \in Piped(m) : pipes[m][p] \in Nat /\ pipes[m][p] # 0
  BY <1>1, StreamFacts DEF StreamTypes
<1>7. WrittenLines' = WrittenLines /\ \A m \in Launches : Piped(m)' = Piped(m)
  BY <1>2 DEF WrittenLines, Piped
<1>8. ReadersRun'
  <2>1. \A m \in Launches : /\ readers'[m] = "off" <=> readers[m] = "off"
                            /\ inHand'[m] # 0 <=> readers'[m] \in {"full", "again"}
    BY <1>1, <1>2, <1>5 DEF ReadersRun
  <2>2. launch > 0 /\ readers'[launch] = "off" => readers[launch] = "off"
    BY <1>1, <1>2, <1>5 DEF StreamTypes
  <2>. QED
    BY <1>1, <1>2, <2>1, <2>2 DEF ReadersRun
<1>9. Cardinality(Holders)' = Cardinality(Holders) - 1 /\ Cardinality(Holders) \in Nat
      /\ Cardinality(Holders)' \in Nat
  <2>1. Holders' = Holders \ {l} /\ l \in Holders
    BY <1>3, <1>4, <1>5 DEF Holders
  <2>2. IsFiniteSet(Holders) /\ IsFiniteSet(Holders \ {l})
    BY <1>1, StreamFacts, FS_RemoveElement
  <2>. QED
    BY <2>1, <2>2, FS_RemoveElement, FS_CardinalityType
<1>10. \A m, n \in Launches : inHand'[m] = inHand'[n] => m = n \/ inHand'[m] = 0
  BY <1>1, <1>5 DEF LinesApart
<1>11. late = 0 => \A m \in Launches : /\ inHand'[m] = 0 /\ readers'[m] # "again"
                                       /\ m # l => Piped(m) = {}
  <2>1. ASSUME late = 0, NEW m \in Launches, m # l
        PROVE  inHand[m] = 0 /\ readers[m] = "off" /\ Piped(m) = {}
    <3>1. readers[m] = "off" /\ pipes[m] = <<>> /\ inHand[m] = 0
      BY <1>1, <1>2, <2>1 DEF ReadersRun
    <3>2. Len(pipes[m]) = 0
      BY <3>1
    <3>. QED
      BY <3>1, <3>2 DEF Piped
  <2>. QED
    BY <1>5, <2>1
<1>12. CASE Len(queue) < QueueSize
  <2>1. queue' = Append(queue, h) /\ lost' = lost
    BY <1>3, <1>12 DEF ReaderPutsAgain
  <2>2. /\ queue' \in Seq(Nat) /\ Len(queue') = Len(queue) + 1
        /\ \A j \in Queued' : \/ j \in Queued /\ queue'[j] = queue[j]
                              \/ j = Len(queue) + 1 /\ queue'[j] = h
        /\ Cardinality(Places(queue))' = Cardinality(Places(queue)) + 1
    BY <1>1, <1>4, <2>1, QueueGrows
  <2>3. Gone' = Gone
    BY <1>2, <2>1 DEF Gone
  <2>4. StreamTypes'
    <3>1. \A j \in Queued' : queue'[j] <= line'
      BY <1>2, <1>4, <1>6, <2>2
    <3>2. \A m \in Launches : inHand'[m] <= line' /\ \A p \in Piped(m)' : pipes'[m][p] \in WrittenLines'
      BY <1>1, <1>2, <1>5, <1>6, <1>7 DEF StreamTypes
    <3>3. Len(queue') <= QueueSize
      BY <1>6, <1>12, <2>2
    <3>. QED
      BY <1>1, <1>2, <1>5, <1>7, <2>1, <2>2, <3>1, <3>2, <3>3 DEF StreamTypes
  <2>5. LinesApart'
    <3>1. ASSUME NEW j \in Queued', NEW k \in Queued', queue'[j] = queue'[k]
          PROVE  j = k \/ queue'[j] = 0
      <4>1. CASE j \in Queued /\ queue'[j] = queue[j] /\ k \in Queued /\ queue'[k] = queue[k]
        BY <1>1, <3>1, <4>1 DEF LinesApart
      <4>2. CASE j = Len(queue) + 1 /\ queue'[j] = h
        BY <1>4, <2>2, <3>1, <4>2
      <4>3. CASE k = Len(queue) + 1 /\ queue'[k] = h
        BY <1>4, <2>2, <3>1, <4>3
      <4>. QED
        BY <2>2, <3>1, <4>1, <4>2, <4>3
    <3>2. \A j \in Queued' : queue'[j] \notin Gone'
      BY <1>1, <1>4, <2>2, <2>3 DEF LinesApart
    <3>3. ASSUME NEW m \in Launches
          PROVE  /\ inHand'[m] \notin Gone'
                 /\ \A j \in Queued' : inHand'[m] = queue'[j] => inHand'[m] = 0
      <4>1. CASE m = l
        BY <1>5, <1>6, <2>3, <4>1
      <4>2. CASE m # l
        <5>1. inHand'[m] = inHand[m] /\ inHand[m] # h
          BY <1>4, <1>5, <4>2
        <5>2. inHand[m] \notin Gone /\ \A j \in Queued : inHand[m] = queue[j] => inHand[m] = 0
          BY <1>1 DEF LinesApart
        <5>. QED
          BY <2>2, <2>3, <5>1, <5>2
      <4>. QED
        BY <4>1, <4>2
    <3>4. ASSUME NEW m \in Launches, NEW p \in Piped(m)
          PROVE  /\ pipes'[m][p] \notin Gone'
                 /\ \A j \in Queued' : pipes'[m][p] # queue'[j]
                 /\ \A n \in Launches : pipes'[m][p] # inHand'[n]
      <4>1. /\ pipes[m][p] \notin Gone /\ \A j \in Queued : pipes[m][p] # queue[j]
            /\ \A n \in Launches : pipes[m][p] # inHand[n]
        BY <1>1 DEF LinesApart
      <4>2. pipes[m][p] # h /\ pipes[m][p] # 0
        BY <1>4, <1>6
      <4>. QED
        BY <1>2, <1>5, <2>2, <2>3, <4>1, <4>2
    <3>5. \A m \in Launches : \A p \in Piped(m)' :
            /\ pipes'[m][p] \notin Gone'
            /\ \A j \in Queued' : pipes'[m][p] # queue'[j]
            /\ \A n \in Launches : pipes'[m][p] # inHand'[n]
      BY <1>7, <3>4
    <3>6. /\ \A m \in Launches : \A p, r \in Piped(m)' : p < r => pipes'[m][p] < pipes'[m][r]
          /\ \A m, n \in Launches : m # n =>
               \A p \in Piped(m)', r \in Piped(n)' : pipes'[m][p] # pipes'[n][r]
      BY <1>1, <1>2, <1>7 DEF LinesApart
    <3>. QED
      BY <1>10, <3>1, <3>2, <3>3, <3>5, <3>6 DEF LinesApart
  <2>6. Counted'
    BY <1>1, <1>2, <1>9, <2>1, <2>2, StreamFacts DEF Counted
  <2>7. NewestLast'
    <3>. SUFFICES ASSUME late = 0 PROVE NewestLast'
      BY <1>2 DEF NewestLast
    <3>1. \A j \in Queued : queue[j] < h
      BY <1>1, <1>3, <1>4 DEF NewestLast
    <3>2. ASSUME NEW j \in Queued', NEW k \in Queued', j < k, queue'[k] # 0
          PROVE  queue'[j] < queue'[k]
      <4>0. j # Len(queue) + 1
        <5>1. j \in Nat /\ k \in Nat /\ k <= Len(queue) + 1
          BY <1>6, <2>2 DEF Queued
        <5>. QED
          BY <1>6, <3>2, <5>1
      <4>1. j \in Queued /\ queue'[j] = queue[j]
        BY <2>2, <4>0
      <4>. QED
        BY <1>1, <2>2, <3>1, <3>2, <4>1 DEF NewestLast
    <3>3. ASSUME NEW m \in Launches, NEW p \in Piped(m)
          PROVE  /\ inHand'[m] < pipes'[m][p] /\ \A j \in Queued' : queue'[j] < pipes'[m][p]
                 /\ \A i \in lost : i < pipes'[m][p]
      <4>1. m = l
        BY <1>11, <3>3
      <4>2. h < pipes[l][p] /\ (\A j \in Queued : queue[j] < pipes[l][p]) /\ \A i \in lost : i < pipes[l][p]
        BY <1>1, <1>3, <3>3, <4>1 DEF NewestLast
      <4>3. 0 < pipes[l][p]
        BY <1>6, <3>3, <4>1
      <4>. QED
        BY <1>2, <1>5, <2>2, <4>1, <4>2, <4>3
    <3>4. ASSUME NEW i \in lost, NEW j \in Queued', queue'[j] # 0 PROVE i < queue'[j]
      BY <1>1, <1>3, <1>4, <2>2, <3>4 DEF NewestLast
    <3>. QED
      BY <1>7, <1>11, <2>1, <3>2, <3>3, <3>4 DEF NewestLast
  <2>. QED
    BY <1>8, <2>4, <2>5, <2>6, <2>7 DEF LinesInv
<1>13. CASE ~(Len(queue) < QueueSize)
  <2>1. queue' = queue /\ lost' = lost \cup {h}
    BY <1>3, <1>13 DEF ReaderPutsAgain
  <2>2. Queued' = Queued /\ Places(queue)' = Places(queue) /\ Gone' = Gone \cup {h}
    BY <1>2, <2>1 DEF Queued, Places, Gone
  <2>3. late # 0
    BY <1>1, <1>2, <1>13 DEF NewestLast
  <2>4. StreamTypes'
    <3>1. h \in WrittenLines
      BY <1>4, <1>6 DEF WrittenLines
    <3>2. \A m \in Launches : inHand'[m] <= line' /\ \A p \in Piped(m)' : pipes'[m][p] \in WrittenLines'
      BY <1>1, <1>2, <1>5, <1>6, <1>7 DEF StreamTypes
    <3>. QED
      BY <1>1, <1>2, <1>5, <1>7, <2>1, <2>2, <3>1, <3>2 DEF StreamTypes
  <2>5. LinesApart'
    <3>1. \A j \in Queued' : queue'[j] \notin Gone'
      BY <1>1, <1>4, <2>1, <2>2 DEF LinesApart
    <3>2. ASSUME NEW m \in Launches
          PROVE  /\ inHand'[m] \notin Gone'
                 /\ \A j \in Queued' : inHand'[m] = queue'[j] => inHand'[m] = 0
      <4>1. CASE m = l
        BY <1>4, <1>5, <1>6, <2>2, <4>1
      <4>2. CASE m # l
        BY <1>1, <1>4, <1>5, <2>1, <2>2, <4>2 DEF LinesApart
      <4>. QED
        BY <4>1, <4>2
    <3>3. ASSUME NEW m \in Launches, NEW p \in Piped(m)
          PROVE  /\ pipes'[m][p] \notin Gone'
                 /\ \A j \in Queued' : pipes'[m][p] # queue'[j]
                 /\ \A n \in Launches : pipes'[m][p] # inHand'[n]
      <4>1. /\ pipes[m][p] \notin Gone /\ \A j \in Queued : pipes[m][p] # queue[j]
            /\ \A n \in Launches : pipes[m][p] # inHand[n]
        BY <1>1 DEF LinesApart
      <4>2. pipes[m][p] # h /\ pipes[m][p] # 0
        BY <1>4, <1>6
      <4>. QED
        BY <1>2, <1>5, <2>1, <2>2, <4>1, <4>2
    <3>4. \A m \in Launches : \A p \in Piped(m)' :
            /\ pipes'[m][p] \notin Gone'
            /\ \A j \in Queued' : pipes'[m][p] # queue'[j]
            /\ \A n \in Launches : pipes'[m][p] # inHand'[n]
      BY <1>7, <3>3
    <3>5. /\ \A m \in Launches : \A p, r \in Piped(m)' : p < r => pipes'[m][p] < pipes'[m][r]
          /\ \A m, n \in Launches : m # n =>
               \A p \in Piped(m)', r \in Piped(n)' : pipes'[m][p] # pipes'[n][r]
      BY <1>1, <1>2, <1>7 DEF LinesApart
    <3>6. \A j, k \in Queued' : queue'[j] = queue'[k] => j = k \/ queue'[j] = 0
      BY <1>1, <2>1, <2>2 DEF LinesApart
    <3>. QED
      BY <1>10, <3>1, <3>2, <3>4, <3>5, <3>6 DEF LinesApart
  <2>6. Counted'
    <3>1. Cardinality(lost \cup {h}) = Cardinality(lost) + 1
      <4>1. h \notin lost /\ IsFiniteSet(lost)
        BY <1>1, <1>4, StreamFacts DEF Gone
      <4>. QED
        BY <4>1, FS_AddElement
    <3>. QED
      BY <1>1, <1>2, <1>9, <2>1, <2>2, <3>1, StreamFacts DEF Counted
  <2>7. NewestLast'
    BY <1>2, <2>3 DEF NewestLast
  <2>. QED
    BY <1>8, <2>4, <2>5, <2>6, <2>7 DEF LinesInv
<1>. QED
  BY <1>12, <1>13

\* A reader ends, and leaves a sentinel if there is room.
LEMMA EndKeepsLines ==
  ASSUME LinesInv, GroupInv, NEW l \in Launches, ReaderEnds(l)
  PROVE  LinesInv'
<1>1. StreamTypes /\ ReadersRun /\ LinesApart /\ Counted /\ NewestLast
  BY DEF LinesInv
<1>2. /\ readers[l] = "read" /\ pipes[l] = <<>> /\ ~HoldsPipe(l)
      /\ readers' = [readers EXCEPT ![l] = "off"]
      /\ queue' = IF Len(queue) < QueueSize THEN Append(queue, 0) ELSE queue
      /\ UNCHANGED <<launch, leader, workers, localAt, late, pipes, inHand, archived, line, taken, lost>>
  BY DEF ReaderEnds, groupVars, callVars, Reader, Sentinel
<1>3. /\ readers' \in [Launches -> {"off", "read", "full", "again"}] /\ readers'[l] = "off"
      /\ \A m \in Launches \ {l} : readers'[m] = readers[m]
  BY <1>1, <1>2 DEF StreamTypes
<1>4. /\ queue \in Seq(Nat) /\ Len(queue) \in Nat /\ QueueSize \in Nat /\ line \in Nat
      /\ Len(queue) <= QueueSize /\ 0 \notin Gone
      /\ \A j \in Queued : queue[j] \in Nat
      /\ \A m \in Launches : /\ inHand[m] \in Nat
                             /\ \A p \in Piped(m) : pipes[m][p] \in Nat /\ pipes[m][p] # 0
  BY <1>1, StreamFacts DEF StreamTypes
<1>5. /\ queue' \in Seq(Nat) /\ Len(queue') <= QueueSize
      /\ \A j \in Queued' : \/ j \in Queued /\ queue'[j] = queue[j]
                            \/ j = Len(queue) + 1 /\ queue'[j] = 0
      /\ Cardinality(Places(queue))' = Cardinality(Places(queue))
  <2>1. CASE Len(queue) < QueueSize
    <3>1. queue' = Append(queue, 0)
      BY <1>2, <2>1
    <3>2. Cardinality(Places(queue)) \in Nat
      BY <1>1, StreamFacts
    <3>3. /\ queue' \in Seq(Nat) /\ Len(queue') = Len(queue) + 1
          /\ \A j \in Queued' : \/ j \in Queued /\ queue'[j] = queue[j]
                                \/ j = Len(queue) + 1 /\ queue'[j] = 0
          /\ Cardinality(Places(queue))' = Cardinality(Places(queue)) + 0
      BY <1>1, <3>1, QueueGrows
    <3>. QED
      BY <1>4, <2>1, <3>2, <3>3
  <2>2. CASE ~(Len(queue) < QueueSize)
    BY <1>2, <1>4, <2>2 DEF Queued, Places
  <2>. QED
    BY <2>1, <2>2
<1>6. /\ WrittenLines' = WrittenLines /\ Gone' = Gone /\ Holders' = Holders
      /\ \A m \in Launches : Piped(m)' = Piped(m)
  BY <1>2 DEF WrittenLines, Gone, Holders, Piped
<1>7. inHand[l] = 0 /\ (late = 0 => \A m \in Launches : readers'[m] # "again")
  BY <1>1, <1>2, <1>3 DEF ReadersRun
<1>8. StreamTypes'
  <2>1. ASSUME NEW j \in Queued' PROVE queue'[j] <= line'
    <3>1. 0 <= line /\ \A i \in Queued : queue[i] <= line
      BY <1>1, <1>4 DEF StreamTypes
    <3>. QED
      BY <1>2, <1>5, <2>1, <3>1
  <2>. QED
    BY <1>1, <1>2, <1>3, <1>5, <1>6, <2>1 DEF StreamTypes
<1>9. ReadersRun'
  <2>1. l = launch => ~leader /\ workers = {}
    BY <1>2 DEF HoldsPipe, GroupInv, OneGroup
  <2>2. launch > 0 /\ readers'[launch] = "off" => ~leader /\ workers = {}
    <3>1. CASE l = launch
      BY <2>1, <3>1
    <3>2. CASE l # launch
      <4>1. readers'[launch] = readers[launch]
        BY <1>1, <1>2, <3>2 DEF StreamTypes
      <4>. QED
        BY <1>1, <4>1 DEF ReadersRun
    <3>. QED
      BY <3>1, <3>2
  <2>3. \A m \in Launches : /\ inHand'[m] # 0 <=> readers'[m] \in {"full", "again"}
                            /\ readers'[m] = "off" => pipes'[m] = <<>>
                            /\ readers[m] = "off" => readers'[m] = "off"
    BY <1>1, <1>2, <1>3, <1>7 DEF ReadersRun
  <2>. QED
    BY <1>1, <1>2, <2>2, <2>3 DEF ReadersRun
<1>10. LinesApart'
  <2>1. ASSUME NEW j \in Queued', NEW k \in Queued', queue'[j] = queue'[k]
        PROVE  j = k \/ queue'[j] = 0
    BY <1>1, <1>5, <2>1 DEF LinesApart
  <2>2. \A j \in Queued' : queue'[j] \notin Gone'
    BY <1>1, <1>4, <1>5, <1>6 DEF LinesApart
  <2>3. \A m \in Launches : /\ inHand'[m] \notin Gone'
                            /\ \A j \in Queued' : inHand'[m] = queue'[j] => inHand'[m] = 0
    BY <1>1, <1>2, <1>5, <1>6, ZenonT(40) DEF LinesApart
  <2>4. ASSUME NEW m \in Launches, NEW p \in Piped(m)
        PROVE  /\ pipes'[m][p] \notin Gone'
               /\ \A j \in Queued' : pipes'[m][p] # queue'[j]
               /\ \A n \in Launches : pipes'[m][p] # inHand'[n]
    <3>1. /\ pipes[m][p] \notin Gone /\ \A j \in Queued : pipes[m][p] # queue[j]
          /\ \A n \in Launches : pipes[m][p] # inHand[n]
      BY <1>1 DEF LinesApart
    <3>2. pipes[m][p] # 0
      BY <1>4
    <3>. QED
      BY <1>2, <1>5, <1>6, <3>1, <3>2
  <2>5. /\ \A m, n \in Launches : inHand'[m] = inHand'[n] => m = n \/ inHand'[m] = 0
        /\ \A m \in Launches : \A p, r \in Piped(m)' : p < r => pipes'[m][p] < pipes'[m][r]
        /\ \A m, n \in Launches : m # n =>
             \A p \in Piped(m)', r \in Piped(n)' : pipes'[m][p] # pipes'[n][r]
    BY <1>1, <1>2, <1>6 DEF LinesApart
  <2>6. \A m \in Launches : \A p \in Piped(m)' :
          /\ pipes'[m][p] \notin Gone'
          /\ \A j \in Queued' : pipes'[m][p] # queue'[j]
          /\ \A n \in Launches : pipes'[m][p] # inHand'[n]
    BY <1>6, <2>4
  <2>. QED
    BY <2>1, <2>2, <2>3, <2>5, <2>6 DEF LinesApart
<1>11. Counted'
  BY <1>1, <1>2, <1>5, <1>6 DEF Counted
<1>12. NewestLast'
  <2>. SUFFICES ASSUME late = 0 PROVE NewestLast'
    BY <1>2 DEF NewestLast
  <2>1. ASSUME NEW j \in Queued', NEW k \in Queued', j < k, queue'[k] # 0
        PROVE  queue'[j] < queue'[k]
    <3>1. k \in Queued /\ queue'[k] = queue[k]
      BY <1>5, <2>1
    <3>2. j \in Queued /\ queue'[j] = queue[j]
      BY <1>4, <1>5, <2>1, <3>1 DEF Queued
    <3>. QED
      BY <1>1, <2>1, <3>1, <3>2 DEF NewestLast
  <2>2. ASSUME NEW m \in Launches, inHand[m] # 0, NEW j \in Queued' PROVE queue'[j] < inHand[m]
    <3>1. 0 < inHand[m]
      BY <1>4, <2>2
    <3>. QED
      BY <1>1, <1>5, <2>2, <3>1 DEF NewestLast
  <2>3. ASSUME NEW m \in Launches, NEW p \in Piped(m)
        PROVE  inHand[m] < pipes[m][p] /\ \A j \in Queued' : queue'[j] < pipes[m][p]
    <3>1. 0 < pipes[m][p]
      BY <1>4, <2>3
    <3>. QED
      BY <1>1, <1>5, <2>3, <3>1 DEF NewestLast
  <2>4. ASSUME NEW i \in lost, NEW j \in Queued', queue'[j] # 0 PROVE i < queue'[j]
    BY <1>1, <1>5, <2>4 DEF NewestLast
  <2>5. \A i \in lost : \A m \in Launches : /\ inHand[m] # 0 => i < inHand[m]
                                            /\ \A p \in Piped(m) : i < pipes[m][p]
    BY <1>1 DEF NewestLast
  <2>. QED
    BY <1>2, <1>6, <1>7, <2>1, <2>2, <2>3, <2>4, <2>5 DEF NewestLast
<1>. QED
  BY <1>8, <1>9, <1>10, <1>11, <1>12 DEF LinesInv

\* Starts and stops: what flows stays as it is, and a new launch has a reader.
LEMMA GroupStepKeepsLines ==
  ASSUME LinesInv, GroupInv, UNCHANGED <<pipes, inHand, queue, archived, line, taken, lost>>,
         late' \in Nat, late' = 0 => late = 0,
         \/ UNCHANGED readers
         \/ readers' = [readers EXCEPT ![launch'] = "read"] /\ launch' \in Launches
              /\ inHand[launch'] = 0,
         ReadersRun'
  PROVE  LinesInv'
<1>1. StreamTypes /\ LinesApart /\ Counted /\ NewestLast
  BY DEF LinesInv
<1>2. /\ WrittenLines' = WrittenLines /\ Gone' = Gone /\ Holders' = Holders /\ Queued' = Queued
      /\ Places(queue)' = Places(queue) /\ \A m \in Launches : Piped(m)' = Piped(m)
  BY DEF WrittenLines, Gone, Holders, Queued, Places, Piped
<1>3. /\ readers' \in [Launches -> {"off", "read", "full", "again"}]
      /\ \A m \in Launches : readers'[m] = "again" => readers[m] = "again"
  BY <1>1 DEF StreamTypes
<1>4. StreamTypes'
  BY <1>1, <1>2, <1>3 DEF StreamTypes
<1>5. LinesApart' /\ Counted'
  BY <1>1, <1>2 DEF LinesApart, Counted
<1>6. NewestLast'
  <2>. SUFFICES ASSUME late = 0 PROVE NewestLast'
    BY DEF NewestLast
  <2>. QED
    BY <1>1, <1>2, <1>3 DEF NewestLast
<1>. QED
  BY <1>4, <1>5, <1>6 DEF LinesInv

LEMMA LinesKeep ==
  ASSUME LinesInv, GroupInv, [LocalNext]_localVars
  PROVE  LinesInv'
<1>1. StreamTypes /\ ReadersRun /\ LinesApart /\ Counted /\ NewestLast
  BY DEF LinesInv
<1>2. CASE UNCHANGED localVars
  <2>1. UNCHANGED <<launch, leader, workers, localAt, late, readers>>
    BY <1>2 DEF localVars
  <2>2. ReadersRun'
    BY <1>1, <1>2 DEF ReadersRun, localVars
  <2>3. UNCHANGED <<pipes, inHand, queue, archived, line, taken, lost>>
    BY <1>2 DEF localVars
  <2>. QED
    BY <1>1, <2>1, <2>2, <2>3, GroupStepKeepsLines DEF StreamTypes
<1>3. ASSUME LeaderForks \/ LeaderExits \/ LocalTerm \/ LocalWait \/ LocalGroup
             \/ \E restart \in BOOLEAN : LocalStop(restart)
      PROVE  LinesInv'
  <2>1. UNCHANGED <<launch, late, readers, pipes, inHand, queue, archived, line, taken, lost>>
    BY <1>3 DEF LeaderForks, LeaderExits, LocalTerm, LocalWait, LocalGroup, LocalStop,
                groupVars, streamVars, callVars
  <2>2. /\ localAt' # "idle" => localAt # "idle" \/ launch > 0
        /\ localAt' # "start"
        /\ ~leader /\ workers = {} => ~leader' /\ workers' = {}
    <3>1. CASE LeaderForks
      BY <3>1, <1>1 DEF LeaderForks, callVars, GroupInv, OneGroup, ReadersRun
    <3>2. CASE LeaderExits
      BY <1>1, <3>2 DEF LeaderExits, callVars, ReadersRun, GroupInv, OneGroup
    <3>3. CASE LocalTerm
      <4>1. (~leader => ~leader') /\ (workers = {} => workers' = {})
        <5>1. leader' \in {leader, FALSE} /\ leader \in BOOLEAN
          BY <3>3 DEF LocalTerm, GroupInv
        <5>2. workers' \in {workers, workers \ {launch}}
          BY <3>3 DEF LocalTerm
        <5>3. ~leader => ~leader'
          BY <5>1
        <5>. QED
          BY <5>2, <5>3
      <4>2. localAt' = "wait" /\ localAt = "term"
        BY <3>3 DEF LocalTerm
      <4>. QED
        BY <4>1, <4>2
    <3>4. CASE LocalWait
      BY <3>4 DEF LocalWait
    <3>5. CASE LocalGroup
      BY <3>5 DEF LocalGroup
    <3>6. CASE \E restart \in BOOLEAN : LocalStop(restart)
      BY <3>6 DEF LocalStop, groupVars
    <3>. QED
      BY <1>3, <3>1, <3>2, <3>3, <3>4, <3>5, <3>6
  <2>3. ReadersRun'
    BY <1>1, <2>1, <2>2 DEF ReadersRun
  <2>. QED
    BY <1>1, <2>1, <2>3, GroupStepKeepsLines DEF StreamTypes
<1>4. ASSUME NEW l \in Launches, NEW k, k = launch',
             k = l, localAt' = "idle", LocalLaunch, launch = 0 \/ localAt = "start", late' = late,
             l = launch + 1, inHand[l] = 0
      PROVE  LinesInv'
  <2>1. /\ launch' = l /\ readers' = [readers EXCEPT ![l] = "read"]
        /\ leader' = TRUE /\ UNCHANGED <<workers, pipes, inHand, queue, archived, line, taken, lost>>
    BY <1>4 DEF LocalLaunch
  <2>2. /\ readers'[l] = "read" /\ \A m \in Launches \ {l} : readers'[m] = readers[m]
        /\ launch \in Nat /\ Launches \subseteq Nat
    BY <1>1, <2>1 DEF StreamTypes, GroupInv, Launches
  <2>3. ReadersRun'
    <3>1. \A m \in Launches : inHand'[m] # 0 <=> readers'[m] \in {"full", "again"}
      BY <1>1, <1>4, <2>1, <2>2 DEF ReadersRun
    <3>2. \A m \in Launches : readers'[m] = "off" => m # l /\ pipes'[m] = <<>>
      BY <1>1, <2>1, <2>2 DEF ReadersRun
    <3>3. \A m \in Launches : m > l => m > launch /\ m # l
      BY <1>4, <2>2
    <3>4. \A m \in Launches : m > l => readers'[m] = "off"
      BY <1>1, <2>2, <3>3 DEF ReadersRun
    <3>5. ASSUME late = 0, NEW m \in Launches, m # l PROVE readers'[m] = "off"
      <4>1. CASE launch = 0
        <5>1. m > launch
          BY <4>1, LocalReaderAssumption DEF Launches
        <5>. QED
          BY <1>1, <2>2, <3>5, <5>1 DEF ReadersRun
      <4>2. CASE localAt = "start"
        BY <1>1, <2>2, <3>5, <4>2 DEF ReadersRun
      <4>. QED
        BY <1>4, <4>1, <4>2
    <3>. QED
      BY <1>4, <2>1, <2>2, <3>1, <3>2, <3>4, <3>5 DEF ReadersRun
  <2>4. late' \in Nat /\ (late' = 0 => late = 0)
    BY <1>1, <1>4 DEF StreamTypes
  <2>5. readers' = [readers EXCEPT ![launch'] = "read"] /\ launch' \in Launches /\ inHand[launch'] = 0
    BY <1>4, <2>1
  <2>. QED
    BY <2>1, <2>3, <2>4, <2>5, GroupStepKeepsLines
<1>5. CASE LocalStart
  <2>1. localAt = "idle" /\ launch = 0 /\ LocalLaunch /\ UNCHANGED <<localAt, late>>
    BY <1>5 DEF LocalStart, LocalLaunch
  <2>2. 1 \in Launches /\ launch' = 1 /\ launch + 1 = 1
    BY <2>1, LocalReaderAssumption DEF LocalLaunch, Launches
  <2>3. inHand[1] = 0
    <3>1. 1 > launch
      BY <2>1
    <3>. QED
      BY <1>1, <2>2, <3>1 DEF ReadersRun
  <2>. QED
    BY <1>4, <2>1, <2>2, <2>3
<1>6. CASE LocalJoin
  <2>1. /\ localAt = "join"
        /\ UNCHANGED <<launch, leader, workers, readers, pipes, inHand, queue, archived, line, taken, lost>>
        /\ \/ readers[launch] = "off" /\ late' = late
           \/ late' = late + 1
    BY <1>6 DEF LocalJoin, groupVars, streamVars
  <2>2. late \in Nat /\ launch > 0
    BY <1>1, <2>1 DEF StreamTypes, ReadersRun
  <2>3. late' \in Nat /\ (late' = 0 => late = 0 /\ readers[launch] = "off")
    BY <2>1, <2>2
  <2>4. ReadersRun'
    BY <1>1, <2>1, <2>2, <2>3 DEF ReadersRun
  <2>. QED
    BY <2>1, <2>3, <2>4, GroupStepKeepsLines
<1>7. CASE LocalRelaunch
  <2>0. localAt = "start" /\ localAt' = "idle"
    BY <1>7 DEF LocalRelaunch
  <2>1. CASE launch < MaxStarts
    <3>1. LocalLaunch /\ late' = late
      BY <1>7, <2>1 DEF LocalRelaunch, LocalLaunch
    <3>2. launch + 1 \in Launches /\ launch' = launch + 1
      BY <2>1, <3>1, LocalReaderAssumption DEF LocalLaunch, Launches, GroupInv
    <3>3. PICK l \in Launches : l = launch + 1
      BY <3>2
    <3>4. inHand[l] = 0
      <4>1. l > launch
        BY <3>3 DEF GroupInv
      <4>. QED
        BY <1>1, <4>1 DEF ReadersRun
    <3>. QED
      BY <1>4, <2>0, <3>1, <3>2, <3>3, <3>4
  <2>2. CASE ~(launch < MaxStarts)
    <3>1. UNCHANGED <<launch, leader, workers, late, readers, pipes, inHand, queue, archived, line, taken, lost>>
      BY <1>7, <2>2 DEF LocalRelaunch, streamVars
    <3>2. ReadersRun'
      BY <1>1, <2>0, <3>1 DEF ReadersRun
    <3>. QED
      BY <1>1, <3>1, <3>2, GroupStepKeepsLines DEF StreamTypes
  <2>. QED
    BY <2>1, <2>2
<1>8. ASSUME NEW l \in Launches,
             GroupWrites(l) \/ ReaderPuts(l) \/ ReaderDrops(l) \/ ReaderPutsAgain(l) \/ ReaderEnds(l)
      PROVE  LinesInv'
  BY <1>8, WriteKeepsLines, PutKeepsLines, DropKeepsLines, PutAgainKeepsLines, EndKeepsLines
<1>. QED
  BY <1>2, <1>3, <1>5, <1>6, <1>7, <1>8, TakeKeepsLines DEF LocalNext

\* Whatever the readers, the monitor and the stops do, no line that was read is
\* unaccounted for, and a queue that is full gives up its oldest line and never a newer
\* one, unless a stop left a reader behind (local.py, _pump_lines).
THEOREM NewestLinesStay == ComponentsSpec => []NewestLinesKept
<1>. DEFINE Inv == GroupInv /\ LinesInv
<1>1. ComponentsInit => Inv
  BY GroupInitially, LinesInitially DEF ComponentsInit
<1>2. Inv /\ [ComponentsNext]_allVars => Inv'
  BY GroupKeeps, LinesKeep, Projections
<1>3. Inv => NewestLinesKept
  BY DEF LinesInv, Counted, NewestLast, NewestLinesKept, Places, Holders, Sentinel, Queued
<1>. HIDE DEF Inv
<1>. QED
  BY <1>1, <1>2, <1>3, PTL DEF ComponentsSpec

=============================================================================
