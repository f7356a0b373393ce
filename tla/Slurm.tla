------------------------------- MODULE Slurm -------------------------------
(***************************************************************************)
(* The SLURM supervisor (src/autosentry/supervisors/slurm.py) under the    *)
(* calls a monitor makes.  Jobs are numbered in the order of submission;   *)
(* the supervisor remembers one.  A cancelled job leaves the queue when    *)
(* SLURM lets it.  The thread that follows a log waits for its file,       *)
(* up to ten seconds at a time, while stop() waits five for the thread.    *)
(***************************************************************************)
EXTENDS Naturals, FiniteSets

CONSTANTS
  MaxJobs,        \* bound on submissions
  MaxSlurmFaults  \* bound on commands that fail and threads that are late

ASSUME SlurmAssumption == MaxJobs \in Nat \ {0} /\ MaxSlurmFaults \in Nat

Jobs == 1 .. MaxJobs

VARIABLES
  jobs,       \* none, live, ending (cancelled, not out of the queue yet), completed, failed
  job,        \* _job_id, 0 for none
  logPath,    \* _log_path: the job whose log it is
  logged,     \* jobs that have created their log
  tails,      \* follower threads: where each one is, by the job it was started for
  stopped,    \* _stop
  jobAt,      \* where the monitor's thread is
  iterated,   \* the iterator of log lines has ended
  disturbed,  \* a pause, or a restart that brought nothing back, for the properties
  slurmFaults

slurmVars == <<jobs, job, logPath, logged, tails, stopped, jobAt, iterated, disturbed, slurmFaults>>

\* A thread: there is none, it waits for a file, or it follows the log of a job.
Waiting == 0
NoTail  == MaxJobs + 1

SlurmInit ==
  /\ jobs = [j \in Jobs |-> "none"] /\ job = 0 /\ logPath = 0 /\ logged = {}
  /\ tails = [j \in Jobs |-> NoTail]
  /\ stopped = FALSE /\ jobAt = "start" /\ iterated = FALSE
  /\ disturbed = FALSE /\ slurmFaults = 0

Live(j) == jobs[j] \in {"live", "ending"}

-----------------------------------------------------------------------------
(* SLURM, and the follower threads *)

JobLogs(j) ==
  /\ Live(j) /\ j \notin logged
  /\ logged' = logged \cup {j}
  /\ UNCHANGED <<jobs, job, logPath, tails, stopped, jobAt, iterated, disturbed, slurmFaults>>

JobEnds(j) ==
  /\ \/ jobs[j] = "live" /\ \E s \in {"completed", "failed"} : jobs' = [jobs EXCEPT ![j] = s]
     \/ jobs[j] = "ending" /\ jobs' = [jobs EXCEPT ![j] = "failed"]
  /\ UNCHANGED <<job, logPath, logged, tails, stopped, jobAt, iterated, disturbed, slurmFaults>>

\* follow_file asks for the path while it has no file, and keeps the file it has.
TailOpens(j) ==
  /\ tails[j] = Waiting /\ ~stopped /\ logPath \in logged
  /\ tails' = [tails EXCEPT ![j] = logPath]
  /\ UNCHANGED <<jobs, job, logPath, logged, stopped, jobAt, iterated, disturbed, slurmFaults>>

TailSeesStop(j) ==
  /\ tails[j] # NoTail /\ stopped
  /\ tails' = [tails EXCEPT ![j] = NoTail]
  /\ UNCHANGED <<jobs, job, logPath, logged, stopped, jobAt, iterated, disturbed, slurmFaults>>

-----------------------------------------------------------------------------
(* The supervisor.  What a call leaves in jobs, job, logPath, tails, stopped. *)

Slurm == [jobs |-> jobs, job |-> job, logPath |-> logPath, tails |-> tails,
          stopped |-> stopped, faults |-> slurmFaults, raised |-> FALSE]

Submitted(w) == Cardinality({j \in Jobs : w.jobs[j] # "none"})

\* squeue, then sacct: an answer that is missing or unknown means "running".
SeenRunning(w) ==
  w.job # 0 /\ (w.jobs[w.job] \in {"live", "ending"})

\* sbatch: an id that cannot be read is an error, and a job nobody remembers.
SubmitWith(w, stop) ==
  LET j == Submitted(w) + 1
  IN IF j > MaxJobs THEN {[w EXCEPT !.raised = TRUE]}
     ELSE {[w EXCEPT !.jobs[j] = "live", !.job = j, !.logPath = j, !.stopped = stop,
                     !.tails[j] = Waiting]}
          \cup (IF w.faults < MaxSlurmFaults
                  THEN {[w EXCEPT !.raised = TRUE, !.faults = @ + 1],
                        [w EXCEPT !.jobs[j] = "live", !.raised = TRUE, !.faults = @ + 1]}
                  ELSE {})

\* Mutant: the event that stop() has set stays set.
SubmitStillStopped(w) == SubmitWith(w, w.stopped)

Submit(w) == SubmitWith(w, FALSE)

\* start(): a job that is seen running is the child; one that is not is replaced,
\* and whoever followed it is left to it.
SubmitUnless(w) == IF SeenRunning(w) THEN {w} ELSE Submit(w)

\* stop(): scancel, which may fail without a word; a while for the job to leave,
\* the event, and a while for the newest thread, which may be too short.
Cancel(w) ==
  IF w.job = 0 THEN {w}
  ELSE LET mayFail == w.faults < MaxSlurmFaults
           joined(v) == {[v EXCEPT !.stopped = TRUE, !.tails[v.job] = NoTail]}
                        \cup (IF mayFail THEN {[v EXCEPT !.stopped = TRUE, !.faults = @ + 1]} ELSE {})
       IN joined([w EXCEPT !.jobs[w.job] = IF @ = "live" THEN "ending" ELSE @])
          \cup (IF mayFail THEN {[w EXCEPT !.stopped = TRUE, !.faults = @ + 1,
                                          !.tails[w.job] = NoTail]} ELSE {})

\* Mutant: the job is forgotten before it is cancelled.
ResubmitFirst(w) == UNION {SubmitUnless(v) : v \in Cancel([w EXCEPT !.job = 0])}

\* _restart forgets the job it has cancelled, whatever became of it.
Resubmit(w) == UNION {SubmitUnless([v EXCEPT !.job = 0]) : v \in Cancel(w)}

SlurmLeaves(w) ==
  /\ jobs' = w.jobs /\ job' = w.job /\ logPath' = w.logPath /\ tails' = w.tails
  /\ stopped' = w.stopped /\ slurmFaults' = w.faults

-----------------------------------------------------------------------------
(* The monitor's loop, as far as it calls the supervisor *)

SlurmStart ==
  /\ jobAt = "start"
  /\ \E w \in SubmitUnless(Slurm) :
       SlurmLeaves(w) /\ jobAt' = IF w.raised THEN "over" ELSE "drain"
  /\ UNCHANGED <<logged, iterated, disturbed>>

SlurmDrain ==
  /\ jobAt = "drain" /\ jobAt' = "act"
  /\ iterated' = (iterated \/ stopped)
  /\ UNCHANGED <<jobs, job, logPath, logged, tails, stopped, disturbed, slurmFaults>>

\* A restart by a rule or the agent; a start over a finished job, by the restart
\* policy, after a clean exit or by the operator; a pause; or nothing.
SlurmAct ==
  /\ jobAt = "act" /\ jobAt' = "drain"
  /\ \/ UNCHANGED <<jobs, job, logPath, tails, stopped, slurmFaults, disturbed>>
     \/ \E w \in Resubmit(Slurm) \cup SubmitUnless(Slurm) :
          SlurmLeaves(w) /\ disturbed' = (disturbed \/ w.raised)
     \/ \E w \in Cancel(Slurm) : SlurmLeaves(w) /\ disturbed' = TRUE
  /\ UNCHANGED <<logged, iterated>>

SlurmShutdown ==
  /\ jobAt = "drain" /\ jobAt' = "over"
  /\ \E w \in Cancel(Slurm) : SlurmLeaves(w)
  /\ UNCHANGED <<logged, iterated, disturbed>>

SlurmNext ==
  \/ \E j \in Jobs : JobLogs(j) \/ JobEnds(j) \/ TailOpens(j) \/ TailSeesStop(j)
  \/ SlurmStart \/ SlurmDrain \/ SlurmAct \/ SlurmShutdown

-----------------------------------------------------------------------------
(* Properties *)

SlurmTypeOK ==
  /\ jobs \in [Jobs -> {"none", "live", "ending", "completed", "failed"}]
  /\ job \in 0 .. MaxJobs /\ logPath \in 0 .. MaxJobs /\ logged \in SUBSET Jobs
  /\ tails \in [Jobs -> 0 .. MaxJobs + 1]
  /\ stopped \in BOOLEAN /\ iterated \in BOOLEAN /\ disturbed \in BOOLEAN
  /\ jobAt \in {"start", "drain", "act", "over"} /\ slurmFaults \in 0 .. MaxSlurmFaults

\* Jobs nobody has cancelled: one while the monitor runs, none when it is over, and
\* one more for each scancel that failed or id that could not be read: a restart
\* submits again without knowing that the job is gone (slurm.py, _restart).
JobsAccounted ==
  Cardinality({j \in Jobs : jobs[j] = "live"})
    <= (IF jobAt = "over" THEN 0 ELSE 1) + slurmFaults

\* A job that runs is one the monitor listens to, a thread of its own following it,
\* through restarts and relaunches over a finished job, unless a command failed, the
\* child was paused or a restart brought nothing back (slurm.py, _stop).
JobIsHeard ==
  job # 0 /\ jobs[job] = "live" /\ jobAt # "over" /\ ~disturbed /\ slurmFaults = 0 =>
    ~stopped /\ ~iterated /\ tails[job] # NoTail
=============================================================================
