------------------------------- MODULE Monitor -------------------------------
(***************************************************************************)
(* The supervision loop of autosentry (src/autosentry/monitor.py) over a   *)
(* local child (supervisors/local.py): one thread that drains log lines,   *)
(* ticks the detectors, heals what they report, verifies the fixes, and    *)
(* handles the child's exits.  Around it move the child itself, signals,   *)
(* the operator's commands and the clock.                                  *)
(*                                                                         *)
(* Every place where the thread can block (the healer, an action, a        *)
(* cooldown) is a value of pc, so that the child and the signals interleave *)
(* with it there.  A child is named by its launch number, the abstraction  *)
(* of its started_at stamp.                                                *)
(***************************************************************************)
EXTENDS Integers, Sequences, FiniteSets

CONSTANTS
  LineDetectors,  \* detectors that fire on log lines (traceback, pattern)
  TickDetectors,  \* detectors that fire on time (stall)
  ExitDetectors,  \* detectors that fire on a nonzero exit (exit_code)
  DetectorOrder,  \* the configured list, in the order _tick walks it
  RuleNames,      \* names the rules bear in the configuration
  ExitCodes,      \* codes a child may exit with by itself
  StopCodes,      \* codes a child may exit with when it is stopped
  SignalCode,     \* 128 + the signal the operator or the service manager sends
  Configs,        \* the configurations a run may be started with
  Budgets,        \* the values max_restarts takes, configured or `set`
  PriorRestarts,  \* state.restarts as an earlier run may have left it
  PriorExits,     \* state.last_exit_code as an earlier run may have left it
  MaxEvents,      \* bound on what the world does to the monitor
  MaxLines,       \* bound on fault lines waiting in the log queue
  None            \* no code, no detection, no action

Detectors == LineDetectors \cup TickDetectors \cup ExitDetectors
Sources   == RuleNames \cup {"claude"}
Actions   == {"restart", "pause", "abort", "custom"}

\* The signature of a detection keeps the sign of an exit code, not its digits.
Detections == [det : Detectors, sig : {"line", "stall", "killed", "failed"}]
Outcomes   == [source : Sources, action : Actions \cup {None}]
Children   == [id : Nat, running : BOOLEAN, code : Int]
Attempts   == [det : Detectors, source : Sources, branch : BOOLEAN,
               status : {"pending", "kept", "regressed", "crashed"}]

\* What a configuration file decides.  `rule` is the action of the first rule
\* that matches a detector and `ruleName` the name those rules bear; `claude` is
\* what the agent may answer, None when it is disabled, times out or proposes
\* nothing; `git` says whether its edits land on a branch.
ConfigType ==
  [ lifecycle    : {"one_shot", "restart_on_failure", "restart_always"},
    session      : BOOLEAN,
    rule         : [Detectors -> Actions \cup {None}],
    ruleName     : RuleNames,
    claude       : SUBSET (Actions \cup {None}),
    git          : BOOLEAN,
    regression   : {"revert", "escalate", "ignore"},
    escalateRule : BOOLEAN,
    threshold    : Nat \ {0},
    identicalCap : Nat,
    attemptLimit : Nat,
    windowMax    : Nat,
    watchdog     : BOOLEAN ]

ASSUME MonitorAssumption ==
  /\ LineDetectors \cap TickDetectors = {}
  /\ (LineDetectors \cup TickDetectors) \cap ExitDetectors = {}
  /\ DetectorOrder \in Seq(Detectors)
  /\ ExitCodes \subseteq Int /\ StopCodes \subseteq Int /\ StopCodes # {}
  /\ SignalCode \in Int \ {0}
  /\ Configs \subseteq ConfigType
  /\ \A c \in Configs : c.claude # {}
  /\ Budgets \subseteq Int /\ PriorRestarts \subseteq Nat
  /\ PriorExits \subseteq Int \cup {None}
  /\ MaxEvents \in Nat /\ MaxLines \in Nat
  /\ None \notin Int \cup Actions \cup Detections \cup Outcomes

VARIABLES
  cfg,            \* the configuration, fixed at start
  pc, back,       \* where the thread is; where a detection returns to
  at, drained,    \* next detector of the tick; a line was drained this round
  det, outcome,   \* the detection being handled; what a healer decided for it
  child,          \* the supervised process: launch number, liveness, exit code
  lines,          \* detectors whose fault line waits in the log queue
  snap,           \* the status _tick read before it asked the detectors
  seen, window,   \* a child was started before; reserved starts in the window
  stop, final, result, \* _stop, _final_exit_code, what run() returned
  restarts, maxRestarts, escalation,
  lastExit, exitHandledFor, fired, deadFor,
  ledger, pending, head,   \* attempts.tsv, _pending_verify, the fixes in the
                           \* history of the branch that is checked out
  bucket, fresh,  \* attempt stamps kept; those of them younger than an hour
  paused, approved,       \* _budget_paused; those an approval was recorded for
  forceClaude, repeatOf, repeats,
  events          \* how many things the world has done

loopVars   == <<pc, back, at, drained, det, outcome>>
childVars  == <<child, seen, window>>
stopVars   == <<stop, final, result>>
budgetVars == <<restarts, maxRestarts, escalation>>
watchVars  == <<lastExit, exitHandledFor, fired, deadFor, snap>>
fixVars    == <<ledger, pending, head>>
guardVars  == <<bucket, fresh, paused, approved, forceClaude, repeatOf, repeats>>
vars == <<cfg, loopVars, childVars, lines, stopVars, budgetVars, watchVars,
          fixVars, guardVars, events>>

-----------------------------------------------------------------------------
(* The child and its launch *)

BudgetExhausted == maxRestarts > 0 /\ restarts >= maxRestarts

RateLimited == cfg.windowMax > 0 /\ seen /\ window >= cfg.windowMax

\* The start is reserved, in memory and on disk, before the child exists.
Reserve ==
  /\ seen' = TRUE
  /\ window' = IF cfg.windowMax > 0 /\ seen THEN window + 1 ELSE window

\* start() got a new child: _before_child_start let it through.
Launch ==
  /\ ~stop
  /\ ~RateLimited
  /\ Reserve
  /\ child' = [id |-> child.id + 1, running |-> TRUE, code |-> 0]

\* start() raised over `dead`: the monitor is stopping, the rate limit stops
\* it, or the command could not be spawned (code is then the caller's).
LaunchFails(dead, code) ==
  /\ child' = dead
  /\ \/ /\ stop
        /\ final' = code
        /\ UNCHANGED <<seen, window, stop>>
     \/ /\ ~stop /\ RateLimited
        /\ stop' = TRUE
        /\ final' = 1
        /\ UNCHANGED <<seen, window>>
     \/ /\ ~stop /\ ~RateLimited
        /\ Reserve
        /\ final' = code
        /\ UNCHANGED stop

\* Mutant: the status is read before the child that was told to stop is reaped.
StoppedUnreaped(code) ==
  IF child.running THEN [child EXCEPT !.running = FALSE, !.code = None] ELSE child

\* The child after stop(): a dead one keeps the code it exited with.
Stopped(code) ==
  IF child.running THEN [child EXCEPT !.running = FALSE, !.code = code] ELSE child

\* supervisor.apply_action returned, or raised.
ActionApplied(action) ==
  \/ action = "restart" /\ Launch
  \/ /\ action \in {"pause", "abort"}
     /\ \E c \in StopCodes : child' = Stopped(c)
     /\ UNCHANGED <<seen, window>>
  \/ action = "custom" /\ UNCHANGED childVars

ActionRaised(action) ==
  \/ action = "restart" /\ \E c \in StopCodes : LaunchFails(Stopped(c), final)
  \/ action = "custom" /\ UNCHANGED <<childVars, stop, final>>

-----------------------------------------------------------------------------
\* Before the first launch; also what `snap` holds outside _tick.
NoChild == [id |-> 0, running |-> FALSE, code |-> 0]

Init ==
  /\ cfg \in Configs
  /\ pc = "start" /\ back = "drain" /\ at = 1 /\ drained = FALSE
  /\ det = None /\ outcome = None
  /\ child = NoChild
  /\ snap = NoChild
  /\ lines = <<>>
  /\ seen \in BOOLEAN /\ window = 0
  /\ stop = FALSE /\ final = None /\ result = None
  /\ restarts \in PriorRestarts /\ maxRestarts \in Budgets
  /\ escalation = FALSE
  /\ lastExit \in PriorExits /\ exitHandledFor = 0
  /\ fired = [d \in ExitDetectors |-> 0]
  /\ deadFor = "alive"
  /\ ledger = <<>> /\ pending = [d \in Detectors |-> 0] /\ head = {}
  /\ bucket = [d \in Detectors |-> 0] /\ fresh = [d \in Detectors |-> 0]
  /\ paused = {} /\ approved = {} /\ forceClaude = {}
  /\ repeatOf = None /\ repeats = 0
  /\ events = 0

-----------------------------------------------------------------------------
(* The world: each of its moves spends one event of the bound *)

Event == events < MaxEvents /\ events' = events + 1

ChildExits ==
  /\ Event
  /\ child.running
  /\ \E c \in ExitCodes : child' = [child EXCEPT !.running = FALSE, !.code = c]
  /\ UNCHANGED <<cfg, loopVars, seen, window, lines, stopVars, budgetVars,
                 watchVars, fixVars, guardVars>>

ChildPrints ==
  /\ Event
  /\ child.running
  /\ Len(lines) < MaxLines
  /\ \E d \in LineDetectors : lines' = Append(lines, d)
  /\ UNCHANGED <<cfg, loopVars, childVars, stopVars, budgetVars, watchVars,
                 fixVars, guardVars>>

\* _handle_signal: it runs between any two steps of the thread.
HandleSignal ==
  /\ Event
  /\ pc # "done"
  /\ stop' = TRUE
  /\ final' = SignalCode
  /\ UNCHANGED <<cfg, loopVars, childVars, lines, result, budgetVars, watchVars,
                 fixVars, guardVars>>

\* The clock: the dead child outlives the grace period; an attempt, or a start,
\* leaves its rolling window.
GraceElapses ==
  /\ deadFor = "recent"
  /\ deadFor' = "long"
  /\ UNCHANGED <<cfg, loopVars, childVars, lines, stopVars, budgetVars, lastExit,
                 exitHandledFor, fired, snap, fixVars, guardVars, events>>

AttemptAges ==
  /\ Event
  /\ \E d \in Detectors : fresh[d] > 0 /\ fresh' = [fresh EXCEPT ![d] = @ - 1]
  /\ UNCHANGED <<cfg, loopVars, childVars, lines, stopVars, budgetVars, watchVars,
                 fixVars, bucket, paused, approved, forceClaude, repeatOf, repeats>>

StartAges ==
  /\ Event
  /\ window > 0
  /\ window' = window - 1
  /\ UNCHANGED <<cfg, loopVars, child, seen, lines, stopVars, budgetVars, watchVars,
                 fixVars, guardVars>>

World == \/ ChildExits \/ ChildPrints \/ HandleSignal
         \/ GraceElapses \/ AttemptAges \/ StartAges

-----------------------------------------------------------------------------
(* The thread *)

\* Mutant: the loop does not look at the stop flag.
NextLoopBlind == "drain"

NextLoop == IF stop THEN "shutdown" ELSE "drain"

\* What the monitor remembers of a detection it has dealt with is in the state:
\* the thread goes back to the loop that called _fire_detection.
Return == pc' = back /\ det' = None /\ outcome' = None /\ UNCHANGED back

Fire(d, sig, from) ==
  /\ pc' = "fire" /\ back' = from
  /\ det' = [det |-> d, sig |-> sig]
  /\ UNCHANGED outcome

\* start() inside _run; its SupervisorError is run()'s exit code 1.
StartMonitor ==
  /\ pc = "start"
  /\ \/ Launch /\ pc' = "drain" /\ UNCHANGED stopVars
     \/ /\ LaunchFails(child, 1)
        /\ result' = 1 /\ pc' = "done"
  /\ UNCHANGED <<cfg, back, at, drained, det, outcome, lines, budgetVars, lastExit,
                 exitHandledFor, fired, deadFor, snap, fixVars, guardVars, events>>

\* _handle_line: the detector reports the line unless its cooldown holds it back.
DrainLine ==
  /\ pc = "drain" /\ ~stop
  /\ lines # <<>>
  /\ lines' = Tail(lines)
  /\ drained' = TRUE
  /\ \/ Fire(Head(lines), "line", "drain")
     \/ UNCHANGED <<pc, back, det, outcome>>
  /\ UNCHANGED <<cfg, at, childVars, stopVars, budgetVars, watchVars, fixVars,
                 guardVars, events>>

\* A round ends on a quiet queue, on the sentinel of a reader that exited, after
\* 200 lines, or because the monitor stops; the tick may wait if it drained.
DrainDone ==
  /\ pc = "drain"
  /\ \/ pc' = "tick"
     \/ drained /\ pc' = "status"
  /\ drained' = FALSE /\ at' = 1
  /\ UNCHANGED <<cfg, back, det, outcome, childVars, lines, stopVars, budgetVars,
                 watchVars, fixVars, guardVars, events>>

\* _tick reads the status once, for all the detectors.
Tick ==
  /\ pc = "tick" /\ pc' = "observe"
  /\ snap' = child
  /\ UNCHANGED <<cfg, back, at, drained, det, outcome, childVars, lines, stopVars,
                 budgetVars, lastExit, exitHandledFor, fired, deadFor, fixVars,
                 guardVars, events>>

ExitSeen(d) == ~snap.running /\ snap.code # 0 /\ fired[d] # snap.id

ExitSignature(code) == IF code < 0 THEN "killed" ELSE "failed"

ObserveDetector ==
  /\ pc = "observe" /\ at <= Len(DetectorOrder)
  /\ at' = at + 1
  /\ LET d == DetectorOrder[at] IN
       \/ /\ d \in ExitDetectors /\ ExitSeen(d)
          /\ fired' = [fired EXCEPT ![d] = snap.id]
          /\ Fire(d, ExitSignature(snap.code), "observe")
          /\ UNCHANGED events
       \/ /\ d \in ExitDetectors /\ ~ExitSeen(d)
          /\ fired' = IF snap.running THEN [fired EXCEPT ![d] = 0] ELSE fired
          /\ UNCHANGED <<pc, back, det, outcome, events>>
       \/ /\ d \in TickDetectors /\ Event
          /\ Fire(d, "stall", "observe")
          /\ UNCHANGED fired
       \/ d \notin ExitDetectors /\ UNCHANGED <<pc, back, det, outcome, fired, events>>
  /\ UNCHANGED <<cfg, drained, childVars, lines, stopVars, budgetVars, lastExit,
                 exitHandledFor, deadFor, snap, fixVars, guardVars>>

ObserveDone ==
  /\ pc = "observe" /\ at > Len(DetectorOrder)
  /\ pc' = IF cfg.session THEN "session" ELSE "inbox"
  /\ snap' = NoChild
  /\ UNCHANGED <<cfg, back, at, drained, det, outcome, childVars, lines, stopVars,
                 budgetVars, lastExit, exitHandledFor, fired, deadFor, fixVars,
                 guardVars, events>>

-----------------------------------------------------------------------------
(* The two command queues *)

\* One entry of session_actions.jsonl: every action applied counts as a restart.
DrainSessionAction ==
  /\ pc = "session" /\ ~stop /\ Event
  /\ \E action \in Actions :
       \/ /\ ActionApplied(action)
          /\ restarts' = restarts + 1
          /\ stop' = (stop \/ action = "abort")
          /\ final' = IF action = "abort" THEN 130 ELSE final
       \/ ActionRaised(action) /\ UNCHANGED restarts
  /\ UNCHANGED <<cfg, loopVars, lines, result, maxRestarts, escalation, watchVars,
                 fixVars, guardVars>>

SessionDone ==
  /\ pc = "session" /\ pc' = "inbox"
  /\ UNCHANGED <<cfg, back, at, drained, det, outcome, childVars, lines, stopVars,
                 budgetVars, watchVars, fixVars, guardVars, events>>

\* One record of inbox.jsonl: abort, pause, resume, set max_restarts, approve (which
\* is recorded and no more).  The batch is applied to its end, stop or not.
InboxCommand ==
  \/ /\ stop' = TRUE /\ final' = 130
     /\ \E c \in StopCodes : child' = Stopped(c)
     /\ UNCHANGED <<seen, window, maxRestarts, approved>>
  \/ /\ \E c \in StopCodes : child' = Stopped(c)
     /\ UNCHANGED <<seen, window, stop, final, maxRestarts, approved>>
  \/ /\ ~child.running
     /\ \/ Launch /\ UNCHANGED <<stop, final>>
        \/ LaunchFails(child, final)
     /\ UNCHANGED <<maxRestarts, approved>>
  \/ /\ maxRestarts' \in Budgets
     /\ UNCHANGED <<childVars, stop, final, approved>>
  \/ /\ approved' = approved \cup paused
     /\ UNCHANGED <<childVars, stop, final, maxRestarts>>

ConsumeInbox ==
  /\ pc = "inbox" /\ Event
  /\ InboxCommand
  /\ UNCHANGED <<cfg, loopVars, lines, result, restarts, escalation, watchVars,
                 fixVars, bucket, fresh, paused, forceClaude, repeatOf, repeats>>

-----------------------------------------------------------------------------
(* Fixes and their verification *)

\* git_ops.context: the branch that is checked out now, whatever it is.
BaseBranch == head

\* Mutant: the ledger update matches on the detector, not on the attempt.
VerdictByDetector(rows, status) ==
  [i \in DOMAIN ledger |->
     IF ledger[i].det \in {ledger[r].det : r \in rows}
     THEN [ledger[i] EXCEPT !.status = status] ELSE ledger[i]]

Verdict(rows, status) ==
  [i \in DOMAIN ledger |->
     IF i \in rows THEN [ledger[i] EXCEPT !.status = status] ELSE ledger[i]]

\* Mutant: a kept fix resets the counter and leaves the escalation on.
TickVerificationsStayEscalated ==
  /\ pc = "inbox" /\ pc' = "status"
  /\ \E expired \in SUBSET {d \in Detectors : pending[d] # 0} :
       LET rows == {pending[d] : d \in expired} IN
       /\ ledger' = Verdict(rows, "kept")
       /\ pending' = [d \in Detectors |-> IF d \in expired THEN 0 ELSE pending[d]]
       /\ head' = IF \E i \in rows : ledger[i].branch THEN BaseBranch ELSE head
       /\ restarts' = IF expired = {} THEN restarts ELSE 0
  /\ UNCHANGED <<cfg, back, at, drained, det, outcome, childVars, lines, stopVars,
                 maxRestarts, escalation, watchVars, guardVars, events>>

\* Once the inbox is read: the verify windows that have closed, none, some or all.
TickVerifications ==
  /\ pc = "inbox" /\ pc' = "status"
  /\ \E expired \in SUBSET {d \in Detectors : pending[d] # 0} :
       LET rows == {pending[d] : d \in expired} IN
       /\ ledger' = Verdict(rows, "kept")
       /\ pending' = [d \in Detectors |-> IF d \in expired THEN 0 ELSE pending[d]]
       /\ head' = IF \E i \in rows : ledger[i].branch THEN BaseBranch ELSE head
       /\ restarts' = IF expired = {} THEN restarts ELSE 0
       /\ escalation' = (escalation /\ expired = {})
  /\ UNCHANGED <<cfg, back, at, drained, det, outcome, childVars, lines, stopVars,
                 maxRestarts, watchVars, guardVars, events>>

-----------------------------------------------------------------------------
(* Exits *)

\* _dead_child_watchdog_tripped and the end of the iteration, on `status`.
DeadChildWatchdog(status) ==
  /\ deadFor' = IF status.running THEN "alive"
                ELSE IF deadFor = "alive" THEN "recent" ELSE deadFor
  /\ IF ~status.running /\ deadFor = "long" /\ cfg.watchdog
     THEN /\ final' = IF status.code # 0 THEN status.code ELSE 1
          /\ stop' = TRUE
          /\ pc' = "shutdown"
     ELSE /\ pc' = NextLoop
          /\ UNCHANGED <<stop, final>>

\* Mutant: the exit edge compares codes, as it did before issue #22 was fixed.
NewChildExitByCode == ~child.running /\ lastExit # child.code

NewChildExit == ~child.running /\ exitHandledFor # child.id

\* Mutant: an exit is handled whatever has been decided before.
StopForgotten == FALSE

\* The top of _handle_exit: a monitor that is stopping keeps the code it has.
StopDecided == stop /\ final \notin {None, 0}

Status ==
  /\ pc = "status"
  /\ \/ /\ NewChildExit
        /\ exitHandledFor' = child.id
        /\ lastExit' = child.code
        /\ pc' = IF StopDecided THEN "shutdown" ELSE "exiting"
        /\ UNCHANGED <<deadFor, stop, final>>
     \/ /\ ~NewChildExit
        /\ DeadChildWatchdog(child)
        /\ UNCHANGED <<exitHandledFor, lastExit>>
  /\ UNCHANGED <<cfg, back, at, drained, det, outcome, childVars, lines, result,
                 budgetVars, fired, snap, fixVars, guardVars, events>>

WorkComplete(code) ==
  \/ cfg.lifecycle = "one_shot"
  \/ cfg.lifecycle = "restart_on_failure" /\ code = 0

\* Mutant: the spent budget passes a clean exit code on.
HandleExitCleanGiveUp ==
  /\ pc = "exiting"
  /\ LET code == child.code IN
       /\ final' = code
       /\ pc' = IF WorkComplete(code) \/ BudgetExhausted THEN "shutdown"
                ELSE IF code = 0 THEN "relaunch" ELSE "watchdog"
  /\ UNCHANGED <<cfg, back, at, drained, det, outcome, childVars, lines, stop, result,
                 budgetVars, watchVars, fixVars, guardVars, events>>

\* _handle_exit past its first test; a signal may have come in between.
HandleExit ==
  /\ pc = "exiting"
  /\ LET code == child.code IN
       \/ /\ WorkComplete(code)
          /\ final' = code /\ pc' = "shutdown"
       \/ /\ ~WorkComplete(code) /\ BudgetExhausted
          /\ final' = IF code # 0 THEN code ELSE 1
          /\ pc' = "shutdown"
       \/ /\ ~WorkComplete(code) /\ ~BudgetExhausted
          /\ final' = code
          /\ pc' = IF code = 0 THEN "relaunch" ELSE "watchdog"
  /\ UNCHANGED <<cfg, back, at, drained, det, outcome, childVars, lines, stop, result,
                 budgetVars, watchVars, fixVars, guardVars, events>>

\* After the cooldown; the relaunch does not count as an unverified restart.
RestartAfterCleanExit ==
  /\ pc = "relaunch"
  /\ \/ stop /\ pc' = "shutdown" /\ UNCHANGED <<childVars, stop, final>>
     \/ Launch /\ pc' = "watchdog" /\ UNCHANGED <<stop, final>>
     \/ /\ ~stop
        /\ LaunchFails(child, 1)
        /\ pc' = "shutdown"
  /\ UNCHANGED <<cfg, back, at, drained, det, outcome, lines, result, budgetVars,
                 watchVars, fixVars, guardVars, events>>

\* After the cooldown, or the relaunch, the status is read again.
WatchChild ==
  /\ pc = "watchdog"
  /\ DeadChildWatchdog(child)
  /\ UNCHANGED <<cfg, back, at, drained, det, outcome, childVars, lines, result,
                 budgetVars, lastExit, exitHandledFor, fired, snap, fixVars,
                 guardVars, events>>

\* The finally clause, and the code run() returns.
Shutdown ==
  /\ pc = "shutdown" /\ pc' = "done"
  /\ \E c \in StopCodes : child' = Stopped(c)
  /\ result' = IF final = None THEN 0 ELSE final
  /\ UNCHANGED <<cfg, back, at, drained, det, outcome, seen, window, lines, stop, final,
                 budgetVars, watchVars, fixVars, guardVars, events>>

-----------------------------------------------------------------------------
(* _fire_detection *)

\* _detection_signature, per detector and message.
Signature == <<det.det, det.sig>>

Repeats == IF cfg.identicalCap = 0 THEN repeats
           ELSE IF Signature = repeatOf THEN repeats + 1 ELSE 1

RepeatExhausted == cfg.identicalCap > 0 /\ Repeats > cfg.identicalCap

\* Mutant: off by one at the limit.
AttemptsOver(d) == cfg.attemptLimit > 0 /\ bucket[d] > cfg.attemptLimit

AttemptsExhausted(d) == cfg.attemptLimit > 0 /\ bucket[d] >= cfg.attemptLimit

\* A detection inside the verify window of a fix for the same detector.
Regressed(row) == IF row = 0 THEN {} ELSE {row}

RuleRegressed(row) ==
  row # 0 /\ ledger[row].source = "rules" /\ cfg.escalateRule

\* Mutant: the regressed fix stays under verification.
RegressionStillPending(d, row) ==
  /\ ledger' = Verdict(Regressed(row), "regressed")
  /\ UNCHANGED <<pending, head>>

HandlePotentialRegression(d, row) ==
  /\ ledger' = Verdict(Regressed(row), "regressed")
  /\ pending' = [pending EXCEPT ![d] = 0]
  /\ head' = IF row # 0 /\ ledger[row].branch /\ cfg.regression = "revert"
             THEN BaseBranch ELSE head

NoteRepeat ==
  /\ repeats' = Repeats
  /\ repeatOf' = IF cfg.identicalCap = 0 THEN repeatOf ELSE Signature

\* The heal is refused: the session heals, the failure repeats, or the budget of
\* the detector is spent (which pauses it).
Decline(d, held) ==
  /\ cfg.session \/ RepeatExhausted \/ d \in held \/ AttemptsExhausted(d)
  /\ paused' = IF cfg.session \/ RepeatExhausted THEN held ELSE held \cup {d}
  /\ pc' = "apply" /\ outcome' = None
  /\ UNCHANGED escalation

\* Mutant: a paused detector is not refused.
HealPaused(d, held, forced) ==
  /\ ~cfg.session /\ ~RepeatExhausted /\ ~AttemptsExhausted(d)
  /\ paused' = held
  /\ escalation' = (escalation \/ restarts >= cfg.threshold)
  /\ IF escalation' \/ d \in forced \/ cfg.rule[d] = None
     THEN pc' = "claude" /\ outcome' = None
     ELSE pc' = "apply" /\ outcome' = [source |-> cfg.ruleName, action |-> cfg.rule[d]]

\* A healer is asked: the first matching rule, or the agent when there is none
\* or when the detector has to go straight to it.
Heal(d, held, forced) ==
  /\ ~cfg.session /\ ~RepeatExhausted /\ d \notin held /\ ~AttemptsExhausted(d)
  /\ paused' = held
  /\ escalation' = (escalation \/ restarts >= cfg.threshold)
  /\ IF escalation' \/ d \in forced \/ cfg.rule[d] = None
     THEN pc' = "claude" /\ outcome' = None
     ELSE pc' = "apply" /\ outcome' = [source |-> cfg.ruleName, action |-> cfg.rule[d]]

FireDetection ==
  /\ pc = "fire" /\ ~stop
  /\ LET d      == det.det
         row    == pending[d]
         held   == IF row # 0 /\ cfg.regression = "escalate"
                   THEN paused \cup {d} ELSE paused
         forced == IF RuleRegressed(row) THEN forceClaude \cup {d} ELSE forceClaude
     IN /\ HandlePotentialRegression(d, row)
        /\ NoteRepeat
        /\ stop' = RepeatExhausted
        /\ final' = IF RepeatExhausted THEN 1 ELSE final
        /\ \/ Decline(d, held) /\ forceClaude' = forced
           \/ Heal(d, held, forced) /\ forceClaude' = forced \ {d}
  /\ UNCHANGED <<cfg, back, at, drained, det, childVars, lines, result, restarts,
                 maxRestarts, watchVars, bucket, fresh, approved, events>>

\* Once the monitor stops, a detection is dropped.
DropDetection ==
  /\ pc = "fire" /\ stop
  /\ Return
  /\ UNCHANGED <<cfg, at, drained, childVars, lines, stopVars, budgetVars, watchVars,
                 fixVars, guardVars, events>>

\* claude_healer.attempt blocks the thread until the agent answers or times out.
ClaudeAttempt ==
  /\ pc = "claude" /\ pc' = "apply"
  /\ \E a \in cfg.claude : outcome' = [source |-> "claude", action |-> a]
  /\ UNCHANGED <<cfg, back, at, drained, det, childVars, lines, stopVars, budgetVars,
                 watchVars, fixVars, guardVars, events>>

HasAction == outcome # None /\ outcome.action # None

\* The attempt is entered in the ledger, on a branch of its own if git allows,
\* before its action runs; its stamp prunes those older than an hour.
OpenAttempt ==
  /\ pc = "apply" /\ HasAction
  /\ pc' = "acting"
  /\ \E branch \in IF outcome.source = "claude" /\ cfg.git THEN BOOLEAN ELSE {FALSE} :
       /\ ledger' = Append(ledger, [det |-> det.det, source |-> outcome.source,
                                    status |-> "pending", branch |-> branch])
       /\ head' = IF branch THEN head \cup {Len(ledger) + 1} ELSE head
  /\ fresh' = [fresh EXCEPT ![det.det] = @ + 1]
  /\ bucket' = [bucket EXCEPT ![det.det] = fresh[det.det] + 1]
  /\ UNCHANGED <<cfg, back, at, drained, det, outcome, childVars, lines, stopVars,
                 budgetVars, watchVars, pending, paused, approved, forceClaude, repeatOf,
                 repeats, events>>

\* The attempt ApplyOutcome works on.
Row == Len(ledger)

ApplyOutcome ==
  /\ pc = "acting"
  /\ Return
  /\ \/ /\ ActionApplied(outcome.action)
        /\ outcome.action = "abort"
        /\ stop' = TRUE /\ final' = 1
        /\ UNCHANGED <<restarts, ledger, pending, head>>
     \/ /\ ActionApplied(outcome.action)
        /\ outcome.action # "abort"
        /\ restarts' = restarts + 1
        /\ pending' = [pending EXCEPT ![det.det] = Row]
        /\ UNCHANGED <<stop, final, ledger, head>>
     \/ /\ ActionRaised(outcome.action)
        /\ ledger' = Verdict({Row}, "crashed")
        /\ head' = IF ledger[Row].branch THEN BaseBranch ELSE head
        /\ UNCHANGED <<restarts, pending>>
  /\ UNCHANGED <<cfg, at, drained, lines, result, maxRestarts, escalation, watchVars,
                 guardVars, events>>

\* No action: a dead child falls back on the restart policy.
NoAction ==
  /\ pc = "apply" /\ ~HasAction
  /\ \/ /\ child.running \/ stop
        /\ Return
        /\ UNCHANGED <<stop, final>>
     \/ /\ ~child.running /\ ~stop /\ BudgetExhausted
        /\ Return
        /\ stop' = TRUE /\ final' = 1
     \/ /\ ~child.running /\ ~stop /\ ~BudgetExhausted
        /\ pc' = "fallback"
        /\ UNCHANGED <<back, det, outcome, stop, final>>
  /\ UNCHANGED <<cfg, at, drained, childVars, lines, result, budgetVars, watchVars,
                 fixVars, guardVars, events>>

\* After the cooldown.
RestartPolicyFallback ==
  /\ pc = "fallback"
  /\ Return
  /\ \/ stop /\ UNCHANGED <<childVars, stop, final, restarts>>
     \/ Launch /\ restarts' = restarts + 1 /\ UNCHANGED <<stop, final>>
     \/ ~stop /\ LaunchFails(child, final) /\ UNCHANGED restarts
  /\ UNCHANGED <<cfg, at, drained, lines, result, maxRestarts, escalation, watchVars,
                 fixVars, guardVars, events>>

-----------------------------------------------------------------------------
MonitorStep ==
  \/ StartMonitor \/ DrainLine \/ DrainDone \/ Tick \/ ObserveDetector \/ ObserveDone
  \/ DrainSessionAction \/ SessionDone \/ ConsumeInbox
  \/ TickVerifications \/ Status \/ HandleExit \/ RestartAfterCleanExit
  \/ WatchChild \/ FireDetection \/ DropDetection \/ ClaudeAttempt
  \/ OpenAttempt \/ ApplyOutcome \/ NoAction \/ RestartPolicyFallback \/ Shutdown

\* run() has returned and the world has nothing left to do.
Terminated == pc = "done" /\ UNCHANGED vars

Next == World \/ MonitorStep \/ Terminated

Spec == Init /\ [][Next]_vars

\* The thread runs (its blocking calls all have timeouts) and the clock advances.
Fairness == WF_vars(MonitorStep) /\ WF_vars(GraceElapses)

FairSpec == Spec /\ Fairness

-----------------------------------------------------------------------------
(* Safety *)

Pcs == {"start", "drain", "tick", "observe", "session", "inbox", "status",
        "exiting", "relaunch", "watchdog", "fire", "claude", "apply",
        "acting", "fallback", "shutdown", "done"}

Handling == {"fire", "claude", "apply", "acting", "fallback"}

TypeLoop ==
  /\ cfg \in Configs
  /\ pc \in Pcs /\ back \in {"drain", "observe"}
  /\ at \in 1..(Len(DetectorOrder) + 1)
  /\ det \in Detections \cup {None} /\ outcome \in Outcomes \cup {None}
  /\ pc \in Handling => det # None
  /\ pc = "acting" => HasAction

TypeChild ==
  /\ child \in Children /\ snap \in Children
  /\ lines \in Seq(LineDetectors)
  /\ seen \in BOOLEAN /\ window \in Nat
  /\ lastExit \in Int \cup {None} /\ exitHandledFor \in Nat
  /\ fired \in [ExitDetectors -> Nat]
  /\ deadFor \in {"alive", "recent", "long"}

TypeVerdict ==
  /\ final \in Int \cup {None} /\ result \in Int \cup {None}
  /\ restarts \in Nat /\ maxRestarts \in Int
  /\ events \in Nat

TypeFlags == stop \in BOOLEAN /\ escalation \in BOOLEAN /\ drained \in BOOLEAN

TypeFixes ==
  /\ ledger \in Seq(Attempts)
  /\ pending \in [Detectors -> Nat]
  /\ \A d \in Detectors : pending[d] # 0 => pending[d] \in DOMAIN ledger
  /\ head \in SUBSET Nat
  /\ pc = "acting" => ledger # <<>>

TypeGuards ==
  /\ bucket \in [Detectors -> Nat] /\ fresh \in [Detectors -> Nat]
  /\ paused \in SUBSET Detectors /\ approved \in SUBSET Detectors
  /\ forceClaude \in SUBSET Detectors
  /\ repeats \in Nat

\* Every variable of the monitor has the values its code can give it.
TypeOK == TypeLoop /\ TypeChild /\ TypeFlags /\ TypeVerdict /\ TypeFixes /\ TypeGuards

Undecided(i) == ledger[i].status = "pending"

\* No attempt is lost: a row that attempts.tsv shows as pending is the one its
\* detector has under verification or the one whose action is running, unless
\* the monitor is stopping (an abort leaves its row open for good); and what is
\* under verification is a pending row of that detector (monitor.py:1030-1097,
\* 1191-1303).
PendingTracked ==
  /\ \A i \in DOMAIN ledger : Undecided(i) =>
        \/ pending[ledger[i].det] = i
        \/ pc = "acting" /\ i = Row
        \/ stop
  /\ \A d \in Detectors : pending[d] # 0 =>
        ledger[pending[d]].det = d /\ Undecided(pending[d])

\* The agent takes over only after the restarts that justify it, and the rules
\* are back as soon as a fix is kept, whichever paths bump or reset the counter
\* in between (monitor.py:1305-1337, 1239-1252).
EscalationSound == escalation => restarts >= cfg.threshold

\* A detector gets at most max_attempts_per_detector_per_hour attempts within any
\* hour, although stamps are pruned only when an attempt is made
\* (monitor.py:1305-1318).
HealerBudgetRespected ==
  cfg.attemptLimit > 0 => \A d \in Detectors : fresh[d] <= cfg.attemptLimit

\* run() returns 0 only over a child that exited with 0, and in restart_always
\* only because the monitor was told to stop: never after a watchdog, a spent
\* budget, a repeat or a rate limit (monitor.py:216-224, 478, 599-658).
ExitZeroMeansSuccess ==
  result = 0 =>
    /\ child.code = 0
    /\ cfg.lifecycle = "restart_always" => stop

\* Once a failure has repeated past its cap, nothing the monitor still does brings the
\* child back: in the rest of that iteration neither the restart policy, nor another
\* detection, nor a queued command launches a child or opens an attempt, and no exit
\* it still handles turns the failure it will return into a success
\* (monitor.py:224-228, 597, 846-855, 1098-1104).
RepeatGuard ==
  [][cfg.identicalCap > 0 /\ repeats > cfg.identicalCap =>
       /\ child'.id = child.id /\ Len(ledger') = Len(ledger)
       /\ stop' /\ final' \notin {None, 0}]_vars

PausedByRegression(d) ==
  /\ cfg.regression = "escalate"
  /\ \E i \in DOMAIN ledger : ledger[i].det = d /\ ledger[i].status = "regressed"

\* Under `escalate` a detector with a fix that regressed is not healed again, across
\* kept fixes, emptied budgets, detections and commands, as long as the operator has
\* not approved it (monitor.py:856-861, 1296-1303; config.py:361-365).
PausedNeverHealed ==
  [][\A d \in Detectors :
       PausedByRegression(d) /\ d \notin approved => fresh'[d] <= fresh[d]]_vars

\* What the monitor does with its fixes is a FixTrial: one trial per detector,
\* one verdict per trial, and a counter that only a kept fix resets.
Trial == INSTANCE FixTrial WITH
           trials <- [i \in DOMAIN ledger |->
                        [det |-> ledger[i].det, status |-> ledger[i].status]],
           unverified <- restarts

\* The monitor implements FixTrial (monitor.py:1019-1097, 1191-1303).
ImplementsFixTrial == Trial!TrialSpec

-----------------------------------------------------------------------------
(* Liveness *)

\* The exits _handle_exit settles by itself.
ExitDecides == cfg.lifecycle = "one_shot" \/ child.code = 0

\* Somebody decides about a dead child: it is brought back or run() returns.
\* The exit edge alone must see to it when the exit ends the work or is clean
\* (issue #22); for the rest it takes the dead-child watchdog
\* (monitor.py:335-345, 372-480).
DeadChildResolved ==
  (pc # "start" /\ ~child.running /\ (cfg.watchdog \/ ExitDecides))
     ~> (child.running \/ pc = "done")

\* A monitor that is told to stop returns, wherever the signal finds it
\* (monitor.py:358-363).
StopEnds == stop ~> (pc = "done")

-----------------------------------------------------------------------------
(* What the documentation says and the code does not do *)

\* With max_restarts set, the monitor gives up before it has restarted the child
\* more often than that without a kept fix (config.py:38-43, README.md:607).
KillSwitch == maxRestarts > 0 => restarts <= maxRestarts

\* A Claude fix that regressed under `revert` is out of the working tree
\* (git_ops.py:153-154, config.py:342-344, README.md:899-902).
RegressedFixReverted ==
  \A i \in DOMAIN ledger :
    ledger[i].status = "regressed" /\ cfg.regression = "revert" => i \notin head

\* A detector paused for its budget is paused only until the rolling window
\* passes (config.py:361-364).
PauseEndsWithWindow ==
  pc = "fire" /\ ~cfg.session /\ cfg.regression # "escalate" /\ det.det \in paused
    => fresh[det.det] >= cfg.attemptLimit

\* A detector is paused only until a manual approve lands in the inbox: the next
\* detection after it is not refused for the pause (config.py:361-365,
\* README.md:950-955).
ApprovalLifts ==
  pc = "fire" /\ ~stop /\ ~cfg.session /\ det.det \in paused => det.det \notin approved

LastAttempt(i) == \A j \in DOMAIN ledger : ledger[j].det = ledger[i].det => j <= i

\* After a rule's fix regressed, the next attempt for its detector is the
\* agent's (config.py:501-505, README.md:946-952).
RuleRegressionEscalates ==
  pc = "apply" /\ HasAction /\ outcome.source # "claude" /\ cfg.escalateRule =>
    ~ \E i \in DOMAIN ledger :
        /\ ledger[i].det = det.det /\ LastAttempt(i)
        /\ ledger[i].status = "regressed" /\ ledger[i].source # "claude"
=============================================================================
