--------------------------- MODULE MonitorProofs ---------------------------
(***************************************************************************)
(* What TLAPS proves about the supervision loop, for every set of          *)
(* detectors, every configuration and any number of events.                *)
(***************************************************************************)
EXTENDS Monitor, TLAPS

USE DEF vars, loopVars, childVars, stopVars, budgetVars, watchVars, fixVars, guardVars

-----------------------------------------------------------------------------
(* Type correctness *)

\* The helpers keep the types.
LEMMA StoppedType ==
  ASSUME TypeChild, NEW c \in StopCodes
  PROVE  Stopped(c) \in Children
BY MonitorAssumption DEF MonitorAssumption, TypeChild, Stopped, Children

LEMMA LaunchType ==
  ASSUME TypeChild, Launch
  PROVE  child' \in Children /\ seen' \in BOOLEAN /\ window' \in Nat
BY DEF TypeChild, Launch, Reserve, Children

LEMMA LaunchFailsType ==
  ASSUME TypeChild, TypeFlags, TypeVerdict, NEW dead \in Children, NEW code \in Int \cup {None},
         LaunchFails(dead, code)
  PROVE  /\ child' \in Children /\ seen' \in BOOLEAN /\ window' \in Nat
         /\ stop' \in BOOLEAN /\ final' \in Int \cup {None}
<1>1. CASE final' = code /\ UNCHANGED <<seen, window, stop>>
  BY <1>1 DEF TypeChild, TypeFlags, TypeVerdict, LaunchFails
<1>2. CASE stop' = TRUE /\ final' = 1 /\ UNCHANGED <<seen, window>>
  BY <1>2 DEF TypeChild, TypeFlags, TypeVerdict, LaunchFails
<1>3. CASE Reserve /\ final' = code /\ UNCHANGED stop
  BY <1>3 DEF TypeChild, TypeFlags, TypeVerdict, LaunchFails, Reserve
<1>. QED  BY <1>1, <1>2, <1>3 DEF LaunchFails

LEMMA ActionAppliedType ==
  ASSUME TypeChild, NEW a, ActionApplied(a)
  PROVE  child' \in Children /\ seen' \in BOOLEAN /\ window' \in Nat
BY LaunchType, StoppedType DEF TypeChild, ActionApplied

LEMMA ActionRaisedType ==
  ASSUME TypeChild, TypeFlags, TypeVerdict, NEW a, ActionRaised(a)
  PROVE  /\ child' \in Children /\ seen' \in BOOLEAN /\ window' \in Nat
         /\ stop' \in BOOLEAN /\ final' \in Int \cup {None}
<1>1. CASE a = "restart" /\ \E c \in StopCodes : LaunchFails(Stopped(c), final)
  BY <1>1, StoppedType, LaunchFailsType DEF TypeVerdict
<1>2. CASE UNCHANGED <<childVars, stop, final>>
  BY <1>2 DEF TypeChild, TypeFlags, TypeVerdict
<1>. QED  BY <1>1, <1>2 DEF ActionRaised

LEMMA VerdictType ==
  ASSUME TypeFixes, NEW rows,
         NEW status \in {"pending", "kept", "regressed", "crashed"}
  PROVE  /\ Verdict(rows, status) \in Seq(Attempts)
         /\ DOMAIN Verdict(rows, status) = DOMAIN ledger
<1>1. \A i \in DOMAIN ledger : ledger[i] \in Attempts
  BY DEF TypeFixes
<1>2. \A i \in DOMAIN ledger : [ledger[i] EXCEPT !.status = status] \in Attempts
  BY <1>1 DEF Attempts
<1>3. Verdict(rows, status) \in [1..Len(ledger) -> Attempts]
  BY <1>1, <1>2 DEF Verdict, TypeFixes
<1>. QED  BY <1>3 DEF TypeFixes, Verdict

LEMMA TypeInit == Init => TypeOK
<1>. SUFFICES ASSUME Init PROVE TypeOK
  OBVIOUS
<1>1. cfg \in Configs /\ Len(DetectorOrder) \in Nat
  BY MonitorAssumption DEF MonitorAssumption, Init
<1>2. TypeLoop
  BY <1>1 DEF Init, TypeLoop, Pcs, Handling
<1>3. TypeChild
  BY MonitorAssumption DEF MonitorAssumption, Init, TypeChild, NoChild, Children
<1>4. TypeVerdict
  BY MonitorAssumption DEF MonitorAssumption, Init, TypeVerdict
<1>5. TypeFixes /\ TypeGuards
  BY DEF Init, TypeFixes, TypeGuards
<1>6. TypeFlags
  BY DEF Init, TypeFlags
<1>. QED  BY <1>2, <1>3, <1>4, <1>5, <1>6 DEF TypeOK

\* Each kind of state keeps its type over the steps that leave it alone.
LEMMA SameLoop    == TypeLoop /\ UNCHANGED <<cfg, pc, back, at, det, outcome>> => TypeLoop'
BY DEF TypeLoop, HasAction
LEMMA SameChild   == TypeChild /\ UNCHANGED <<childVars, lines, watchVars>> => TypeChild'
BY DEF TypeChild
LEMMA SameFlags   == TypeFlags /\ UNCHANGED <<stop, escalation, drained>> => TypeFlags'
BY DEF TypeFlags
LEMMA SameVerdict == TypeVerdict /\ UNCHANGED <<final, result, restarts, maxRestarts, events>> => TypeVerdict'
BY DEF TypeVerdict
LEMMA SameFixes   == TypeFixes /\ UNCHANGED fixVars /\ (pc' = "acting" => pc = "acting")
                       => TypeFixes'
BY DEF TypeFixes
LEMMA SameGuards  == TypeGuards /\ UNCHANGED guardVars => TypeGuards'
BY DEF TypeGuards

\* Every step keeps every type.
LEMMA FireType == TypeOK /\ FireDetection => TypeOK'
<1>. SUFFICES ASSUME TypeOK, FireDetection PROVE TypeOK'
  OBVIOUS
<1>. USE DEF TypeOK
<1>. DEFINE d      == det.det
            row    == pending[d]
            held   == IF row # 0 /\ cfg.regression = "escalate"
                      THEN paused \cup {d} ELSE paused
            forced == IF RuleRegressed(row) THEN forceClaude \cup {d} ELSE forceClaude
<1>1. d \in Detectors
  BY DEF FireDetection, TypeLoop, Handling, Detections
<1>2. HandlePotentialRegression(d, row) /\ NoteRepeat
  BY DEF FireDetection
<1>3. \/ Decline(d, held) /\ forceClaude' = forced
      \/ Heal(d, held, forced) /\ forceClaude' = forced \ {d}
  BY DEF FireDetection
<1>4. held \in SUBSET Detectors /\ forced \in SUBSET Detectors
  BY <1>1 DEF TypeGuards
<1>5. Repeats \in Nat
  BY DEF TypeGuards, Repeats
<1>. HIDE DEF d, row, held, forced
<1>6. cfg.ruleName \in Sources /\ cfg.rule[d] \in Actions \cup {None}
  BY <1>1, MonitorAssumption DEF MonitorAssumption, ConfigType, TypeLoop, Sources
<1>7. /\ pc' \in {"apply", "claude"}
      /\ outcome' \in Outcomes \cup {None}
      /\ paused' \in SUBSET Detectors
      /\ escalation' \in BOOLEAN
  <2>1. CASE Decline(d, held)
    BY <2>1, <1>1, <1>4 DEF Decline, TypeFlags
  <2>2. CASE Heal(d, held, forced)
    <3>1. pc' \in {"apply", "claude"} /\ outcome' \in Outcomes \cup {None}
      BY <2>2, <1>6 DEF Heal, Outcomes
    <3>. QED  BY <3>1, <2>2, <1>4 DEF Heal, TypeFlags
  <2>. QED  BY <2>1, <2>2, <1>3
<1>8. TypeLoop'
  BY <1>7 DEF FireDetection, TypeLoop, Pcs, Handling
<1>9. TypeVerdict' /\ TypeFlags'
  <2>1. TypeVerdict'
    BY DEF FireDetection, TypeVerdict
  <2>2. TypeFlags'
    BY <1>7 DEF FireDetection, TypeFlags, RepeatExhausted
  <2>. QED  BY <2>1, <2>2
<1>10. TypeFixes'
  <2>1. ledger' \in Seq(Attempts) /\ DOMAIN ledger' = DOMAIN ledger
    BY <1>2, VerdictType DEF HandlePotentialRegression
  <2>. QED  BY <2>1, <1>1, <1>2, <1>7 DEF HandlePotentialRegression, TypeFixes, BaseBranch
<1>11. TypeGuards'
  <2>1. forceClaude' \in SUBSET Detectors
    BY <1>3, <1>4
  <2>. QED  BY <2>1, <1>2, <1>5, <1>7 DEF FireDetection, NoteRepeat, TypeGuards
<1>. QED  BY <1>8, <1>9, <1>10, <1>11, SameChild DEF FireDetection

LEMMA OpenType == TypeOK /\ OpenAttempt => TypeOK'
<1>. SUFFICES ASSUME TypeOK, OpenAttempt PROVE TypeOK'
  OBVIOUS
<1>. USE DEF TypeOK
<1>1. det.det \in Detectors /\ outcome.source \in Sources
  BY DEF OpenAttempt, TypeLoop, Handling, Detections, HasAction, Outcomes
<1>2. PICK branch \in BOOLEAN :
        /\ ledger' = Append(ledger, [det |-> det.det, source |-> outcome.source,
                                     status |-> "pending", branch |-> branch])
        /\ head' = IF branch THEN head \cup {Len(ledger) + 1} ELSE head
  BY DEF OpenAttempt
<1>3. TypeLoop'
  BY DEF OpenAttempt, TypeLoop, HasAction, Pcs, Handling
<1>4. TypeFixes'
  <2>. DEFINE new == [det |-> det.det, source |-> outcome.source,
                      status |-> "pending", branch |-> branch]
  <2>1. new \in Attempts
    BY <1>1 DEF Attempts
  <2>. HIDE DEF new
  <2>2. ledger' = Append(ledger, new)
    BY <1>2 DEF new
  <2>3. /\ ledger' \in Seq(Attempts) /\ ledger' # <<>>
        /\ DOMAIN ledger \subseteq DOMAIN ledger'
    BY <2>1, <2>2 DEF TypeFixes
  <2>4. head' \in SUBSET Nat
    <3>1. Len(ledger) + 1 \in Nat
      BY DEF TypeFixes
    <3>2. head' = head \cup {Len(ledger) + 1} \/ head' = head
      BY <1>2
    <3>. QED  BY <3>1, <3>2 DEF TypeFixes
  <2>. QED  BY <2>3, <2>4 DEF OpenAttempt, TypeFixes
<1>5. TypeGuards'
  BY <1>1 DEF OpenAttempt, TypeGuards
<1>. QED  BY <1>3, <1>4, <1>5, SameChild, SameFlags, SameVerdict DEF OpenAttempt

LEMMA ApplyType == TypeOK /\ ApplyOutcome => TypeOK'
<1>. SUFFICES ASSUME TypeOK, ApplyOutcome PROVE TypeOK'
  OBVIOUS
<1>. USE DEF TypeOK
<1>1. det.det \in Detectors /\ Row \in DOMAIN ledger
  BY DEF ApplyOutcome, TypeLoop, TypeFixes, Handling, Detections, Row
<1>2. TypeLoop'
  BY DEF ApplyOutcome, Return, TypeLoop, Pcs, Handling
<1>3. TypeChild'
  BY ActionAppliedType, ActionRaisedType DEF ApplyOutcome, TypeChild
<1>4. TypeVerdict' /\ TypeFlags'
  <2>1. TypeVerdict'
    BY ActionRaisedType DEF ApplyOutcome, TypeVerdict
  <2>2. TypeFlags'
    BY ActionRaisedType DEF ApplyOutcome, TypeFlags
  <2>. QED  BY <2>1, <2>2
<1>5. TypeFixes'
  <2>1. ledger' \in Seq(Attempts) /\ DOMAIN ledger' = DOMAIN ledger
    BY VerdictType DEF ApplyOutcome, TypeFixes
  <2>2. pc' # "acting"
    BY DEF ApplyOutcome, Return, TypeLoop
  <2>3. pending' \in [Detectors -> Nat]
    BY <1>1 DEF ApplyOutcome, TypeFixes
  <2>4. head' \in SUBSET Nat
    BY DEF ApplyOutcome, TypeFixes, BaseBranch
  <2>5. \A e \in Detectors : pending'[e] # 0 => pending'[e] \in DOMAIN ledger
    BY <1>1 DEF ApplyOutcome, TypeFixes
  <2>. QED  BY <2>1, <2>2, <2>3, <2>4, <2>5 DEF TypeFixes
<1>. QED  BY <1>2, <1>3, <1>4, <1>5, SameGuards DEF ApplyOutcome

LEMMA TypeNext == TypeOK /\ [Next]_vars => TypeOK'
<1>. SUFFICES ASSUME TypeOK, [Next]_vars PROVE TypeOK'
  OBVIOUS
<1>. USE DEF TypeOK
<1>1. ASSUME ChildExits PROVE TypeOK'
  <2>1. TypeChild'
    BY <1>1, MonitorAssumption DEF ChildExits, TypeChild, MonitorAssumption, Children
  <2>2. TypeVerdict'
    BY <1>1 DEF ChildExits, TypeVerdict, Event
  <2>. QED  BY <1>1, <2>1, <2>2, SameLoop, SameFlags, SameFixes, SameGuards DEF ChildExits, Fire, Return, DeadChildWatchdog, NextLoop, TypeLoop
<1>2. ASSUME ChildPrints PROVE TypeOK'
  <2>1. TypeChild'
    BY <1>2 DEF ChildPrints, TypeChild
  <2>2. TypeVerdict'
    BY <1>2 DEF ChildPrints, TypeVerdict, Event
  <2>. QED  BY <1>2, <2>1, <2>2, SameLoop, SameFlags, SameFixes, SameGuards DEF ChildPrints, Event, Fire, Return, DeadChildWatchdog, NextLoop, TypeLoop
<1>3. ASSUME HandleSignal PROVE TypeOK'
  <2>1. TypeFlags'
    BY <1>3 DEF HandleSignal, TypeFlags
  <2>2. TypeVerdict'
    BY <1>3, MonitorAssumption DEF HandleSignal, TypeVerdict, MonitorAssumption, Event
  <2>. QED  BY <1>3, <2>1, <2>2, SameLoop, SameChild, SameFixes, SameGuards DEF HandleSignal, Fire, Return, DeadChildWatchdog, NextLoop, TypeLoop
<1>4. ASSUME GraceElapses PROVE TypeOK'
  <2>1. TypeChild'
    BY <1>4 DEF GraceElapses, TypeChild
  <2>. QED  BY <1>4, <2>1, SameLoop, SameFlags, SameVerdict, SameFixes, SameGuards DEF GraceElapses, Fire, Return, DeadChildWatchdog, NextLoop, TypeLoop
<1>5. ASSUME AttemptAges PROVE TypeOK'
  <2>1. TypeVerdict'
    BY <1>5 DEF AttemptAges, TypeVerdict, Event
  <2>2. TypeGuards'
    BY <1>5 DEF AttemptAges, TypeGuards
  <2>. QED  BY <1>5, <2>1, <2>2, SameLoop, SameChild, SameFlags, SameFixes DEF AttemptAges, Fire, Return, DeadChildWatchdog, NextLoop, TypeLoop
<1>6. ASSUME StartAges PROVE TypeOK'
  <2>1. TypeChild'
    BY <1>6 DEF StartAges, TypeChild
  <2>2. TypeVerdict'
    BY <1>6 DEF StartAges, TypeVerdict, Event
  <2>. QED  BY <1>6, <2>1, <2>2, SameLoop, SameFlags, SameFixes, SameGuards DEF StartAges, Fire, Return, DeadChildWatchdog, NextLoop, TypeLoop
<1>7. ASSUME StartMonitor PROVE TypeOK'
  <2>1. TypeLoop'
    BY <1>7 DEF StartMonitor, TypeLoop, Pcs, Handling
  <2>2. TypeChild'
    BY <1>7, LaunchType, LaunchFailsType DEF StartMonitor, TypeChild, TypeVerdict
  <2>3. TypeFlags'
    BY <1>7, LaunchFailsType DEF StartMonitor, TypeFlags, TypeChild, TypeVerdict
  <2>4. TypeVerdict'
    BY <1>7, LaunchFailsType DEF StartMonitor, TypeVerdict, TypeChild
  <2>. QED  BY <1>7, <2>1, <2>2, <2>3, <2>4, SameFixes, SameGuards DEF StartMonitor, Fire, Return, DeadChildWatchdog, NextLoop, TypeLoop
<1>8. ASSUME DrainLine PROVE TypeOK'
  <2>1. TypeLoop'
    BY <1>8, MonitorAssumption DEF DrainLine, TypeLoop, TypeChild, MonitorAssumption, Fire, Detections, Detectors, Pcs, Handling
  <2>2. TypeChild'
    BY <1>8 DEF DrainLine, TypeChild
  <2>3. TypeFlags'
    BY <1>8 DEF DrainLine, TypeFlags
  <2>. QED  BY <1>8, <2>1, <2>2, <2>3, SameVerdict, SameFixes, SameGuards DEF DrainLine, Fire, Return, DeadChildWatchdog, NextLoop, TypeLoop
<1>9. ASSUME DrainDone PROVE TypeOK'
  <2>1. TypeLoop'
    BY <1>9, MonitorAssumption DEF DrainDone, TypeLoop, MonitorAssumption, Pcs, Handling
  <2>2. TypeFlags'
    BY <1>9 DEF DrainDone, TypeFlags
  <2>. QED  BY <1>9, <2>1, <2>2, SameChild, SameVerdict, SameFixes, SameGuards DEF DrainDone, Fire, Return, DeadChildWatchdog, NextLoop, TypeLoop
<1>10. ASSUME Tick PROVE TypeOK'
  <2>1. TypeLoop'
    BY <1>10 DEF Tick, TypeLoop, Pcs, Handling
  <2>2. TypeChild'
    BY <1>10 DEF Tick, TypeChild
  <2>. QED  BY <1>10, <2>1, <2>2, SameFlags, SameVerdict, SameFixes, SameGuards DEF Tick, Fire, Return, DeadChildWatchdog, NextLoop, TypeLoop
<1>11. ASSUME ObserveDetector PROVE TypeOK'
  <2>1. TypeLoop'
    BY <1>11, MonitorAssumption DEF ObserveDetector, TypeLoop, MonitorAssumption, Fire, ExitSignature, Detections, Detectors, Pcs, Handling
  <2>2. TypeChild'
    BY <1>11 DEF ObserveDetector, TypeChild, Children
  <2>3. TypeVerdict'
    BY <1>11 DEF ObserveDetector, TypeVerdict, Event
  <2>. QED  BY <1>11, <2>1, <2>2, <2>3, SameFlags, SameFixes, SameGuards DEF ObserveDetector, Fire, Return, DeadChildWatchdog, NextLoop, TypeLoop
<1>12. ASSUME ObserveDone PROVE TypeOK'
  <2>1. TypeLoop'
    BY <1>12 DEF ObserveDone, TypeLoop, Pcs, Handling
  <2>2. TypeChild'
    BY <1>12 DEF ObserveDone, TypeChild, NoChild, Children
  <2>. QED  BY <1>12, <2>1, <2>2, SameFlags, SameVerdict, SameFixes, SameGuards DEF ObserveDone, Fire, Return, DeadChildWatchdog, NextLoop, TypeLoop
<1>13. ASSUME DrainSessionAction PROVE TypeOK'
  <2>1. TypeChild'
    BY <1>13, ActionAppliedType, ActionRaisedType DEF DrainSessionAction, TypeChild, TypeVerdict
  <2>2. TypeFlags'
    BY <1>13, ActionRaisedType DEF DrainSessionAction, TypeFlags, TypeChild, TypeVerdict
  <2>3. TypeVerdict'
    BY <1>13, ActionRaisedType DEF DrainSessionAction, TypeVerdict, Event, TypeChild
  <2>. QED  BY <1>13, <2>1, <2>2, <2>3, SameLoop, SameFixes, SameGuards DEF DrainSessionAction, Fire, Return, DeadChildWatchdog, NextLoop, TypeLoop
<1>14. ASSUME SessionDone PROVE TypeOK'
  <2>1. TypeLoop'
    BY <1>14 DEF SessionDone, TypeLoop, Pcs, Handling
  <2>. QED  BY <1>14, <2>1, SameChild, SameFlags, SameVerdict, SameFixes, SameGuards DEF SessionDone, Fire, Return, DeadChildWatchdog, NextLoop, TypeLoop
<1>15. ASSUME ConsumeInbox PROVE TypeOK'
  <2>1. TypeChild'
    BY <1>15, LaunchType, LaunchFailsType, StoppedType DEF ConsumeInbox, TypeChild, InboxCommand, TypeVerdict
  <2>2. TypeFlags'
    BY <1>15, LaunchFailsType DEF ConsumeInbox, TypeFlags, InboxCommand, TypeChild, TypeVerdict
  <2>3. TypeVerdict'
    <3>1. final' \in Int \cup {None}
      BY <1>15, LaunchFailsType DEF ConsumeInbox, InboxCommand, TypeChild, TypeVerdict
    <3>2. maxRestarts' \in Int
      BY <1>15, MonitorAssumption
      DEF ConsumeInbox, InboxCommand, MonitorAssumption, TypeVerdict
    <3>. QED  BY <1>15, <3>1, <3>2 DEF ConsumeInbox, Event, TypeVerdict
  <2>4. TypeGuards'
    <3>1. approved' = approved \/ approved' = approved \cup paused
      BY <1>15 DEF ConsumeInbox, InboxCommand
    <3>. QED  BY <1>15, <3>1 DEF ConsumeInbox, TypeGuards
  <2>. QED  BY <1>15, <2>1, <2>2, <2>3, <2>4, SameLoop, SameFixes DEF ConsumeInbox, Fire, Return, DeadChildWatchdog, NextLoop, TypeLoop
<1>16. ASSUME TickVerifications PROVE TypeOK'
  <2>1. TypeLoop'
    BY <1>16 DEF TickVerifications, TypeLoop, Pcs, Handling
  <2>2. TypeFlags'
    BY <1>16 DEF TickVerifications, TypeFlags
  <2>3. TypeVerdict'
    BY <1>16 DEF TickVerifications, TypeVerdict
  <2>4. TypeFixes'
    BY <1>16, VerdictType DEF TickVerifications, TypeFixes, BaseBranch
  <2>. QED  BY <1>16, <2>1, <2>2, <2>3, <2>4, SameChild, SameGuards DEF TickVerifications
<1>17. ASSUME Status PROVE TypeOK'
  <2>1. TypeLoop'
    BY <1>17 DEF Status, TypeLoop, DeadChildWatchdog, NextLoop, Pcs, Handling
  <2>2. TypeChild'
    BY <1>17 DEF Status, TypeChild, DeadChildWatchdog, Children
  <2>3. TypeFlags'
    BY <1>17 DEF Status, TypeFlags, DeadChildWatchdog
  <2>4. TypeVerdict'
    BY <1>17 DEF Status, TypeVerdict, DeadChildWatchdog, TypeChild, Children
  <2>. QED  BY <1>17, <2>1, <2>2, <2>3, <2>4, SameFixes, SameGuards DEF Status, Fire, Return, DeadChildWatchdog, NextLoop, TypeLoop
<1>18. ASSUME HandleExit PROVE TypeOK'
  <2>1. TypeLoop'
    BY <1>18 DEF HandleExit, TypeLoop, Pcs, Handling
  <2>2. TypeVerdict'
    BY <1>18 DEF HandleExit, TypeVerdict, TypeChild, Children
  <2>. QED  BY <1>18, <2>1, <2>2, SameChild, SameFlags, SameFixes, SameGuards DEF HandleExit, Fire, Return, DeadChildWatchdog, NextLoop, TypeLoop
<1>19. ASSUME RestartAfterCleanExit PROVE TypeOK'
  <2>1. TypeLoop'
    BY <1>19 DEF RestartAfterCleanExit, TypeLoop, Pcs, Handling
  <2>2. TypeChild'
    BY <1>19, LaunchType, LaunchFailsType DEF RestartAfterCleanExit, TypeChild, TypeVerdict
  <2>3. TypeFlags'
    BY <1>19, LaunchFailsType, MonitorAssumption DEF RestartAfterCleanExit, TypeFlags, TypeChild, TypeVerdict
  <2>4. TypeVerdict'
    BY <1>19, LaunchFailsType DEF RestartAfterCleanExit, TypeVerdict, TypeChild
  <2>. QED  BY <1>19, <2>1, <2>2, <2>3, <2>4, SameFixes, SameGuards DEF RestartAfterCleanExit, Fire, Return, DeadChildWatchdog, NextLoop, TypeLoop
<1>20. ASSUME WatchChild PROVE TypeOK'
  <2>1. TypeLoop'
    BY <1>20 DEF WatchChild, TypeLoop, DeadChildWatchdog, NextLoop, Pcs, Handling
  <2>2. TypeChild'
    BY <1>20 DEF WatchChild, TypeChild, DeadChildWatchdog
  <2>3. TypeFlags'
    BY <1>20 DEF WatchChild, TypeFlags, DeadChildWatchdog
  <2>4. TypeVerdict'
    BY <1>20 DEF WatchChild, TypeVerdict, DeadChildWatchdog, TypeChild, Children
  <2>. QED  BY <1>20, <2>1, <2>2, <2>3, <2>4, SameFixes, SameGuards DEF WatchChild, Fire, Return, DeadChildWatchdog, NextLoop, TypeLoop
<1>21. ASSUME Shutdown PROVE TypeOK'
  <2>1. TypeLoop'
    BY <1>21 DEF Shutdown, TypeLoop, Pcs, Handling
  <2>2. TypeChild'
    BY <1>21, StoppedType DEF Shutdown, TypeChild
  <2>3. TypeVerdict'
    BY <1>21 DEF Shutdown, TypeVerdict
  <2>. QED  BY <1>21, <2>1, <2>2, <2>3, SameFlags, SameFixes, SameGuards DEF Shutdown, Fire, Return, DeadChildWatchdog, NextLoop, TypeLoop
<1>22. ASSUME DropDetection PROVE TypeOK'
  <2>1. TypeLoop'
    BY <1>22 DEF DropDetection, TypeLoop, Return, Pcs, Handling, HasAction
  <2>. QED  BY <1>22, <2>1, SameChild, SameFlags, SameVerdict, SameFixes, SameGuards DEF DropDetection, Fire, Return, DeadChildWatchdog, NextLoop, TypeLoop
<1>23. ASSUME ClaudeAttempt PROVE TypeOK'
  <2>1. TypeLoop'
    BY <1>23, MonitorAssumption DEF ClaudeAttempt, TypeLoop, MonitorAssumption, ConfigType, Outcomes, Sources, Pcs, Handling
  <2>. QED  BY <1>23, <2>1, SameChild, SameFlags, SameVerdict, SameFixes, SameGuards DEF ClaudeAttempt, Fire, Return, DeadChildWatchdog, NextLoop, TypeLoop
<1>24. ASSUME NoAction PROVE TypeOK'
  <2>1. TypeLoop'
    BY <1>24 DEF NoAction, TypeLoop, Return, Pcs, Handling
  <2>2. TypeFlags'
    BY <1>24 DEF NoAction, TypeFlags
  <2>3. TypeVerdict'
    BY <1>24 DEF NoAction, TypeVerdict
  <2>. QED  BY <1>24, <2>1, <2>2, <2>3, SameChild, SameFixes, SameGuards DEF NoAction, Fire, Return, DeadChildWatchdog, NextLoop, TypeLoop
<1>25. ASSUME RestartPolicyFallback PROVE TypeOK'
  <2>1. TypeLoop'
    BY <1>25 DEF RestartPolicyFallback, TypeLoop, Return, Pcs, Handling
  <2>2. TypeChild'
    BY <1>25, LaunchType, LaunchFailsType DEF RestartPolicyFallback, TypeChild, TypeVerdict
  <2>3. TypeFlags'
    BY <1>25, LaunchFailsType DEF RestartPolicyFallback, TypeFlags, TypeChild, TypeVerdict
  <2>4. TypeVerdict'
    BY <1>25, LaunchFailsType DEF RestartPolicyFallback, TypeVerdict, TypeChild
  <2>. QED  BY <1>25, <2>1, <2>2, <2>3, <2>4, SameFixes, SameGuards DEF RestartPolicyFallback, Fire, Return, DeadChildWatchdog, NextLoop, TypeLoop
<1>26. ASSUME Terminated PROVE TypeOK'
  <2>. QED  BY <1>26, SameLoop, SameChild, SameFlags, SameVerdict, SameFixes, SameGuards DEF Terminated, Fire, Return, DeadChildWatchdog, NextLoop, TypeLoop
<1>27. ASSUME UNCHANGED vars PROVE TypeOK'
  BY <1>27, SameLoop, SameChild, SameFlags, SameVerdict, SameFixes, SameGuards
<1>28. ASSUME FireDetection PROVE TypeOK'
  BY <1>28, FireType
<1>29. ASSUME OpenAttempt PROVE TypeOK'
  BY <1>29, OpenType
<1>30. ASSUME ApplyOutcome PROVE TypeOK'
  BY <1>30, ApplyType
<1>. QED  BY <1>1, <1>2, <1>3, <1>4, <1>5, <1>6, <1>7, <1>8, <1>9, <1>10, <1>11, <1>12, <1>13, <1>14, <1>15, <1>16, <1>17, <1>18, <1>19, <1>20, <1>21, <1>22, <1>23, <1>24, <1>25, <1>26, <1>27, <1>28, <1>29, <1>30 DEF Next, World, MonitorStep

\* Every variable always has the values TypeOK gives it.
THEOREM TypeCorrect == Spec => []TypeOK
<1>1. Init => TypeOK  BY TypeInit
<1>2. TypeOK /\ [Next]_vars => TypeOK'  BY TypeNext
<1>. QED  BY <1>1, <1>2, PTL DEF Spec

-----------------------------------------------------------------------------
(* What run() returns *)

Ending == {"exiting", "relaunch", "shutdown", "done"}

\* A monitor that stops has a code, and it is 0 only on the way out.
StopHasCode == stop => final # None /\ (final = 0 => pc \in Ending \ {"exiting"})

\* Past the exit edge the child is dead; before the cooldown it was clean.
ExitIsOfTheDead ==
  /\ pc \in {"exiting", "relaunch"} => ~child.running
  /\ pc = "relaunch" => child.code = 0

Success == ~child.running /\ child.code = 0 /\ (cfg.lifecycle = "restart_always" => stop)

ZeroIsSuccess ==
  /\ pc = "shutdown" => final # None /\ (final = 0 => Success)
  /\ result = 0 => Success
  /\ pc # "done" => result = None

ExitInv == StopHasCode /\ ExitIsOfTheDead /\ ZeroIsSuccess

\* A step of the loop that neither starts nor ends: if it stops the monitor, it
\* says with what code.
Ordinary ==
  /\ pc \notin Ending /\ pc' \notin Ending
  /\ result' = result
  /\ stop' => (stop /\ final' = final) \/ final' \notin {None, 0}

LEMMA OrdinaryKeeps ==
  ASSUME ExitInv, Ordinary
  PROVE  ExitInv'
<1>1. result # 0
  BY MonitorAssumption DEF MonitorAssumption, ExitInv, ZeroIsSuccess, Ordinary, Ending
<1>2. ExitIsOfTheDead'
  BY DEF Ordinary, Ending, ExitIsOfTheDead
<1>3. StopHasCode'
  BY DEF Ordinary, Ending, ExitInv, StopHasCode
<1>4. ZeroIsSuccess'
  BY <1>1 DEF Ordinary, Ending, ExitInv, ZeroIsSuccess
<1>. QED  BY <1>2, <1>3, <1>4 DEF ExitInv

LEMMA WorldExits ==
  ASSUME TypeOK, ExitInv, World
  PROVE  ExitInv'
<1>1. CASE HandleSignal
  <2>1. SignalCode # 0 /\ SignalCode # None
    BY MonitorAssumption DEF MonitorAssumption
  <2>. QED  BY <1>1, <2>1 DEF HandleSignal, ExitInv, StopHasCode, ExitIsOfTheDead, ZeroIsSuccess, Success
<1>2. CASE ChildExits
  BY <1>2 DEF ChildExits, ExitInv, StopHasCode, ExitIsOfTheDead, ZeroIsSuccess, Success
<1>3. CASE ChildPrints \/ GraceElapses \/ AttemptAges \/ StartAges
  <2>1. UNCHANGED <<cfg, pc, child, stop, final, result>>
    BY <1>3 DEF ChildPrints, GraceElapses, AttemptAges, StartAges
  <2>. QED  BY <2>1 DEF ExitInv, StopHasCode, ExitIsOfTheDead, ZeroIsSuccess, Success
<1>. QED  BY <1>1, <1>2, <1>3 DEF World

\* A start that raises leaves the code alone, or says why the monitor stops.
LEMMA LaunchFailsCode ==
  ASSUME TypeFlags, NEW dead, LaunchFails(dead, final)
  PROVE  stop' => (stop /\ final' = final) \/ final' \notin {None, 0}
<1>0. 1 # None /\ stop \in BOOLEAN
  BY MonitorAssumption DEF MonitorAssumption, TypeFlags
<1>1. CASE stop /\ final' = final
  BY <1>1
<1>2. CASE final' = 1
  BY <1>0, <1>2
<1>3. CASE ~stop /\ UNCHANGED stop
  <2>1. ~stop'
    BY <1>3
  <2>. QED  BY <2>1
<1>. QED  BY <1>1, <1>2, <1>3 DEF LaunchFails

LEMMA StepsOrdinary ==
  ASSUME TypeOK, MonitorStep
  PROVE  \/ Ordinary
         \/ StartMonitor \/ Status \/ HandleExit \/ RestartAfterCleanExit \/ WatchChild \/ Shutdown
<1>0. back \notin Ending /\ 1 # None /\ 130 # None
  BY MonitorAssumption DEF MonitorAssumption, TypeOK, TypeLoop, Ending
<1>. USE <1>0 DEF Ordinary
<1>1. CASE DrainLine \/ DrainDone \/ Tick \/ ObserveDetector \/ ObserveDone \/ SessionDone
           \/ ClaudeAttempt \/ OpenAttempt \/ TickVerifications
  <2>1. pc \notin Ending /\ pc' \notin Ending
    BY <1>1 DEF DrainLine, DrainDone, Tick, ObserveDetector, ObserveDone, SessionDone, ClaudeAttempt,
                OpenAttempt, TickVerifications, Fire, Ending
  <2>2. UNCHANGED stopVars
    BY <1>1 DEF DrainLine, DrainDone, Tick, ObserveDetector, ObserveDone, SessionDone, ClaudeAttempt,
                OpenAttempt, TickVerifications
  <2>. QED  BY <2>1, <2>2
<1>2. CASE DrainSessionAction
  <2>1. pc \notin Ending /\ pc' \notin Ending /\ result' = result
    BY <1>2 DEF DrainSessionAction, Ending
  <2>2. stop' => (stop /\ final' = final) \/ final' \notin {None, 0}
    <3>1. CASE \E a \in Actions : ActionRaised(a)
      BY <3>1, LaunchFailsCode DEF ActionRaised, TypeOK, TypeFlags
    <3>2. CASE \E a \in Actions : stop' = (stop \/ a = "abort") /\ final' = IF a = "abort" THEN 130 ELSE final
      <4>1. PICK a \in Actions : /\ stop' = (stop \/ a = "abort")
                                 /\ final' = IF a = "abort" THEN 130 ELSE final
        BY <3>2
      <4>2. CASE a = "abort"
        BY <4>1, <4>2
      <4>3. CASE a # "abort"
        <5>1. stop' => stop
          BY <4>1, <4>3
        <5>. QED  BY <4>1, <4>3, <5>1
      <4>. QED  BY <4>2, <4>3
    <3>. QED  BY <1>2, <3>1, <3>2 DEF DrainSessionAction
  <2>. QED  BY <2>1, <2>2
<1>3. CASE ConsumeInbox
  <2>1. pc \notin Ending /\ pc' \notin Ending /\ result' = result
    BY <1>3 DEF ConsumeInbox, Ending
  <2>2. stop' => (stop /\ final' = final) \/ final' \notin {None, 0}
    <3>1. CASE LaunchFails(child, final)
      BY <3>1, LaunchFailsCode DEF TypeOK
    <3>2. CASE UNCHANGED <<stop, final>>
      <4>1. stop' = stop /\ final' = final
        BY <3>2
      <4>2. CASE stop
        BY <4>1, <4>2
      <4>3. CASE ~stop
        BY <4>1, <4>3
      <4>. QED  BY <4>2, <4>3
    <3>3. CASE final' = 130
      BY <3>3
    <3>. QED  BY <1>3, <3>1, <3>2, <3>3 DEF ConsumeInbox, InboxCommand
  <2>. QED  BY <2>1, <2>2
<1>4. CASE FireDetection
  <2>1. pc \notin Ending /\ pc' \notin Ending /\ result' = result
    BY <1>4 DEF FireDetection, Decline, Heal, Ending
  <2>2. stop' => final' = 1
    BY <1>4 DEF FireDetection
  <2>. QED  BY <2>1, <2>2
<1>5. CASE DropDetection
  BY <1>5 DEF DropDetection, Return, Ending
<1>6. CASE ApplyOutcome
  <2>1. pc \notin Ending /\ pc' \notin Ending /\ result' = result
    BY <1>6 DEF ApplyOutcome, Return, Ending
  <2>2. stop' => (stop /\ final' = final) \/ final' \notin {None, 0}
    <3>1. CASE ActionRaised(outcome.action)
      BY <3>1, LaunchFailsCode DEF ActionRaised, TypeOK, TypeFlags
    <3>2. CASE stop' = TRUE /\ final' = 1
      BY <3>2
    <3>3. CASE UNCHANGED <<stop, final>>
      <4>1. stop' = stop /\ final' = final
        BY <3>3
      <4>2. CASE stop
        BY <4>1, <4>2
      <4>3. CASE ~stop
        BY <4>1, <4>3
      <4>. QED  BY <4>2, <4>3
    <3>. QED  BY <1>6, <3>1, <3>2, <3>3 DEF ApplyOutcome
  <2>. QED  BY <2>1, <2>2
<1>7. CASE NoAction
  BY <1>7 DEF NoAction, Return, Ending
<1>8. CASE RestartPolicyFallback
  <2>1. pc \notin Ending /\ pc' \notin Ending /\ result' = result
    BY <1>8 DEF RestartPolicyFallback, Return, Ending
  <2>2. stop' => (stop /\ final' = final) \/ final' \notin {None, 0}
    BY <1>8, LaunchFailsCode DEF RestartPolicyFallback, TypeOK
  <2>. QED  BY <2>1, <2>2
<1>. QED  BY <1>1, <1>2, <1>3, <1>4, <1>5, <1>6, <1>7, <1>8 DEF MonitorStep

\* The end of an iteration on the status just read.
LEMMA WatchdogExits ==
  ASSUME TypeOK, ExitInv, pc \in {"status", "watchdog"}, DeadChildWatchdog(child),
         cfg' = cfg, result' = result
  PROVE  ExitInv'
<1>0. /\ 1 # None /\ pc \notin Ending /\ "drain" \notin Ending /\ result # 0
      /\ stop \in BOOLEAN /\ child.code # None
  BY MonitorAssumption DEF MonitorAssumption, Ending, ExitInv, ZeroIsSuccess, TypeOK, TypeFlags,
     TypeChild, Children
<1>1. CASE pc' = NextLoop /\ UNCHANGED <<stop, final>>
  <2>1. CASE stop
    BY <1>0, <1>1, <2>1 DEF NextLoop, Ending, ExitInv, StopHasCode, ExitIsOfTheDead, ZeroIsSuccess
  <2>2. CASE ~stop
    BY <1>0, <1>1, <2>2 DEF NextLoop, Ending, ExitInv, StopHasCode, ExitIsOfTheDead, ZeroIsSuccess
  <2>. QED  BY <2>1, <2>2
<1>2. CASE pc' = "shutdown" /\ stop' = TRUE /\ final' = IF child.code # 0 THEN child.code ELSE 1
  BY <1>0, <1>2 DEF Ending, ExitInv, StopHasCode, ExitIsOfTheDead, ZeroIsSuccess
<1>. QED  BY <1>1, <1>2 DEF DeadChildWatchdog

LEMMA ExitStep ==
  ASSUME TypeOK, ExitInv, [Next]_vars
  PROVE  ExitInv'
<1>. USE DEF ExitInv, StopHasCode, ExitIsOfTheDead, ZeroIsSuccess, Success, Ending
<1>0. 1 # None /\ 0 # None /\ child.code # None
  BY MonitorAssumption DEF MonitorAssumption, TypeOK, TypeChild, Children
<1>1. CASE StartMonitor
  <2>1. CASE Launch /\ pc' = "drain" /\ UNCHANGED stopVars
    <3>1. pc = "start" /\ ~stop' /\ result' = result
      BY <1>1, <2>1 DEF StartMonitor, Launch
    <3>. QED  BY <1>0, <2>1, <3>1
  <2>2. CASE LaunchFails(child, 1) /\ result' = 1 /\ pc' = "done"
    BY <1>0, <2>2 DEF LaunchFails
  <2>. QED  BY <1>1, <2>1, <2>2 DEF StartMonitor
<1>2. CASE Status
  <2>1. CASE NewChildExit
    BY <1>2, <2>1 DEF Status, NewChildExit, StopDecided
  <2>2. CASE DeadChildWatchdog(child)
    <3>1. pc = "status" /\ cfg' = cfg /\ result' = result
      BY <1>2 DEF Status
    <3>. QED  BY <2>2, <3>1, WatchdogExits
  <2>. QED  BY <1>2, <2>1, <2>2 DEF Status
<1>3. CASE HandleExit
  <2>1. pc = "exiting" /\ UNCHANGED <<cfg, child, stop, result>>
    BY <1>3 DEF HandleExit
  <2>2. CASE WorkComplete(child.code) /\ final' = child.code /\ pc' = "shutdown"
    BY <1>0, <2>1, <2>2 DEF WorkComplete
  <2>3. CASE final' = (IF child.code # 0 THEN child.code ELSE 1) /\ pc' = "shutdown"
    BY <1>0, <2>1, <2>3
  <2>4. CASE final' = child.code /\ pc' = IF child.code = 0 THEN "relaunch" ELSE "watchdog"
    BY <1>0, <2>1, <2>4
  <2>. QED  BY <1>3, <2>2, <2>3, <2>4 DEF HandleExit
<1>4. CASE RestartAfterCleanExit
  <2>1. pc = "relaunch" /\ cfg' = cfg /\ result' = result
    BY <1>4 DEF RestartAfterCleanExit
  <2>2. CASE stop /\ pc' = "shutdown" /\ UNCHANGED <<childVars, stop, final>>
    BY <2>1, <2>2
  <2>3. CASE Launch /\ pc' = "watchdog" /\ UNCHANGED <<stop, final>>
    <3>1. ~stop' /\ result # 0
      BY <1>0, <2>1, <2>3 DEF Launch
    <3>. QED  BY <1>0, <2>1, <2>3, <3>1
  <2>4. CASE LaunchFails(child, 1) /\ pc' = "shutdown"
    BY <1>0, <2>1, <2>4 DEF LaunchFails
  <2>. QED  BY <1>4, <2>2, <2>3, <2>4 DEF RestartAfterCleanExit
<1>5. CASE WatchChild
  <2>1. pc = "watchdog" /\ cfg' = cfg /\ result' = result /\ DeadChildWatchdog(child)
    BY <1>5 DEF WatchChild
  <2>. QED  BY <2>1, WatchdogExits
<1>6. CASE Shutdown
  <2>1. /\ pc = "shutdown" /\ pc' = "done" /\ UNCHANGED <<cfg, stop, final>>
        /\ ~child.running => child' = child
        /\ result' = IF final = None THEN 0 ELSE final
    BY <1>6 DEF Shutdown, Stopped
  <2>. QED  BY <2>1
<1>7. CASE UNCHANGED vars
  BY <1>7
<1>. HIDE DEF ExitInv
<1>8. CASE Ordinary
  BY <1>8, OrdinaryKeeps
<1>. QED  BY <1>1, <1>2, <1>3, <1>4, <1>5, <1>6, <1>7, <1>8, WorldExits, StepsOrdinary
          DEF Next, Terminated

\* run() returns 0 only over a child that exited with 0, and in restart_always only
\* because the monitor was told to stop (monitor.py, run and _handle_exit).
THEOREM ZeroMeansSuccess == Spec => []ExitZeroMeansSuccess
<1>1. Init => TypeOK /\ ExitInv
  <2>1. Init => ExitInv
    BY MonitorAssumption DEF MonitorAssumption, Init, ExitInv, StopHasCode, ExitIsOfTheDead,
       ZeroIsSuccess, Ending
  <2>. QED  BY <2>1, TypeInit
<1>2. TypeOK /\ ExitInv /\ [Next]_vars => TypeOK' /\ ExitInv'
  BY TypeNext, ExitStep
<1>3. ExitInv => ExitZeroMeansSuccess
  BY DEF ExitInv, ZeroIsSuccess, Success, ExitZeroMeansSuccess
<1>. QED  BY <1>1, <1>2, <1>3, PTL DEF Spec

=============================================================================
