-------------------------- MODULE MonitorFixProofs --------------------------
(***************************************************************************)
(* The monitor's bookkeeping of its fixes, proved: no attempt is lost, the *)
(* hourly budget of a detector holds, the escalation is justified, nothing *)
(* brings a child back once its failure has repeated past the cap, and a   *)
(* detector paused over a regressed fix is not healed again.               *)
(***************************************************************************)
EXTENDS MonitorProofs

USE DEF vars, loopVars, childVars, stopVars, budgetVars, watchVars, fixVars, guardVars

\* Between the decision to heal and its attempt, the detector has nothing open.
NothingOpen ==
  pc \in {"claude", "apply"} =>
    /\ pending[det.det] = 0
    /\ \A i \in DOMAIN ledger : Undecided(i) => ledger[i].det # det.det

\* While its action runs, the attempt is the only one open for its detector.
OneOpen ==
  pc = "acting" =>
    /\ pending[det.det] = 0
    /\ ledger[Row].det = det.det /\ Undecided(Row)
    /\ \A i \in DOMAIN ledger : Undecided(i) /\ ledger[i].det = det.det => i = Row

FixInv == TypeOK /\ PendingTracked /\ NothingOpen /\ OneOpen

\* A healer that was asked had an attempt left, and the hour's attempts are
\* among the stamps that are kept.
AttemptLeft ==
  /\ \A d \in Detectors : fresh[d] <= bucket[d]
  /\ pc = "claude" \/ (pc = "apply" /\ outcome # None) =>
       (cfg.attemptLimit > 0 => bucket[det.det] < cfg.attemptLimit)

-----------------------------------------------------------------------------
(* Steps that do not touch the fixes *)

Frame ==
  /\ cfg' = cfg /\ ledger' = ledger /\ pending' = pending /\ bucket' = bucket
  /\ \A d \in Detectors : fresh'[d] <= fresh[d]
  /\ stop => stop'
  /\ pc = "acting" => pc' = "acting"
  /\ pc' = "acting" => pc = "acting" /\ det' = det
  /\ pc' \in {"claude", "apply"} => pc \in {"claude", "apply"} /\ det' = det
  /\ pc' = "claude" \/ (pc' = "apply" /\ outcome' # None) =>
       pc = "claude" \/ (pc = "apply" /\ outcome # None)

LEMMA Framed ==
  TypeOK /\ [Next]_vars =>
    Frame \/ FireDetection \/ OpenAttempt \/ ApplyOutcome \/ TickVerifications
<1>. SUFFICES ASSUME TypeOK, [Next]_vars
     PROVE  Frame \/ FireDetection \/ OpenAttempt \/ ApplyOutcome \/ TickVerifications
  OBVIOUS
<1>0. /\ back \in {"drain", "observe"}
      /\ fresh \in [Detectors -> Nat]
  BY DEF TypeOK, TypeLoop, TypeGuards
<1>. USE <1>0 DEF Frame
<1>1. CASE World \/ Terminated \/ UNCHANGED vars
  <2>1. CASE AttemptAges
    <3>1. \A d \in Detectors : fresh'[d] <= fresh[d]
      BY <2>1 DEF AttemptAges
    <3>. QED  BY <2>1, <3>1 DEF AttemptAges
  <2>2. CASE HandleSignal
    BY <2>2 DEF HandleSignal
  <2>3. CASE ChildExits \/ ChildPrints \/ GraceElapses \/ StartAges
    <3>1. stop => stop'
      BY <2>3 DEF ChildExits, ChildPrints, GraceElapses, StartAges
    <3>2. UNCHANGED <<cfg, ledger, pending, bucket, fresh, loopVars>>
      BY <2>3 DEF ChildExits, ChildPrints, GraceElapses, StartAges
    <3>. QED  BY <3>1, <3>2
  <2>. QED  BY <1>1, <2>1, <2>2, <2>3 DEF World, Terminated
<1>2. CASE StartMonitor \/ DrainLine \/ DrainDone \/ Tick \/ ObserveDetector
           \/ ObserveDone \/ SessionDone
  BY <1>2 DEF StartMonitor, LaunchFails, DrainLine, DrainDone, Tick, ObserveDetector,
              ObserveDone, SessionDone, Fire
<1>3. CASE DrainSessionAction \/ ConsumeInbox
  BY <1>3 DEF DrainSessionAction, ConsumeInbox, InboxCommand, ActionRaised, LaunchFails
<1>4. CASE Status \/ HandleExit \/ RestartAfterCleanExit \/ WatchChild \/ Shutdown
  BY <1>4 DEF Status, HandleExit, RestartAfterCleanExit, WatchChild, Shutdown,
              DeadChildWatchdog, NextLoop, LaunchFails
<1>5. CASE DropDetection \/ ClaudeAttempt \/ NoAction \/ RestartPolicyFallback
  <2>1. CASE DropDetection
    BY <2>1 DEF DropDetection, Return
  <2>2. CASE ClaudeAttempt
    BY <2>2 DEF ClaudeAttempt
  <2>3. CASE NoAction
    BY <2>3 DEF NoAction, Return
  <2>4. CASE RestartPolicyFallback
    BY <2>4 DEF RestartPolicyFallback, Return, LaunchFails
  <2>. QED  BY <1>5, <2>1, <2>2, <2>3, <2>4
<1>. QED  BY <1>1, <1>2, <1>3, <1>4, <1>5 DEF Next, MonitorStep

-----------------------------------------------------------------------------
(* No attempt is lost *)

LEMMA FixInit == Init => FixInv /\ AttemptLeft
<1>1. Init => TypeOK
  BY TypeInit
<1>2. Init => PendingTracked /\ NothingOpen /\ OneOpen
  BY DEF Init, PendingTracked, NothingOpen, OneOpen
<1>3. Init => AttemptLeft
  BY DEF Init, AttemptLeft
<1>. QED  BY <1>1, <1>2, <1>3 DEF FixInv

\* A verdict changes the status of its rows and nothing else.
LEMMA VerdictRows ==
  ASSUME TypeOK, NEW rows, NEW status \in {"pending", "kept", "regressed", "crashed"},
         ledger' = Verdict(rows, status)
  PROVE  /\ Len(ledger') = Len(ledger) /\ DOMAIN ledger' = DOMAIN ledger
         /\ \A i \in DOMAIN ledger :
              /\ ledger'[i].det = ledger[i].det
              /\ i \in rows => ledger'[i].status = status
              /\ i \notin rows => ledger'[i] = ledger[i]
<1>1. /\ ledger' \in Seq(Attempts) /\ ledger \in Seq(Attempts)
      /\ DOMAIN ledger' = DOMAIN ledger
  BY VerdictType DEF TypeOK, TypeFixes
<1>2. \A i \in DOMAIN ledger : ledger[i] \in Attempts
  BY <1>1
<1>3. \A i \in DOMAIN ledger :
        ledger'[i] = IF i \in rows THEN [ledger[i] EXCEPT !.status = status] ELSE ledger[i]
  BY DEF Verdict
<1>4. \A i \in DOMAIN ledger :
        /\ ledger'[i].det = ledger[i].det
        /\ i \in rows => ledger'[i].status = status
        /\ i \notin rows => ledger'[i] = ledger[i]
  BY <1>2, <1>3 DEF Attempts
<1>5. Len(ledger') = Len(ledger)
  BY <1>1
<1>. QED  BY <1>1, <1>4, <1>5

LEMMA FixFire == FixInv /\ FireDetection => PendingTracked' /\ NothingOpen' /\ OneOpen'
<1>. SUFFICES ASSUME FixInv, FireDetection
     PROVE  PendingTracked' /\ NothingOpen' /\ OneOpen'
  OBVIOUS
<1>. DEFINE d == det.det
            row == pending[d]
<1>1. /\ TypeOK /\ PendingTracked
      /\ d \in Detectors /\ pending \in [Detectors -> Nat]
      /\ pc = "fire" /\ ~stop /\ det' = det
      /\ pc' \in {"apply", "claude"}
  BY DEF FixInv, TypeOK, TypeFixes, TypeLoop, Handling, Detections, FireDetection,
         Decline, Heal
<1>2. /\ ledger' = Verdict(Regressed(row), "regressed")
      /\ pending' = [pending EXCEPT ![d] = 0]
  BY DEF FireDetection, HandlePotentialRegression
<1>3. \A i : i \in Regressed(row) <=> row # 0 /\ i = row
  BY DEF Regressed
<1>. HIDE DEF d
<1>4. \A i \in DOMAIN ledger : ledger[i].status = "pending" => pending[ledger[i].det] = i
  BY <1>1 DEF PendingTracked, Undecided
<1>5. \A i \in DOMAIN ledger : i \in Nat \ {0} /\ ledger[i].det \in Detectors
  <2>1. \A i \in DOMAIN ledger : i \in Nat \ {0} /\ ledger[i] \in Attempts
    BY <1>1 DEF TypeOK, TypeFixes
  <2>. QED  BY <2>1 DEF Attempts
<1>6. /\ DOMAIN ledger' = DOMAIN ledger
      /\ \A i \in DOMAIN ledger :
           /\ ledger'[i].det = ledger[i].det
           /\ i \in Regressed(row) => ledger'[i].status = "regressed"
           /\ i \notin Regressed(row) => ledger'[i] = ledger[i]
  BY <1>1, <1>2, VerdictRows
<1>7. \A i \in DOMAIN ledger : ledger'[i].status = "pending" =>
        ledger[i].det # d /\ pending'[ledger[i].det] = i
  BY <1>1, <1>2, <1>3, <1>4, <1>5, <1>6
<1>8. \A e \in Detectors : pending'[e] # 0 =>
        /\ e # d /\ pending'[e] = pending[e] /\ pending[e] \in DOMAIN ledger
        /\ ledger[pending[e]].det = e /\ ledger[pending[e]].status = "pending"
  BY <1>1, <1>2 DEF PendingTracked, Undecided, TypeOK, TypeFixes
<1>9. \A e \in Detectors : pending'[e] # 0 =>
        ledger'[pending'[e]].det = e /\ ledger'[pending'[e]].status = "pending"
  <2>1. ASSUME NEW e \in Detectors, pending'[e] # 0
        PROVE  pending[e] \notin Regressed(row)
    <3>1. row # 0 => row \in DOMAIN ledger /\ ledger[row].det = d
      BY <1>1 DEF PendingTracked, TypeOK, TypeFixes
    <3>. QED  BY <2>1, <1>3, <1>8, <3>1
  <2>. QED  BY <2>1, <1>6, <1>8
<1>10. PendingTracked'
  BY <1>6, <1>7, <1>9 DEF PendingTracked, Undecided
<1>11. NothingOpen'
  BY <1>1, <1>2, <1>6, <1>7 DEF NothingOpen, Undecided, d
<1>12. OneOpen'
  BY <1>1 DEF OneOpen
<1>. QED  BY <1>10, <1>11, <1>12

LEMMA FixOpen ==
  FixInv /\ OpenAttempt => PendingTracked' /\ NothingOpen' /\ OneOpen'
<1>. SUFFICES ASSUME FixInv, OpenAttempt
     PROVE  PendingTracked' /\ NothingOpen' /\ OneOpen'
  OBVIOUS
<1>. DEFINE n == Len(ledger) + 1
<1>1. PICK branch \in BOOLEAN :
        ledger' = Append(ledger, [det |-> det.det, source |-> outcome.source,
                                  status |-> "pending", branch |-> branch])
  BY DEF OpenAttempt
<1>2. /\ TypeOK /\ PendingTracked /\ NothingOpen
      /\ pc = "apply" /\ pc' = "acting" /\ det' = det
      /\ UNCHANGED <<pending, stop>>
      /\ det.det \in Detectors
  BY DEF FixInv, OpenAttempt, TypeOK, TypeLoop, Handling, Detections
<1>3. /\ ledger \in Seq(Attempts)
      /\ \A i \in DOMAIN ledger : i \in Nat /\ i # n
  BY <1>2 DEF TypeOK, TypeFixes
<1>4. /\ DOMAIN ledger' = DOMAIN ledger \cup {n}
      /\ Len(ledger') = n
      /\ \A i \in DOMAIN ledger : ledger'[i] = ledger[i]
      /\ ledger'[n].det = det.det /\ ledger'[n].status = "pending"
  BY <1>1, <1>3
<1>. HIDE DEF n
<1>5. pending[det.det] = 0
  BY <1>2 DEF NothingOpen
<1>6. \A i \in DOMAIN ledger : ledger[i].status = "pending" => ledger[i].det # det.det
  BY <1>2 DEF NothingOpen, Undecided
<1>7. OneOpen'
  BY <1>2, <1>4, <1>5, <1>6 DEF OneOpen, Undecided, Row
<1>8. NothingOpen'
  BY <1>2 DEF NothingOpen
<1>9. \A i \in DOMAIN ledger' : ledger'[i].status = "pending" =>
        pending'[ledger'[i].det] = i \/ i = n \/ stop'
  BY <1>2, <1>4 DEF PendingTracked, Undecided
<1>10. \A e \in Detectors : pending'[e] # 0 =>
        ledger'[pending'[e]].det = e /\ ledger'[pending'[e]].status = "pending"
  BY <1>2, <1>4 DEF PendingTracked, Undecided, TypeOK, TypeFixes
<1>11. PendingTracked'
  BY <1>2, <1>4, <1>9, <1>10 DEF PendingTracked, Undecided, Row
<1>. QED  BY <1>7, <1>8, <1>11

LEMMA FixApply ==
  FixInv /\ ApplyOutcome => PendingTracked' /\ NothingOpen' /\ OneOpen'
<1>. SUFFICES ASSUME FixInv, ApplyOutcome
     PROVE  PendingTracked' /\ NothingOpen' /\ OneOpen'
  OBVIOUS
<1>1. /\ TypeOK /\ PendingTracked /\ OneOpen
      /\ pc = "acting" /\ pc' \in {"drain", "observe"}
      /\ det.det \in Detectors /\ pending \in [Detectors -> Nat]
      /\ Row \in DOMAIN ledger /\ Row # 0
  BY DEF FixInv, ApplyOutcome, Return, TypeOK, TypeLoop, TypeFixes, Handling,
         Detections, Row
<1>2. NothingOpen' /\ OneOpen'
  BY <1>1 DEF NothingOpen, OneOpen
<1>3. /\ pending[det.det] = 0
      /\ ledger[Row].det = det.det /\ ledger[Row].status = "pending"
  BY <1>1 DEF OneOpen, Undecided
<1>4. CASE stop' /\ UNCHANGED <<ledger, pending>>
  <2>1. \A e \in Detectors : pending[e] # 0 =>
          ledger[pending[e]].det = e /\ ledger[pending[e]].status = "pending"
    BY <1>1 DEF PendingTracked, Undecided
  <2>. QED  BY <1>2, <1>4, <2>1 DEF PendingTracked, Undecided
<1>5. CASE /\ pending' = [pending EXCEPT ![det.det] = Row]
           /\ UNCHANGED <<ledger, stop>>
  <2>1. \A e \in Detectors : pending'[e] = IF e = det.det THEN Row ELSE pending[e]
    BY <1>1, <1>5
  <2>2. \A i \in DOMAIN ledger : ledger[i].det \in Detectors
    <3>1. \A i \in DOMAIN ledger : ledger[i] \in Attempts
      BY <1>1 DEF TypeOK, TypeFixes
    <3>. QED  BY <3>1 DEF Attempts
  <2>3. \A i \in DOMAIN ledger : ledger[i].status = "pending" =>
          pending'[ledger[i].det] = i \/ stop
    BY <1>1, <1>3, <2>1, <2>2 DEF PendingTracked, OneOpen, Undecided
  <2>4. \A e \in Detectors : pending'[e] # 0 =>
          ledger[pending'[e]].det = e /\ ledger[pending'[e]].status = "pending"
    BY <1>1, <1>3, <2>1 DEF PendingTracked, Undecided
  <2>. QED  BY <1>2, <1>5, <2>3, <2>4 DEF PendingTracked, Undecided
<1>6. CASE /\ ledger' = Verdict({Row}, "crashed")
           /\ UNCHANGED pending
           /\ stop => stop'
  <2>1. /\ DOMAIN ledger' = DOMAIN ledger
        /\ \A i \in DOMAIN ledger :
             /\ ledger'[i].det = ledger[i].det
             /\ i = Row => ledger'[i].status = "crashed"
             /\ i # Row => ledger'[i] = ledger[i]
    <3>. DEFINE rows == {Row}
    <3>1. \A i : i \in rows <=> i = Row
      OBVIOUS
    <3>2. ledger' = Verdict(rows, "crashed")
      BY <1>6
    <3>. HIDE DEF rows
    <3>. QED  BY <1>1, <3>1, <3>2, VerdictRows
  <2>2. \A i \in DOMAIN ledger : ledger'[i].status = "pending" =>
          pending'[ledger'[i].det] = i \/ stop'
    BY <1>1, <1>6, <2>1 DEF PendingTracked, Undecided
  <2>3. \A e \in Detectors : pending[e] # 0 => pending[e] # Row
    BY <1>1, <1>3 DEF PendingTracked
  <2>4. \A e \in Detectors : pending[e] # 0 =>
          ledger'[pending[e]].det = e /\ ledger'[pending[e]].status = "pending"
    BY <1>1, <2>1, <2>3 DEF PendingTracked, Undecided, TypeOK, TypeFixes
  <2>. QED  BY <1>2, <1>6, <2>1, <2>2, <2>4 DEF PendingTracked, Undecided
<1>7. ActionRaised(outcome.action) => (stop => stop')
  BY DEF ActionRaised, LaunchFails
<1>. QED  BY <1>2, <1>4, <1>5, <1>6, <1>7 DEF ApplyOutcome

LEMMA FixVerify ==
  FixInv /\ TickVerifications => PendingTracked' /\ NothingOpen' /\ OneOpen'
<1>. SUFFICES ASSUME FixInv, TickVerifications
     PROVE  PendingTracked' /\ NothingOpen' /\ OneOpen'
  OBVIOUS
<1>1. PICK expired \in SUBSET {d \in Detectors : pending[d] # 0} :
        /\ ledger' = Verdict({pending[d] : d \in expired}, "kept")
        /\ pending' = [d \in Detectors |-> IF d \in expired THEN 0 ELSE pending[d]]
  BY DEF TickVerifications
<1>. DEFINE rows == {pending[d] : d \in expired}
<1>2. /\ TypeOK /\ PendingTracked
      /\ pc = "inbox" /\ pc' = "status" /\ UNCHANGED stop
  BY DEF FixInv, TickVerifications
<1>3. NothingOpen' /\ OneOpen'
  BY <1>2 DEF NothingOpen, OneOpen
<1>4. \A i : i \in rows <=> \E d \in expired : i = pending[d]
  OBVIOUS
<1>5. ledger' = Verdict(rows, "kept")
  BY <1>1
<1>. HIDE DEF rows
<1>6. /\ DOMAIN ledger' = DOMAIN ledger
      /\ \A i \in DOMAIN ledger :
           /\ ledger'[i].det = ledger[i].det
           /\ i \in rows => ledger'[i].status = "kept"
           /\ i \notin rows => ledger'[i] = ledger[i]
  BY <1>2, <1>5, VerdictRows
<1>7. \A i \in DOMAIN ledger : ledger[i].det \in Detectors
  <2>1. \A i \in DOMAIN ledger : ledger[i] \in Attempts
    BY <1>2 DEF TypeOK, TypeFixes
  <2>. QED  BY <2>1 DEF Attempts
<1>8. ASSUME NEW i \in DOMAIN ledger, ledger'[i].status = "pending", ~stop
      PROVE  pending'[ledger[i].det] = i
  <2>1. i \notin rows /\ ledger[i].status = "pending"
    BY <1>6, <1>8
  <2>2. pending[ledger[i].det] = i
    BY <1>2, <1>8, <2>1 DEF PendingTracked, Undecided
  <2>3. ledger[i].det \notin expired
    BY <1>4, <2>1, <2>2
  <2>. QED  BY <1>1, <1>7, <2>2, <2>3
<1>9. ASSUME NEW e \in Detectors, pending'[e] # 0
      PROVE  ledger'[pending'[e]].det = e /\ ledger'[pending'[e]].status = "pending"
  <2>1. e \notin expired /\ pending'[e] = pending[e] /\ pending[e] # 0
    BY <1>1, <1>9
  <2>2. /\ pending[e] \in DOMAIN ledger
        /\ ledger[pending[e]].det = e /\ ledger[pending[e]].status = "pending"
    BY <1>2, <2>1 DEF PendingTracked, Undecided, TypeOK, TypeFixes
  <2>3. \A d \in expired : ledger[pending[d]].det = d
    BY <1>2 DEF PendingTracked
  <2>4. pending[e] \notin rows
    BY <1>4, <2>1, <2>2, <2>3
  <2>. QED  BY <1>6, <2>1, <2>2, <2>4
<1>10. PendingTracked'
  BY <1>2, <1>6, <1>8, <1>9 DEF PendingTracked, Undecided
<1>. QED  BY <1>3, <1>10

LEMMA FixFrame == FixInv /\ Frame => PendingTracked' /\ NothingOpen' /\ OneOpen'
<1>. SUFFICES ASSUME FixInv, Frame
     PROVE  PendingTracked' /\ NothingOpen' /\ OneOpen'
  OBVIOUS
<1>. USE DEF FixInv, Frame
<1>1. NothingOpen'
  BY DEF NothingOpen, Undecided
<1>2. OneOpen'
  BY DEF OneOpen, Undecided, Row
<1>3. \A i \in DOMAIN ledger : ledger[i].status = "pending" =>
        pending[ledger[i].det] = i \/ (pc' = "acting" /\ i = Len(ledger)) \/ stop'
  BY DEF PendingTracked, Undecided, Row
<1>4. PendingTracked'
  BY <1>3 DEF PendingTracked, Undecided, Row
<1>. QED  BY <1>1, <1>2, <1>4

LEMMA FixNext == FixInv /\ [Next]_vars => FixInv'
<1>1. FixInv /\ [Next]_vars => TypeOK'
  BY TypeNext DEF FixInv
<1>2. FixInv /\ [Next]_vars => PendingTracked' /\ NothingOpen' /\ OneOpen'
  BY Framed, FixFrame, FixFire, FixOpen, FixApply, FixVerify DEF FixInv
<1>. QED  BY <1>1, <1>2 DEF FixInv

LEMMA FixSafe == Spec => []FixInv
<1>1. Init => FixInv  BY FixInit
<1>2. FixInv /\ [Next]_vars => FixInv'  BY FixNext
<1>. QED  BY <1>1, <1>2, PTL DEF Spec

\* No attempt is lost: a pending row is under verification or being applied,
\* unless the monitor is stopping.
THEOREM NoAttemptLost == Spec => []PendingTracked
<1>1. FixInv => PendingTracked  BY DEF FixInv
<1>. QED  BY <1>1, FixSafe, PTL

-----------------------------------------------------------------------------
(* Budgets *)

LEMMA AttemptLeftNext ==
  TypeOK /\ AttemptLeft /\ HealerBudgetRespected /\ [Next]_vars
    => AttemptLeft' /\ HealerBudgetRespected'
<1>. SUFFICES ASSUME TypeOK, AttemptLeft, HealerBudgetRespected, [Next]_vars
     PROVE  AttemptLeft' /\ HealerBudgetRespected'
  OBVIOUS
<1>0. /\ bucket \in [Detectors -> Nat] /\ fresh \in [Detectors -> Nat]
      /\ cfg.attemptLimit \in Nat
  BY MonitorAssumption DEF MonitorAssumption, ConfigType, TypeOK, TypeGuards, TypeLoop
<1>0a. fresh' \in [Detectors -> Nat]
  BY TypeNext DEF TypeOK, TypeGuards
<1>1. CASE Frame
  BY <1>0, <1>0a, <1>1 DEF Frame, AttemptLeft, HealerBudgetRespected
<1>2. CASE FireDetection
  <2>1. UNCHANGED <<cfg, bucket, fresh, det>>
    BY <1>2 DEF FireDetection
  <2>2. outcome' # None \/ pc' = "claude" => ~AttemptsExhausted(det.det)
    BY <1>2 DEF FireDetection, Decline, Heal
  <2>3. det.det \in Detectors
    BY <1>2 DEF FireDetection, TypeOK, TypeLoop, Handling, Detections
  <2>4. cfg.attemptLimit > 0 /\ (outcome' # None \/ pc' = "claude")
          => bucket[det.det] < cfg.attemptLimit
    BY <1>0, <2>2, <2>3 DEF AttemptsExhausted
  <2>. QED  BY <2>1, <2>4 DEF AttemptLeft, HealerBudgetRespected
<1>3. CASE OpenAttempt
  <2>1. /\ det.det \in Detectors /\ pc = "apply" /\ outcome # None /\ pc' = "acting"
        /\ cfg' = cfg
        /\ fresh' = [fresh EXCEPT ![det.det] = @ + 1]
        /\ bucket' = [bucket EXCEPT ![det.det] = fresh[det.det] + 1]
    BY <1>3 DEF OpenAttempt, HasAction, TypeOK, TypeLoop, Handling, Detections
  <2>2. cfg.attemptLimit > 0 => fresh[det.det] < cfg.attemptLimit
    BY <1>0, <2>1 DEF AttemptLeft
  <2>3. AttemptLeft'
    BY <1>0, <2>1 DEF AttemptLeft
  <2>. QED  BY <1>0, <2>1, <2>2, <2>3 DEF HealerBudgetRespected
<1>4. CASE ApplyOutcome \/ TickVerifications
  <2>1. UNCHANGED <<cfg, bucket, fresh>> /\ pc' \notin {"claude", "apply"}
    BY <1>4 DEF ApplyOutcome, TickVerifications, Return, TypeOK, TypeLoop
  <2>. QED  BY <2>1 DEF AttemptLeft, HealerBudgetRespected
<1>. QED  BY <1>1, <1>2, <1>3, <1>4, Framed

\* Within any hour a detector gets at most its budget of attempts.
THEOREM HourlyBudget == Spec => []HealerBudgetRespected
<1>1. Init => TypeOK /\ AttemptLeft /\ HealerBudgetRespected
  <2>1. Init => cfg.attemptLimit \in Nat
    BY MonitorAssumption DEF MonitorAssumption, ConfigType, Init
  <2>2. Init => HealerBudgetRespected
    BY <2>1 DEF Init, HealerBudgetRespected
  <2>. QED  BY <2>2, TypeInit, FixInit
<1>2. TypeOK /\ AttemptLeft /\ HealerBudgetRespected /\ [Next]_vars
        => TypeOK' /\ AttemptLeft' /\ HealerBudgetRespected'
  BY TypeNext, AttemptLeftNext
<1>. QED  BY <1>1, <1>2, PTL DEF Spec

\* The counter of unverified restarts goes up by one, except for a verification.
LEMMA Counted ==
  [Next]_vars =>
    \/ TickVerifications \/ FireDetection
    \/ /\ cfg' = cfg /\ escalation' = escalation
       /\ restarts' = restarts \/ restarts' = restarts + 1
<1>. SUFFICES ASSUME [Next]_vars, ~TickVerifications, ~FireDetection
     PROVE  /\ cfg' = cfg /\ escalation' = escalation
            /\ restarts' = restarts \/ restarts' = restarts + 1
  OBVIOUS
<1>1. CASE World \/ Terminated \/ UNCHANGED vars
  BY <1>1 DEF World, ChildExits, ChildPrints, HandleSignal, GraceElapses,
              AttemptAges, StartAges, Terminated
<1>2. CASE StartMonitor \/ DrainLine \/ DrainDone \/ Tick \/ ObserveDetector
           \/ ObserveDone \/ SessionDone
  BY <1>2 DEF StartMonitor, DrainLine, DrainDone, Tick, ObserveDetector,
              ObserveDone, SessionDone
<1>3. CASE DrainSessionAction \/ ConsumeInbox
  BY <1>3 DEF DrainSessionAction, ConsumeInbox
<1>4. CASE Status \/ HandleExit \/ RestartAfterCleanExit \/ WatchChild \/ Shutdown
  BY <1>4 DEF Status, HandleExit, RestartAfterCleanExit, WatchChild, Shutdown
<1>5. CASE DropDetection \/ ClaudeAttempt \/ OpenAttempt \/ NoAction
  BY <1>5 DEF DropDetection, ClaudeAttempt, OpenAttempt, NoAction
<1>6. CASE ApplyOutcome \/ RestartPolicyFallback
  BY <1>6 DEF ApplyOutcome, RestartPolicyFallback
<1>. QED  BY <1>1, <1>2, <1>3, <1>4, <1>5, <1>6 DEF Next, MonitorStep

LEMMA EscalationNext ==
  TypeOK /\ EscalationSound /\ [Next]_vars => EscalationSound'
<1>. SUFFICES ASSUME TypeOK, EscalationSound, [Next]_vars
     PROVE  EscalationSound'
  OBVIOUS
<1>1. restarts \in Nat /\ cfg.threshold \in Nat
  BY MonitorAssumption DEF MonitorAssumption, ConfigType, TypeOK, TypeVerdict, TypeLoop
<1>2. CASE TickVerifications
  BY <1>2 DEF TickVerifications, EscalationSound
<1>3. CASE FireDetection
  <2>1. UNCHANGED <<cfg, restarts>>
    BY <1>3 DEF FireDetection
  <2>2. escalation' => escalation \/ restarts >= cfg.threshold
    BY <1>3 DEF FireDetection, Decline, Heal
  <2>. QED  BY <2>1, <2>2 DEF EscalationSound
<1>4. CASE /\ cfg' = cfg /\ escalation' = escalation
           /\ restarts' = restarts \/ restarts' = restarts + 1
  BY <1>1, <1>4 DEF EscalationSound
<1>5. \/ TickVerifications \/ FireDetection
      \/ /\ cfg' = cfg /\ escalation' = escalation
         /\ restarts' = restarts \/ restarts' = restarts + 1
  BY Counted
<1>. QED  BY <1>2, <1>3, <1>4, <1>5

\* The agent is forced only after the restarts that justify it.
THEOREM EscalationJustified == Spec => []EscalationSound
<1>1. Init => TypeOK /\ EscalationSound
  BY TypeInit DEF Init, EscalationSound
<1>2. TypeOK /\ EscalationSound /\ [Next]_vars => TypeOK' /\ EscalationSound'
  BY TypeNext, EscalationNext
<1>. QED  BY <1>1, <1>2, PTL DEF Spec

LEMMA RepeatsKept ==
  ASSUME [Next]_vars, ~FireDetection
  PROVE  repeats' = repeats /\ paused' = paused
<1>1. CASE World \/ Terminated \/ UNCHANGED vars
  BY <1>1 DEF World, ChildExits, ChildPrints, HandleSignal, GraceElapses,
              AttemptAges, StartAges, Terminated
<1>2. CASE StartMonitor \/ DrainLine \/ DrainDone \/ Tick \/ ObserveDetector
           \/ ObserveDone \/ SessionDone
  BY <1>2 DEF StartMonitor, DrainLine, DrainDone, Tick, ObserveDetector,
              ObserveDone, SessionDone
<1>3. CASE DrainSessionAction \/ ConsumeInbox
  BY <1>3 DEF DrainSessionAction, ConsumeInbox
<1>4. CASE Status \/ HandleExit \/ RestartAfterCleanExit \/ WatchChild \/ Shutdown
  BY <1>4 DEF Status, HandleExit, RestartAfterCleanExit, WatchChild, Shutdown
<1>5. CASE DropDetection \/ ClaudeAttempt \/ OpenAttempt \/ NoAction
           \/ TickVerifications
  BY <1>5 DEF DropDetection, ClaudeAttempt, OpenAttempt, NoAction,
              TickVerifications
<1>6. CASE ApplyOutcome \/ RestartPolicyFallback
  BY <1>6 DEF ApplyOutcome, RestartPolicyFallback
<1>. QED  BY <1>1, <1>2, <1>3, <1>4, <1>5, <1>6 DEF Next, MonitorStep

\* A stop is never taken back.
LEMMA StopKept ==
  ASSUME TypeOK, [Next]_vars, ~FireDetection
  PROVE  cfg' = cfg /\ (stop => stop')
<1>1. CASE Frame
  BY <1>1 DEF Frame
<1>2. CASE OpenAttempt
  BY <1>2 DEF OpenAttempt
<1>3. CASE ApplyOutcome
  BY <1>3 DEF ApplyOutcome, ActionRaised, LaunchFails
<1>4. CASE TickVerifications
  BY <1>4 DEF TickVerifications
<1>. QED  BY <1>1, <1>2, <1>3, <1>4, Framed

\* The streak of one failure is past its cap.
PastCap == cfg.identicalCap > 0 /\ repeats > cfg.identicalCap

\* The places of the thread from which a child is launched, an attempt opened, or the
\* code of an exit taken over: past the cap it reaches none of them.
Deciding == {"start", "exiting", "relaunch", "claude", "acting", "fallback"}

StopsForGood ==
  /\ stop /\ final \notin {None, 0}
  /\ pc \notin Deciding
  /\ pc = "apply" => outcome = None

RepeatInv == PastCap => StopsForGood

\* What RepeatGuard says of a step.
NothingBroughtBack ==
  child'.id = child.id /\ Len(ledger') = Len(ledger) /\ stop' /\ final' \notin {None, 0}

LEMMA StopsOnItsWay ==
  ASSUME TypeOK, StopsForGood, [Next]_vars
  PROVE  StopsForGood' /\ NothingBroughtBack
<1>0. /\ child \in Children /\ None \notin Int /\ SignalCode \in Int \ {0}
      /\ stop /\ final \notin {None, 0}
      /\ back \in {"drain", "observe"}
      /\ pc \notin Deciding /\ (pc = "apply" => ~HasAction)
      /\ pc = "apply" => outcome = None
  BY MonitorAssumption DEF MonitorAssumption, TypeOK, TypeChild, TypeLoop, StopsForGood, HasAction
<1>0a. 1 \notin {None, 0} /\ 130 \notin {None, 0}
  BY <1>0
<1>1. \A c : Stopped(c).id = child.id
  BY <1>0 DEF Stopped, Children
<1>. USE <1>0, <1>0a DEF StopsForGood, NothingBroughtBack, Deciding
<1>2. CASE World \/ Terminated \/ UNCHANGED vars
  <2>1. CASE ChildExits
    <3>1. child'.id = child.id
      BY <2>1 DEF ChildExits, Children
    <3>. QED  BY <2>1, <3>1 DEF ChildExits
  <2>2. CASE HandleSignal
    BY <2>2 DEF HandleSignal
  <2>3. CASE ChildPrints \/ GraceElapses \/ AttemptAges \/ StartAges
    <3>1. UNCHANGED <<child, stop, final, ledger, pc, outcome>>
      BY <2>3 DEF ChildPrints, GraceElapses, AttemptAges, StartAges
    <3>. QED  BY <3>1
  <2>4. CASE Terminated \/ UNCHANGED vars
    <3>1. UNCHANGED <<child, stop, final, ledger, pc, outcome>>
      BY <2>4 DEF Terminated
    <3>. QED  BY <3>1
  <2>. QED  BY <1>2, <2>1, <2>2, <2>3, <2>4 DEF World
<1>3. CASE DrainDone \/ Tick \/ ObserveDetector \/ ObserveDone \/ SessionDone \/ DropDetection
  <2>1. UNCHANGED <<child, stop, final, ledger>>
    BY <1>3 DEF DrainDone, Tick, ObserveDetector, ObserveDone, SessionDone, DropDetection
  <2>2. pc' \notin Deciding /\ pc' # "apply"
    BY <1>3 DEF DrainDone, Tick, ObserveDetector, ObserveDone, SessionDone, DropDetection,
                Fire, Return
  <2>. QED  BY <2>1, <2>2
<1>4. CASE StartMonitor \/ DrainLine \/ DrainSessionAction \/ FireDetection \/ ClaudeAttempt
           \/ OpenAttempt \/ ApplyOutcome \/ HandleExit \/ RestartAfterCleanExit
           \/ RestartPolicyFallback
  BY <1>4 DEF StartMonitor, DrainLine, DrainSessionAction, FireDetection, ClaudeAttempt,
              OpenAttempt, ApplyOutcome, HandleExit, RestartAfterCleanExit,
              RestartPolicyFallback
<1>5. CASE ConsumeInbox
  <2>1. pc = "inbox" /\ UNCHANGED <<ledger, pc, outcome>>
    BY <1>5 DEF ConsumeInbox
  <2>2. child'.id = child.id
    BY <1>1, <1>5 DEF ConsumeInbox, InboxCommand, Launch, LaunchFails
  <2>3. stop' = TRUE /\ (final' = final \/ final' = 130)
    BY <1>5 DEF ConsumeInbox, InboxCommand, Launch, LaunchFails
  <2>. QED  BY <2>1, <2>2, <2>3
<1>6. CASE TickVerifications
  <2>1. /\ pc' = "status" /\ UNCHANGED <<child, stop, final>>
        /\ \E rows : ledger' = Verdict(rows, "kept")
    BY <1>6 DEF TickVerifications
  <2>2. Len(ledger') = Len(ledger)
    BY <2>1, VerdictRows
  <2>. QED  BY <2>1, <2>2
<1>7. CASE Status
  <2>1. StopDecided /\ UNCHANGED <<child, ledger>>
    BY <1>7 DEF Status, StopDecided
  <2>2. child.code # 0 => child.code \notin {None, 0}
    BY <1>0 DEF Children
  <2>3. stop' /\ final' \notin {None, 0} /\ pc' \in {"shutdown", "drain"}
    BY <1>7, <2>1, <2>2 DEF Status, DeadChildWatchdog, NextLoop
  <2>. QED  BY <2>1, <2>3
<1>8. CASE WatchChild
  <2>1. UNCHANGED <<child, ledger>>
    BY <1>8 DEF WatchChild
  <2>2. child.code # 0 => child.code \notin {None, 0}
    BY <1>0 DEF Children
  <2>3. stop' /\ final' \notin {None, 0} /\ pc' \in {"shutdown", "drain"}
    BY <1>8, <2>1, <2>2 DEF WatchChild, DeadChildWatchdog, NextLoop
  <2>. QED  BY <2>1, <2>3
<1>9. CASE NoAction
  <2>1. UNCHANGED <<child, stop, final, ledger>> /\ pc' = back
    BY <1>9 DEF NoAction, Return
  <2>. QED  BY <2>1
<1>10. CASE Shutdown
  <2>1. pc' = "done" /\ UNCHANGED <<stop, final, ledger>>
    BY <1>10 DEF Shutdown
  <2>2. child'.id = child.id
    BY <1>1, <1>10 DEF Shutdown
  <2>. QED  BY <2>1, <2>2
<1>. QED  BY <1>2, <1>3, <1>4, <1>5, <1>6, <1>7, <1>8, <1>9, <1>10 DEF Next, MonitorStep

LEMMA RepeatNext == TypeOK /\ RepeatInv /\ [Next]_vars => RepeatInv'
<1>. SUFFICES ASSUME TypeOK, RepeatInv, [Next]_vars, PastCap' PROVE StopsForGood'
  BY DEF RepeatInv
<1>1. CASE FireDetection
  <2>1. /\ cfg' = cfg /\ repeats' = Repeats
        /\ stop' = RepeatExhausted /\ (RepeatExhausted => final' = 1)
    BY <1>1 DEF FireDetection, NoteRepeat
  <2>2. RepeatExhausted
    BY <2>1 DEF PastCap, RepeatExhausted
  <2>3. pc' = "apply" /\ outcome' = None
    BY <1>1, <2>2 DEF FireDetection, Decline, Heal
  <2>4. None # 1
    BY MonitorAssumption DEF MonitorAssumption
  <2>. QED  BY <2>1, <2>2, <2>3, <2>4 DEF StopsForGood, Deciding
<1>2. CASE ~FireDetection
  <2>1. cfg' = cfg /\ repeats' = repeats
    BY <1>2, RepeatsKept, StopKept
  <2>2. StopsForGood
    BY <2>1 DEF PastCap, RepeatInv
  <2>. QED  BY <2>2, StopsOnItsWay
<1>. QED  BY <1>1, <1>2

\* Once a failure has repeated past its cap, no step of the monitor launches a child,
\* opens an attempt or turns its code into a success, until it has returned
\* (monitor.py:224-228, 597, 846-855, 1098-1104).
THEOREM RepeatsStop == Spec => RepeatGuard
<1>1. Init => TypeOK /\ RepeatInv
  <2>1. Init => cfg.identicalCap \in Nat /\ repeats = 0
    BY MonitorAssumption DEF MonitorAssumption, ConfigType, Init
  <2>. QED  BY <2>1, TypeInit DEF RepeatInv, PastCap
<1>2. TypeOK /\ RepeatInv /\ [Next]_vars => TypeOK' /\ RepeatInv'
  BY TypeNext, RepeatNext
<1>3. TypeOK /\ RepeatInv /\ [Next]_vars =>
        [cfg.identicalCap > 0 /\ repeats > cfg.identicalCap =>
           /\ child'.id = child.id /\ Len(ledger') = Len(ledger)
           /\ stop' /\ final' \notin {None, 0}]_vars
  BY StopsOnItsWay DEF RepeatInv, PastCap, NothingBroughtBack
<1>. QED  BY <1>1, <1>2, <1>3, PTL DEF Spec, RepeatGuard

-----------------------------------------------------------------------------
(* Pauses *)

\* A healer that was asked was asked for a detector that is not paused.
HealingUnpaused ==
  pc = "claude" \/ (pc = "apply" /\ outcome # None) => det.det \notin paused

LEMMA PauseHolds ==
  ASSUME TypeOK, HealingUnpaused, [Next]_vars
  PROVE  HealingUnpaused' /\ \A d \in paused : fresh'[d] <= fresh[d] /\ d \in paused'
<1>0. fresh \in [Detectors -> Nat] /\ paused \subseteq Detectors
  BY DEF TypeOK, TypeGuards
<1>1. CASE FireDetection
  <2>. DEFINE d      == det.det
              row    == pending[d]
              held   == IF row # 0 /\ cfg.regression = "escalate"
                        THEN paused \cup {d} ELSE paused
              forced == IF RuleRegressed(row) THEN forceClaude \cup {d} ELSE forceClaude
  <2>1. Decline(d, held) \/ Heal(d, held, forced)
    BY <1>1 DEF FireDetection
  <2>2. fresh' = fresh /\ det' = det
    BY <1>1 DEF FireDetection
  <2>3. paused \subseteq held
    OBVIOUS
  <2>. HIDE DEF d, row, held, forced
  <2>4. CASE Decline(d, held)
    <3>1. pc' = "apply" /\ outcome' = None /\ held \subseteq paused'
      BY <2>4 DEF Decline
    <3>. QED  BY <1>0, <2>2, <2>3, <3>1 DEF HealingUnpaused
  <2>5. CASE Heal(d, held, forced)
    <3>1. paused' = held /\ d \notin held
      BY <2>5 DEF Heal
    <3>. QED  BY <1>0, <2>2, <2>3, <3>1 DEF HealingUnpaused, d
  <2>. QED  BY <2>1, <2>4, <2>5
<1>2. CASE Frame /\ ~FireDetection
  <2>1. paused' = paused
    BY <1>2, RepeatsKept
  <2>2. HealingUnpaused'
    BY <1>2, <2>1 DEF Frame, HealingUnpaused
  <2>. QED  BY <1>0, <1>2, <2>1, <2>2 DEF Frame
<1>3. CASE OpenAttempt
  <2>1. /\ det.det \notin paused /\ paused' = paused /\ pc' = "acting"
        /\ fresh' = [fresh EXCEPT ![det.det] = @ + 1]
    BY <1>3 DEF OpenAttempt, HasAction, HealingUnpaused
  <2>. QED  BY <1>0, <2>1 DEF HealingUnpaused
<1>4. CASE ApplyOutcome
  <2>1. paused' = paused /\ fresh' = fresh /\ pc' = back /\ back \in {"drain", "observe"}
    BY <1>4 DEF ApplyOutcome, Return, TypeOK, TypeLoop
  <2>. QED  BY <1>0, <2>1 DEF HealingUnpaused
<1>5. CASE TickVerifications
  <2>1. paused' = paused /\ fresh' = fresh /\ pc' = "status"
    BY <1>5 DEF TickVerifications
  <2>. QED  BY <1>0, <2>1 DEF HealingUnpaused
<1>. QED  BY <1>1, <1>2, <1>3, <1>4, <1>5, Framed

\* Under `escalate` the detector of a fix that regressed is paused.
RegressedPaused == \A d \in Detectors : PausedByRegression(d) => d \in paused

LEMMA RegressedPausedNext ==
  ASSUME FixInv, RegressedPaused, HealingUnpaused, [Next]_vars
  PROVE  RegressedPaused'
<1>0. /\ TypeOK /\ PendingTracked /\ ledger \in Seq(Attempts)
      /\ \A d \in paused : d \in paused'
  BY PauseHolds DEF FixInv, TypeOK, TypeFixes
<1>1. CASE cfg' = cfg /\ ledger' = ledger
  BY <1>0, <1>1 DEF RegressedPaused, PausedByRegression
<1>2. ASSUME cfg' = cfg, NEW rows, NEW status \in {"kept", "crashed"},
             ledger' = Verdict(rows, status)
      PROVE  RegressedPaused'
  <2>1. /\ DOMAIN ledger' = DOMAIN ledger
        /\ \A i \in DOMAIN ledger :
             /\ ledger'[i].det = ledger[i].det
             /\ i \in rows => ledger'[i].status = status
             /\ i \notin rows => ledger'[i] = ledger[i]
    BY <1>0, <1>2, VerdictRows
  <2>. QED  BY <1>0, <1>2, <2>1 DEF RegressedPaused, PausedByRegression
<1>3. CASE FireDetection
  <2>. DEFINE d      == det.det
              row    == pending[d]
              held   == IF row # 0 /\ cfg.regression = "escalate"
                        THEN paused \cup {d} ELSE paused
              forced == IF RuleRegressed(row) THEN forceClaude \cup {d} ELSE forceClaude
  <2>1. /\ d \in Detectors /\ cfg' = cfg
        /\ ledger' = Verdict(Regressed(row), "regressed")
    BY <1>0, <1>3 DEF FireDetection, HandlePotentialRegression, TypeOK, TypeLoop, Handling,
                      Detections
  <2>2. Decline(d, held) \/ Heal(d, held, forced)
    BY <1>3 DEF FireDetection
  <2>3. row # 0 /\ cfg.regression = "escalate" => d \in held
    OBVIOUS
  <2>4. \A i : i \in Regressed(row) <=> row # 0 /\ i = row
    BY DEF Regressed
  <2>5. row # 0 => ledger[row].det = d
    BY <1>0, <2>1 DEF PendingTracked
  <2>. HIDE DEF d, row, held, forced
  <2>6. held \subseteq paused'
    BY <2>2 DEF Decline, Heal
  <2>7. /\ DOMAIN ledger' = DOMAIN ledger
        /\ \A i \in DOMAIN ledger :
             /\ ledger'[i].det = ledger[i].det
             /\ i \notin Regressed(row) => ledger'[i] = ledger[i]
    BY <1>0, <2>1, VerdictRows
  <2>. QED  BY <1>0, <2>1, <2>3, <2>4, <2>5, <2>6, <2>7 DEF RegressedPaused, PausedByRegression
<1>4. CASE OpenAttempt
  <2>1. PICK branch \in BOOLEAN :
          ledger' = Append(ledger, [det |-> det.det, source |-> outcome.source,
                                    status |-> "pending", branch |-> branch])
    BY <1>4 DEF OpenAttempt
  <2>2. cfg' = cfg
    BY <1>4 DEF OpenAttempt
  <2>3. \A i \in DOMAIN ledger' : ledger'[i].status = "regressed" =>
          i \in DOMAIN ledger /\ ledger'[i] = ledger[i]
    <3>. DEFINE row == [det |-> det.det, source |-> outcome.source,
                        status |-> "pending", branch |-> branch]
    <3>1. row.status # "regressed" /\ ledger' = Append(ledger, row)
      BY <2>1
    <3>. HIDE DEF row
    <3>. QED  BY <1>0, <3>1
  <2>. QED  BY <1>0, <2>2, <2>3 DEF RegressedPaused, PausedByRegression
<1>5. CASE ApplyOutcome
  <2>1. cfg' = cfg /\ (ledger' = ledger \/ ledger' = Verdict({Row}, "crashed"))
    BY <1>5 DEF ApplyOutcome
  <2>. QED  BY <1>1, <1>2, <2>1
<1>6. CASE TickVerifications
  <2>1. cfg' = cfg /\ \E rows : ledger' = Verdict(rows, "kept")
    BY <1>6 DEF TickVerifications
  <2>. QED  BY <1>2, <2>1
<1>7. CASE Frame
  BY <1>1, <1>7 DEF Frame
<1>. QED  BY <1>0, <1>3, <1>4, <1>5, <1>6, <1>7, Framed

\* Under `escalate`, no attempt is opened for a detector one of whose fixes regressed
\* (monitor.py:856-861, 1296-1303).
THEOREM PausedStaysPaused == Spec => PausedNeverHealed
<1>. DEFINE Inv == FixInv /\ HealingUnpaused /\ RegressedPaused
<1>1. Init => Inv
  <2>1. Init => HealingUnpaused /\ RegressedPaused
    BY DEF Init, HealingUnpaused, RegressedPaused, PausedByRegression
  <2>. QED  BY <2>1, FixInit
<1>2. Inv /\ [Next]_vars => Inv'
  BY FixNext, PauseHolds, RegressedPausedNext DEF FixInv
<1>3. Inv /\ [Next]_vars =>
        [\A d \in Detectors :
           PausedByRegression(d) /\ d \notin approved => fresh'[d] <= fresh[d]]_vars
  BY PauseHolds DEF FixInv, RegressedPaused
<1>. HIDE DEF Inv
<1>. QED  BY <1>1, <1>2, <1>3, PTL DEF Spec, PausedNeverHealed

=============================================================================
