------------------------- MODULE MonitorRefinement -------------------------
(***************************************************************************)
(* The supervision loop implements FixTrial, proved step by step.          *)
(***************************************************************************)
EXTENDS MonitorFixProofs

USE DEF vars, loopVars, childVars, stopVars, budgetVars, watchVars, fixVars, guardVars

\* The ledger as FixTrial sees it.
Trials == [i \in DOMAIN ledger |->
             [det |-> ledger[i].det, status |-> ledger[i].status]]

LEMMA TrialsFacts ==
  ASSUME TypeOK
  PROVE  /\ ledger \in Seq(Attempts)
         /\ DOMAIN Trials = DOMAIN ledger
         /\ \A i \in DOMAIN ledger :
              /\ Trials[i].det = ledger[i].det /\ Trials[i].status = ledger[i].status
              /\ Trials[i].det \in Detectors
<1>1. ledger \in Seq(Attempts)
  BY DEF TypeOK, TypeFixes
<1>2. \A i \in DOMAIN ledger : ledger[i] \in Attempts
  BY <1>1
<1>. QED  BY <1>1, <1>2 DEF Trials, Attempts

\* A verdict on rows of the ledger is the same verdict on the trials.
LEMMA JudgedTrials ==
  ASSUME TypeOK, NEW rows, NEW status \in {"kept", "regressed", "crashed"},
         ledger' = Verdict(rows, status)
  PROVE  Trials' = [i \in DOMAIN Trials |->
                      IF i \in rows THEN [Trials[i] EXCEPT !.status = status]
                      ELSE Trials[i]]
<1>1. /\ DOMAIN ledger' = DOMAIN ledger
      /\ \A i \in DOMAIN ledger :
           /\ ledger'[i].det = ledger[i].det
           /\ i \in rows => ledger'[i].status = status
           /\ i \notin rows => ledger'[i] = ledger[i]
  BY VerdictRows
<1>2. \A i \in DOMAIN ledger :
        [det |-> ledger'[i].det, status |-> ledger'[i].status]
          = IF i \in rows THEN [Trials[i] EXCEPT !.status = status] ELSE Trials[i]
  BY <1>1 DEF Trials
<1>3. DOMAIN Trials = DOMAIN ledger
  BY DEF Trials
<1>. QED  BY <1>1, <1>2, <1>3 DEF Trials

LEMMA RefineInit == Init => Trial!TrialInit
<1>. SUFFICES ASSUME Init PROVE Trial!TrialInit
  OBVIOUS
<1>1. Trials = <<>>
  BY DEF Init, Trials
<1>2. restarts \in Nat
  BY MonitorAssumption DEF MonitorAssumption, Init
<1>. QED  BY <1>1, <1>2 DEF Trial!TrialInit, Trials

LEMMA RefineOpen ==
  ASSUME FixInv, OpenAttempt
  PROVE  Trial!TrialNext
<1>1. PICK branch \in BOOLEAN :
        ledger' = Append(ledger, [det |-> det.det, source |-> outcome.source,
                                  status |-> "pending", branch |-> branch])
  BY DEF OpenAttempt
<1>2. /\ TypeOK /\ NothingOpen /\ pc = "apply" /\ UNCHANGED restarts
      /\ det.det \in Detectors
  BY DEF FixInv, OpenAttempt, TypeOK, TypeLoop, Handling, Detections
<1>3. \A i \in DOMAIN Trials : Trials[i].status = "pending" => Trials[i].det # det.det
  BY <1>2, TrialsFacts DEF NothingOpen, Undecided
<1>4. Trials' = Append(Trials, [det |-> det.det, status |-> "pending"])
  <2>1. ledger \in Seq(Attempts) /\ Len(ledger) \in Nat
    BY <1>2, TrialsFacts
  <2>. DEFINE S == [det : Detectors, status : {"pending", "kept", "regressed", "crashed"}]
              n == Len(ledger)
              T == Trials
  <2>2. T \in [1..n -> S]
    <3>1. \A i \in DOMAIN ledger : ledger[i] \in Attempts
      BY <2>1
    <3>. QED  BY <2>1, <3>1 DEF Trials, Attempts
  <2>3. T \in Seq(S) /\ Len(T) = Len(ledger)
    <3>. HIDE DEF S, T
    <3>1. n \in Nat
      BY <2>1
    <3>. HIDE DEF n
    <3>2. T \in Seq(S) /\ Len(T) = n
      BY <2>2, <3>1
    <3>. QED  BY <3>2 DEF n
  <2>4. /\ DOMAIN ledger' = 1..(Len(ledger) + 1)
        /\ \A i \in 1..(Len(ledger) + 1) :
             /\ i # Len(ledger) + 1 => ledger'[i] = ledger[i]
             /\ i = Len(ledger) + 1 =>
                  ledger'[i].det = det.det /\ ledger'[i].status = "pending"
    BY <1>1, <2>1
  <2>5. /\ DOMAIN Trials' = 1..(Len(ledger) + 1)
        /\ \A i \in 1..(Len(ledger) + 1) :
             Trials'[i] = IF i = Len(ledger) + 1
                          THEN [det |-> det.det, status |-> "pending"] ELSE Trials[i]
    BY <2>1, <2>4 DEF Trials
  <2>6. Trials' = [i \in DOMAIN Trials' |-> Trials'[i]]
    BY DEF Trials
  <2>. QED  BY <2>3, <2>5, <2>6
<1>5. PICK d \in Detectors : d = det.det
  BY <1>2
<1>6. Trial!Try(d)
  BY <1>2, <1>3, <1>4, <1>5 DEF Trial!Try, Trial!OnTrial, Trials
<1>. QED  BY <1>6 DEF Trial!TrialNext

LEMMA RefineFire ==
  ASSUME FixInv, FireDetection
  PROVE  Trial!TrialNext \/ UNCHANGED <<Trials, restarts>>
<1>1. PICK row \in Nat : row = pending[det.det]
  BY DEF FixInv, TypeOK, TypeFixes, TypeLoop, Handling, Detections, FireDetection
<1>2. /\ TypeOK /\ PendingTracked /\ UNCHANGED restarts
      /\ ledger' = Verdict(Regressed(row), "regressed")
  BY <1>1 DEF FixInv, FireDetection, HandlePotentialRegression
<1>3. Trials' = [i \in DOMAIN Trials |->
                   IF i \in Regressed(row) THEN [Trials[i] EXCEPT !.status = "regressed"]
                   ELSE Trials[i]]
  BY <1>2, JudgedTrials
<1>4. CASE row = 0
  <2>1. Trials' = [i \in DOMAIN Trials |-> Trials[i]]
    BY <1>3, <1>4 DEF Regressed
  <2>2. Trials = [i \in DOMAIN Trials |-> Trials[i]]
    BY DEF Trials
  <2>. QED  BY <1>2, <2>1, <2>2
<1>5. CASE row # 0
  <2>1. row \in DOMAIN ledger /\ ledger[row].status = "pending"
    <3>1. det.det \in Detectors
      BY DEF FixInv, TypeOK, TypeLoop, Handling, Detections, FireDetection
    <3>. QED  BY <1>1, <1>2, <1>5, <3>1
              DEF PendingTracked, Undecided, TypeOK, TypeFixes
  <2>2. row \in DOMAIN Trials /\ Trials[row].status = "pending"
    BY <1>2, <2>1, TrialsFacts
  <2>3. Trials' = [i \in DOMAIN Trials |->
                     IF i \in {row} THEN [Trials[i] EXCEPT !.status = "regressed"]
                     ELSE Trials[i]]
    BY <1>3, <1>5 DEF Regressed
  <2>4. Trial!Fail(row, "regressed")
    BY <1>2, <2>2, <2>3 DEF Trial!Fail, Trial!Judge, Trial!OnTrial, Trials
  <2>. QED  BY <2>2, <2>4 DEF Trial!TrialNext, Trial!Verdicts, Trials
<1>. QED  BY <1>4, <1>5

LEMMA RefineApply ==
  ASSUME FixInv, ApplyOutcome
  PROVE  Trial!TrialNext \/ UNCHANGED <<Trials, restarts>>
<1>1. PICK row : row = Row
  OBVIOUS
<1>2. /\ TypeOK /\ row \in DOMAIN ledger /\ ledger[row].status = "pending"
  BY <1>1 DEF FixInv, ApplyOutcome, TypeOK, TypeFixes, OneOpen, Undecided, Row
<1>3. CASE UNCHANGED <<ledger, restarts>>
  BY <1>3 DEF Trials
<1>4. CASE restarts' = restarts + 1 /\ UNCHANGED ledger
  BY <1>4 DEF Trial!TrialNext, Trial!CountRestart, Trials
<1>5. CASE ledger' = Verdict({Row}, "crashed") /\ UNCHANGED restarts
  <2>1. Trials' = [i \in DOMAIN Trials |->
                     IF i \in {row} THEN [Trials[i] EXCEPT !.status = "crashed"]
                     ELSE Trials[i]]
    <3>. DEFINE rows == {row}
    <3>1. ledger' = Verdict(rows, "crashed")
      BY <1>1, <1>5
    <3>. HIDE DEF rows
    <3>2. Trials' = [i \in DOMAIN Trials |->
                       IF i \in rows THEN [Trials[i] EXCEPT !.status = "crashed"]
                       ELSE Trials[i]]
      BY <1>2, <3>1, JudgedTrials
    <3>. QED  BY <3>2 DEF rows
  <2>2. row \in DOMAIN Trials /\ Trials[row].status = "pending"
    BY <1>2, TrialsFacts
  <2>3. Trial!Fail(row, "crashed")
    BY <1>5, <2>1, <2>2 DEF Trial!Fail, Trial!Judge, Trial!OnTrial, Trials
  <2>. QED  BY <2>2, <2>3 DEF Trial!TrialNext, Trial!Verdicts, Trials
<1>. QED  BY <1>3, <1>4, <1>5 DEF ApplyOutcome

LEMMA RefineVerify ==
  ASSUME FixInv, TickVerifications
  PROVE  Trial!TrialNext \/ UNCHANGED <<Trials, restarts>>
<1>1. PICK expired \in SUBSET {d \in Detectors : pending[d] # 0} :
        /\ ledger' = Verdict({pending[d] : d \in expired}, "kept")
        /\ restarts' = IF expired = {} THEN restarts ELSE 0
  BY DEF TickVerifications
<1>2. PICK rows : rows = {pending[d] : d \in expired}
  OBVIOUS
<1>3. /\ TypeOK /\ PendingTracked
      /\ ledger' = Verdict(rows, "kept")
  BY <1>1, <1>2 DEF FixInv
<1>4. \A i \in rows : i \in DOMAIN ledger /\ ledger[i].status = "pending"
  BY <1>1, <1>2, <1>3 DEF PendingTracked, Undecided, TypeOK, TypeFixes
<1>5. Trials' = [i \in DOMAIN Trials |->
                   IF i \in rows THEN [Trials[i] EXCEPT !.status = "kept"] ELSE Trials[i]]
  BY <1>3, JudgedTrials
<1>6. CASE expired = {}
  <2>1. Trials' = [i \in DOMAIN Trials |-> Trials[i]]
    BY <1>2, <1>5, <1>6
  <2>2. Trials = [i \in DOMAIN Trials |-> Trials[i]]
    BY DEF Trials
  <2>. QED  BY <1>1, <1>6, <2>1, <2>2
<1>7. CASE expired # {}
  <2>1. rows # {} /\ restarts' = 0
    BY <1>1, <1>2, <1>7
  <2>2. \A i \in rows : i \in DOMAIN Trials /\ Trials[i].status = "pending"
    BY <1>3, <1>4, TrialsFacts
  <2>3. Trial!Keep(rows)
    BY <1>5, <2>1, <2>2 DEF Trial!Keep, Trial!Judge, Trial!OnTrial, Trials
  <2>. QED  BY <2>2, <2>3 DEF Trial!TrialNext, Trials
<1>. QED  BY <1>6, <1>7

LEMMA RefineFrame ==
  ASSUME TypeOK, [Next]_vars, Frame
  PROVE  \/ Trial!TrialNext \/ UNCHANGED <<Trials, restarts>>
         \/ TickVerifications \/ FireDetection
<1>1. UNCHANGED Trials
  BY DEF Frame, Trials
<1>2. restarts' = restarts + 1 => Trial!TrialNext
  BY <1>1 DEF Trial!TrialNext, Trial!CountRestart, Trials
<1>. QED  BY <1>1, <1>2, Counted

\* Every step of the monitor is a step of FixTrial or leaves it alone.
LEMMA RefineNext == FixInv /\ [Next]_vars => [Trial!TrialNext]_(Trial!trialVars)
<1>. SUFFICES ASSUME FixInv, [Next]_vars
     PROVE  [Trial!TrialNext]_(Trial!trialVars)
  OBVIOUS
<1>1. Trial!TrialNext \/ UNCHANGED <<Trials, restarts>>
  BY Framed, RefineFrame, RefineFire, RefineOpen, RefineApply, RefineVerify DEF FixInv
<1>. QED  BY <1>1 DEF Trial!trialVars, Trials

\* The monitor keeps the promises of FixTrial: one trial per detector at a time,
\* one verdict per trial, a counter that only a kept fix resets.
THEOREM MonitorImplementsFixTrial == Spec => ImplementsFixTrial
<1>1. Init => Trial!TrialInit  BY RefineInit
<1>2. FixInv /\ [Next]_vars => [Trial!TrialNext]_(Trial!trialVars)  BY RefineNext
<1>. QED  BY <1>1, <1>2, FixSafe, PTL DEF Spec, ImplementsFixTrial, Trial!TrialSpec
=============================================================================
