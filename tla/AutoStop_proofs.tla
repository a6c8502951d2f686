-------------------------- MODULE AutoStop_proofs --------------------------
(***************************************************************************)
(* Theorems about AutoStop, for every sustain and verify time and every    *)
(* set of detection classes.                                               *)
(***************************************************************************)
EXTENDS AutoStop, TLAPS

\* A timer advanced by one unit stays within its bound and never runs ahead
\* of a timer that was not behind it.
LEMMA CappedNextFacts ==
  ASSUME NEW bound \in Nat, NEW a \in 0..bound
  PROVE  /\ CappedNext(a, bound) \in 0..bound
         /\ \A b \in 0..bound : a <= b => CappedNext(a, bound) <= CappedNext(b, bound)
BY DEF CappedNext

\* Time passing keeps a controller record well formed and changes nothing but
\* the timers.
LEMMA AgedFacts ==
  ASSUME NEW c \in ControllerRecord
  PROVE  /\ Aged(c) \in ControllerRecord
         /\ Aged(c).armed = c.armed
         /\ Aged(c).state = c.state
         /\ Aged(c).stopCount = c.stopCount
         /\ Aged(c).byMonitor = c.byMonitor
         /\ c.state = "armed_faulting" => Aged(c).faultAge = CappedNext(c.faultAge, Sustain)
<1>1. c.faultAge \in 0..Sustain /\ c.stopAge \in 0..Verify
  BY DEF ControllerRecord
<1>2. CappedNext(c.faultAge, Sustain) \in 0..Sustain
      /\ CappedNext(c.stopAge, Verify) \in 0..Verify
  BY <1>1, TimingAssumption, CappedNextFacts
<1>3. CASE c.state = "armed_faulting"
  <2>1. Aged(c) = [c EXCEPT !.faultAge = CappedNext(c.faultAge, Sustain),
                            !.stopAge = c.stopAge]
    BY <1>3 DEF Aged
  <2> QED
    BY <2>1, <1>1, <1>2 DEF ControllerRecord
<1>4. CASE c.state = "stopping"
  <2>1. Aged(c) = [c EXCEPT !.faultAge = c.faultAge,
                            !.stopAge = CappedNext(c.stopAge, Verify)]
    BY <1>4 DEF Aged
  <2> QED
    BY <2>1, <1>1, <1>2, <1>4 DEF ControllerRecord
<1>5. CASE c.state \notin {"armed_faulting", "stopping"}
  <2>1. Aged(c) = [c EXCEPT !.faultAge = c.faultAge, !.stopAge = c.stopAge]
    BY <1>5 DEF Aged
  <2> QED
    BY <2>1, <1>1, <1>5 DEF ControllerRecord
<1> QED
  BY <1>3, <1>4, <1>5

\* What an update can leave: the same record, or the record of the branch it took.
LEMMA UpdatedCases ==
  ASSUME NEW c \in ControllerRecord, NEW fault \in BOOLEAN, NEW g \in GcodeStates
  PROVE  \/ Updated(c, fault, g) \in
              {c, [c EXCEPT !.state = "armed_faulting", !.faultAge = 0],
                  [c EXCEPT !.state = "armed_idle", !.faultAge = 0],
                  [c EXCEPT !.state = "stopped", !.stopAge = 0]}
         \/ Updated(c, fault, g) =
              [c EXCEPT !.armed = FALSE, !.byMonitor = TRUE, !.state = "stopping",
                        !.faultAge = 0, !.stopCount = 1]
         \/ /\ c.stopCount < 2
            /\ Updated(c, fault, g) = [c EXCEPT !.stopCount = c.stopCount + 1, !.stopAge = 0]
BY DEF Updated, FirstFire, Resend

\* Every update yields a well formed record.
LEMMA UpdatedType ==
  ASSUME NEW c \in ControllerRecord, NEW fault \in BOOLEAN, NEW g \in GcodeStates
  PROVE  Updated(c, fault, g) \in ControllerRecord
<1>1. /\ 0 \in 0..Sustain /\ 0 \in 0..Verify /\ 1 \in 0..2 /\ c.stopCount \in 0..2
      /\ c.stopCount < 2 => c.stopCount + 1 \in 0..2
  BY TimingAssumption DEF ControllerRecord
<1> DEFINE u == Updated(c, fault, g)
<1> SUFFICES u \in ControllerRecord
  OBVIOUS
<1> HIDE DEF u
<1>2. CASE u = c
  BY <1>2
<1>3. CASE \/ u = [c EXCEPT !.state = "armed_faulting", !.faultAge = 0]
           \/ u = [c EXCEPT !.state = "armed_idle", !.faultAge = 0]
           \/ u = [c EXCEPT !.state = "stopped", !.stopAge = 0]
  BY <1>1, <1>3 DEF ControllerRecord, States
<1>4. CASE u = [c EXCEPT !.armed = FALSE, !.byMonitor = TRUE, !.state = "stopping",
                         !.faultAge = 0, !.stopCount = 1]
  <2> DEFINE d == [c EXCEPT !.armed = FALSE, !.byMonitor = TRUE, !.state = "stopping"]
  <2>1. d \in ControllerRecord
    BY DEF ControllerRecord, States
  <2>2. u = [d EXCEPT !.faultAge = 0, !.stopCount = 1]
    BY <1>4 DEF ControllerRecord
  <2> HIDE DEF d
  <2> QED
    BY <2>1, <2>2, <1>1 DEF ControllerRecord
<1>5. CASE c.stopCount < 2 /\ u = [c EXCEPT !.stopCount = c.stopCount + 1, !.stopAge = 0]
  BY <1>1, <1>5 DEF ControllerRecord
<1> QED
  BY <1>2, <1>3, <1>4, <1>5, UpdatedCases, Zenon DEF u

LEMMA InitIInv == Init => IInv
BY TimingAssumption DEF Init, IInv, TypeOK, Bookkeeping, Fresh, ControllerRecord, States

\* The invariant survives an update: the only step that counts a stop.
LEMMA UpdateIInv ==
  ASSUME IInv, NEW dets \in SUBSET Detections, NEW g \in GcodeStates, Update(dets, g)
  PROVE  IInv'
<1> DEFINE fault == Qualifying(dets, cfg.classes, cfg.threshold)
<1>1. fault \in BOOLEAN
  BY DEF Qualifying
<1> HIDE DEF fault
<1>2. ctrl' = Updated(ctrl, fault, g)
  BY DEF Update, fault
<1>3. sends' = IF Fires(ctrl, fault, g) THEN sends + 1 ELSE sends
  BY DEF Update, fault
<1>4. sinceClear' = IF fault THEN sinceClear ELSE 0
  BY DEF Update, fault
<1>5. TypeOK'
  <2>1. ctrl' \in ControllerRecord
    BY <1>1, <1>2, UpdatedType DEF IInv, TypeOK
  <2>2. sends' \in Nat /\ sinceClear' \in 0..Sustain /\ cfg' \in Configs
    BY <1>3, <1>4, TimingAssumption DEF IInv, TypeOK, Update
  <2> QED
    BY <2>1, <2>2 DEF TypeOK
<1>6. Bookkeeping'
  <2>1. CASE ctrl.state \in {"disarmed", "stopped"}
    BY <2>1, <1>2, <1>3, <1>4
    DEF IInv, TypeOK, Bookkeeping, Updated, Fires, FirstFire, Resend, ControllerRecord
  <2>2. CASE ctrl.state = "armed_idle"
    BY <2>2, <1>2, <1>3, <1>4, TimingAssumption
    DEF IInv, TypeOK, Bookkeeping, Updated, Fires, FirstFire, Resend, ControllerRecord
  <2>3. CASE ctrl.state = "armed_faulting"
    <3>1. CASE ~fault
      BY <3>1, <2>3, <1>2, <1>3, <1>4
      DEF IInv, TypeOK, Bookkeeping, Updated, Fires, FirstFire, Resend, ControllerRecord
    <3>2. CASE fault /\ ctrl.faultAge >= Sustain
      BY <3>2, <2>3, <1>2, <1>3, <1>4
      DEF IInv, TypeOK, Bookkeeping, Updated, Fires, FirstFire, Resend, ControllerRecord
    <3>3. CASE fault /\ ~(ctrl.faultAge >= Sustain)
      BY <3>3, <2>3, <1>2, <1>3, <1>4
      DEF IInv, TypeOK, Bookkeeping, Updated, Fires, FirstFire, Resend, ControllerRecord
    <3> QED
      BY <1>1, <3>1, <3>2, <3>3
  <2>4. CASE ctrl.state = "stopping"
    BY <2>4, <1>2, <1>3, <1>4
    DEF IInv, TypeOK, Bookkeeping, Updated, Fires, FirstFire, Resend, ControllerRecord
  <2> QED
    BY <2>1, <2>2, <2>3, <2>4 DEF IInv, TypeOK, ControllerRecord, States
<1> QED
  BY <1>5, <1>6 DEF IInv

LEMMA NextIInv == IInv /\ [Next]_vars => IInv'
<1> SUFFICES ASSUME IInv, [Next]_vars
             PROVE  IInv'
  OBVIOUS
<1>0. 0 \in 0..Sustain /\ 0 \in 0..Verify
  BY TimingAssumption
<1>1. CASE ArmOn
  <2>1. TypeOK'
    BY <1>0, <1>1 DEF IInv, TypeOK, ArmOn, Armed, ControllerRecord, States
  <2>2. Bookkeeping'
    BY <1>0, <1>1 DEF IInv, TypeOK, ArmOn, Armed, ControllerRecord, Bookkeeping
  <2> QED
    BY <2>1, <2>2 DEF IInv
<1>2. CASE ArmOff
  <2>1. TypeOK'
    BY <1>0, <1>2 DEF IInv, TypeOK, ArmOff, Disarmed, ControllerRecord, States
  <2>2. Bookkeeping'
    <3>1. ctrl'.state = "disarmed" /\ ctrl'.armed = FALSE /\ ctrl'.byMonitor = ctrl.byMonitor
      BY <1>2 DEF IInv, TypeOK, ArmOff, Disarmed, ControllerRecord
    <3>2. sends' = sends /\ sends <= 2
      BY <1>2 DEF IInv, TypeOK, Bookkeeping, ArmOff, ControllerRecord, States
    <3> QED
      BY <3>1, <3>2 DEF IInv, Bookkeeping
  <2> QED
    BY <2>1, <2>2 DEF IInv
<1>3. CASE Configure
  BY <1>3 DEF IInv, TypeOK, Bookkeeping, Configure
<1>4. CASE Tick
  BY <1>4, UpdateIInv DEF Tick
<1>5. CASE Elapse
  <2>1. ctrl \in ControllerRecord /\ sinceClear \in 0..Sustain
    BY DEF IInv, TypeOK
  <2>2. TypeOK'
    BY <1>5, <2>1, AgedFacts, CappedNextFacts, TimingAssumption DEF IInv, TypeOK, Elapse
  <2>3. ctrl.state = "armed_faulting" => ctrl'.faultAge <= sinceClear'
    <3> SUFFICES ASSUME ctrl.state = "armed_faulting"
                 PROVE  ctrl'.faultAge <= sinceClear'
      OBVIOUS
    <3>1. ctrl'.faultAge = CappedNext(ctrl.faultAge, Sustain)
      BY <1>5, <2>1, AgedFacts DEF Elapse
    <3>2. ctrl.faultAge \in 0..Sustain /\ ctrl.faultAge <= sinceClear
      BY <2>1 DEF IInv, Bookkeeping, ControllerRecord
    <3> QED
      BY <1>5, <2>1, <3>1, <3>2, CappedNextFacts, TimingAssumption DEF Elapse
  <2>4. Bookkeeping'
    BY <1>5, <2>1, <2>3, AgedFacts DEF IInv, Bookkeeping, Elapse
  <2> QED
    BY <2>2, <2>4 DEF IInv
<1>6. CASE UNCHANGED vars
  BY <1>6 DEF IInv, TypeOK, Bookkeeping, vars
<1> QED
  BY <1>1, <1>2, <1>3, <1>4, <1>5, <1>6 DEF Next

\* The controller's bookkeeping is right in every reachable state, whatever the
\* camera, the printer and the user do.
THEOREM Invariance == Spec => []IInv
BY InitIInv, NextIInv, PTL DEF Spec

\* The controller's fields keep their types.
THEOREM Typing == Spec => []TypeOK
<1>1. IInv => TypeOK
  BY DEF IInv
<1> QED
  BY Invariance, <1>1, PTL

\* At most two stop commands per arming (detection.py, the re-send of "stopping").
THEOREM BoundedSends == Spec => []TwoSendsPerArming
<1>1. IInv => TwoSendsPerArming
  BY DEF IInv, TypeOK, Bookkeeping, TwoSendsPerArming, ControllerRecord, States
<1> QED
  BY Invariance, <1>1, PTL

\* The stopped_by_monitor latch tells the truth about the current arming.
THEOREM LatchCorrect == Spec => []LatchMeansSent
<1>1. IInv => LatchMeansSent
  BY DEF IInv, Bookkeeping, LatchMeansSent
<1> QED
  BY Invariance, <1>1, PTL

\* A first stop is always preceded by sustain_s of uninterrupted evidence.
THEOREM Debounce == Spec => FireOnlyAfterSustain
<1>1. IInv /\ [Next]_vars => [sends = 0 /\ sends' = 1 => sinceClear >= Sustain]_vars
  <2> SUFFICES ASSUME IInv, Next, sends = 0, sends' = 1
               PROVE  sinceClear >= Sustain
    OBVIOUS
  <2>1. PICK dets \in SUBSET Detections, g \in GcodeStates : Update(dets, g)
    BY DEF Next, ArmOn, ArmOff, Configure, Elapse, Tick
  <2> DEFINE fault == Qualifying(dets, cfg.classes, cfg.threshold)
  <2>2. Fires(ctrl, fault, g)
    BY <2>1 DEF Update
  <2>3. ~Resend(ctrl, g)
    BY DEF IInv, Bookkeeping, Resend
  <2>4. FirstFire(ctrl, fault)
    BY <2>2, <2>3 DEF Fires
  <2>5. ctrl.faultAge <= sinceClear /\ ctrl.faultAge >= Sustain
    BY <2>4 DEF FirstFire, IInv, Bookkeeping
  <2> QED
    BY <2>5, TimingAssumption DEF IInv, TypeOK, ControllerRecord
<1> QED
  BY <1>1, Invariance, PTL DEF Spec, FireOnlyAfterSustain

===========================================================================
