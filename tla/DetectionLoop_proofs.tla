------------------------ MODULE DetectionLoop_proofs ------------------------
(***************************************************************************)
(* DetectionLoop for any printers and any timings: what a detector that is *)
(* gone, late or on another printer can do to a countdown.                 *)
(***************************************************************************)
EXTENDS DetectionLoop, TLAPS

\* The coordinator only looks at the controller of the printer it has read.
Typed ==
  /\ TypeOK
  /\ pc = "read" => cap \in Printers

\* A countdown that no new frame has confirmed is not older than the status that
\* started it.
Unconfirmed ==
  \A p \in Printers :
    ctrl[p].state = "armed_faulting" /\ p \notin fresh /\ status # Clear
      => ctrl[p].faultAge <= status

\* A printer that a tick saw without the camera, and that nobody armed since, has no
\* controller that could begin a stop, but for the one the tick is about to drop.
Dropped ==
  \A p \in away :
    ctrl[p].state \in {"armed_idle", "armed_faulting"} => pc = "drop" /\ p # cap

IInv == Typed /\ Unconfirmed /\ Dropped

---------------------------------------------------------------------------
(* The controllers.                                                        *)

\* A timer advanced by one unit stays within its bound and never runs ahead
\* of a timer that was not behind it.
LEMMA CappedNextFacts ==
  ASSUME NEW bound \in Nat, NEW a \in 0..bound
  PROVE  /\ CappedNext(a, bound) \in 0..bound
         /\ \A b \in 0..bound : a <= b => CappedNext(a, bound) <= CappedNext(b, bound)
BY DEF CappedNext

\* Time passing keeps a controller record well formed and changes nothing but
\* the timers.
LEMMA AgedFacts ==
  ASSUME NEW c \in ControllerRecord
  PROVE  /\ Aged(c) \in ControllerRecord
         /\ Aged(c).armed = c.armed
         /\ Aged(c).state = c.state
         /\ Aged(c).stopCount = c.stopCount
         /\ Aged(c).byMonitor = c.byMonitor
         /\ c.state = "armed_faulting" => Aged(c).faultAge = CappedNext(c.faultAge, Sustain)
<1>1. c.faultAge \in 0..Sustain /\ c.stopAge \in 0..Verify
  BY DEF ControllerRecord
<1>2. CappedNext(c.faultAge, Sustain) \in 0..Sustain
      /\ CappedNext(c.stopAge, Verify) \in 0..Verify
  BY <1>1, TimingAssumption, CappedNextFacts
<1>3. CASE c.state = "armed_faulting"
  <2>1. Aged(c) = [c EXCEPT !.faultAge = CappedNext(c.faultAge, Sustain),
                            !.stopAge = c.stopAge]
    BY <1>3 DEF Aged
  <2> QED
    BY <2>1, <1>1, <1>2 DEF ControllerRecord
<1>4. CASE c.state = "stopping"
  <2>1. Aged(c) = [c EXCEPT !.faultAge = c.faultAge,
                            !.stopAge = CappedNext(c.stopAge, Verify)]
    BY <1>4 DEF Aged
  <2> QED
    BY <2>1, <1>1, <1>2, <1>4 DEF ControllerRecord
<1>5. CASE c.state \notin {"armed_faulting", "stopping"}
  <2>1. Aged(c) = [c EXCEPT !.faultAge = c.faultAge, !.stopAge = c.stopAge]
    BY <1>5 DEF Aged
  <2> QED
    BY <2>1, <1>1, <1>5 DEF ControllerRecord
<1> QED
  BY <1>3, <1>4, <1>5

\* What an update can leave: the same record, or the record of the branch it took.
LEMMA UpdatedCases ==
  ASSUME NEW c \in ControllerRecord, NEW fault \in BOOLEAN, NEW g \in GcodeStates
  PROVE  \/ Updated(c, fault, g) \in
              {c, [c EXCEPT !.state = "armed_faulting", !.faultAge = 0],
                  [c EXCEPT !.state = "armed_idle", !.faultAge = 0],
                  [c EXCEPT !.state = "stopped", !.stopAge = 0]}
         \/ Updated(c, fault, g) =
              [c EXCEPT !.armed = FALSE, !.byMonitor = TRUE, !.state = "stopping",
                        !.faultAge = 0, !.stopCount = 1]
         \/ /\ c.stopCount < 2
            /\ Updated(c, fault, g) = [c EXCEPT !.stopCount = c.stopCount + 1, !.stopAge = 0]
BY DEF Updated, FirstFire, Resend

\* Every update yields a well formed record.
LEMMA UpdatedType ==
  ASSUME NEW c \in ControllerRecord, NEW fault \in BOOLEAN, NEW g \in GcodeStates
  PROVE  Updated(c, fault, g) \in ControllerRecord
<1>1. /\ 0 \in 0..Sustain /\ 0 \in 0..Verify /\ 1 \in 0..2 /\ c.stopCount \in 0..2
      /\ c.stopCount < 2 => c.stopCount + 1 \in 0..2
  BY TimingAssumption DEF ControllerRecord
<1> DEFINE u == Updated(c, fault, g)
<1> SUFFICES u \in ControllerRecord
  OBVIOUS
<1> HIDE DEF u
<1>2. CASE u = c
  BY <1>2
<1>3. CASE \/ u = [c EXCEPT !.state = "armed_faulting", !.faultAge = 0]
           \/ u = [c EXCEPT !.state = "armed_idle", !.faultAge = 0]
           \/ u = [c EXCEPT !.state = "stopped", !.stopAge = 0]
  BY <1>1, <1>3 DEF ControllerRecord, States
<1>4. CASE u = [c EXCEPT !.armed = FALSE, !.byMonitor = TRUE, !.state = "stopping",
                         !.faultAge = 0, !.stopCount = 1]
  <2> DEFINE d == [c EXCEPT !.armed = FALSE, !.byMonitor = TRUE, !.state = "stopping"]
  <2>1. d \in ControllerRecord
    BY DEF ControllerRecord, States
  <2>2. u = [d EXCEPT !.faultAge = 0, !.stopCount = 1]
    BY <1>4 DEF ControllerRecord
  <2> HIDE DEF d
  <2> QED
    BY <2>1, <2>2, <1>1 DEF ControllerRecord
<1>5. CASE c.stopCount < 2 /\ u = [c EXCEPT !.stopCount = c.stopCount + 1, !.stopAge = 0]
  BY <1>1, <1>5 DEF ControllerRecord
<1> QED
  BY <1>2, <1>3, <1>4, <1>5, UpdatedCases, Zenon DEF u

\* A countdown begins from nothing, goes on while there is a fault, and ends in a
\* stop only after sustain_s of it.
LEMMA UpdatedCountdown ==
  ASSUME NEW c \in ControllerRecord, NEW fault \in BOOLEAN, NEW g \in GcodeStates
  PROVE  LET d == Updated(c, fault, g)
         IN /\ d.state = "armed_faulting" =>
                 IF c.state = "armed_faulting" THEN d.faultAge = c.faultAge
                                               ELSE d.faultAge = 0
            /\ c.state = "armed_faulting" /\ d.state = "stopping" =>
                 fault /\ c.faultAge >= Sustain
            /\ d.state \in {"armed_idle", "armed_faulting"} =>
                 c.state \in {"armed_idle", "armed_faulting"}
<1>1. CASE c.state \in {"disarmed", "stopped"}
  <2>1. Updated(c, fault, g) = c
    BY <1>1 DEF Updated, FirstFire, Resend
  <2> QED
    BY <1>1, <2>1
<1>2. CASE c.state = "armed_idle"
  <2>1. Updated(c, fault, g) \in {c, [c EXCEPT !.state = "armed_faulting", !.faultAge = 0]}
    BY <1>2 DEF Updated, FirstFire, Resend
  <2> QED
    BY <1>2, <2>1 DEF ControllerRecord
<1>3. CASE c.state = "armed_faulting"
  <2>1. CASE FirstFire(c, fault)
    <3>1. Updated(c, fault, g) =
            [c EXCEPT !.armed = FALSE, !.byMonitor = TRUE, !.state = "stopping",
                      !.faultAge = 0, !.stopCount = 1]
      BY <1>3, <2>1 DEF Updated, FirstFire, Resend
    <3>2. Updated(c, fault, g).state = "stopping"
      BY <3>1 DEF ControllerRecord
    <3> QED
      BY <2>1, <3>2 DEF FirstFire
  <2>2. CASE ~FirstFire(c, fault)
    <3>1. Updated(c, fault, g) \in {c, [c EXCEPT !.state = "armed_idle", !.faultAge = 0]}
      BY <1>3, <2>2 DEF Updated, FirstFire, Resend
    <3> QED
      BY <1>3, <3>1 DEF ControllerRecord
  <2> QED
    BY <2>1, <2>2
<1>4. CASE c.state = "stopping"
  <2>1. Updated(c, fault, g) \in {c, [c EXCEPT !.state = "stopped", !.stopAge = 0],
                                  [c EXCEPT !.stopCount = c.stopCount + 1, !.stopAge = 0]}
    BY <1>4 DEF Updated, FirstFire, Resend
  <2> QED
    BY <1>4, <2>1 DEF ControllerRecord
<1> QED
  BY <1>1, <1>2, <1>3, <1>4 DEF ControllerRecord, States

USE TimingAssumption, LoopAssumption

LEMMA ControllerFacts ==
  /\ Fresh \in ControllerRecord /\ Fresh.state = "disarmed"
  /\ NoController \notin ControllerRecord /\ NoController.state = "absent"
  /\ \A c \in ControllerRecord :
       /\ Armed(c) \in ControllerRecord /\ Armed(c).state = "armed_idle"
       /\ Disarmed(c) \in ControllerRecord /\ Disarmed(c).state = "disarmed"
  <1>1. 0 \in 0..Sustain /\ 0 \in 0..Verify
    OBVIOUS
  <1>2. Fresh \in ControllerRecord /\ Fresh.state = "disarmed"
    BY <1>1 DEF Fresh, ControllerRecord, States
  <1>3. NoController.state = "absent"
    BY DEF NoController
  <1>4. NoController \notin ControllerRecord
    BY <1>3 DEF ControllerRecord, States
  <1>5. ASSUME NEW c \in ControllerRecord
        PROVE  /\ Armed(c) \in ControllerRecord /\ Armed(c).state = "armed_idle"
               /\ Disarmed(c) \in ControllerRecord /\ Disarmed(c).state = "disarmed"
    BY <1>1 DEF Armed, Disarmed, ControllerRecord, States
  <1> QED
    BY <1>2, <1>3, <1>4, <1>5

LEMMA ControllerForFacts ==
  ASSUME ctrl \in [Printers -> ControllerRecord \cup {NoController}], NEW p \in Printers
  PROVE  /\ ControllerFor(p) \in ControllerRecord
         /\ ControllerFor(p).state = "armed_faulting" <=> ctrl[p].state = "armed_faulting"
         /\ ctrl[p].state = "armed_faulting" => ControllerFor(p) = ctrl[p]
  BY ControllerFacts DEF ControllerFor

\* What a request leaves of a controller.
LEMMA RequestFacts ==
  ASSUME TypeOK, NEW p \in Printers, Arm(p) \/ Disarm(p) \/ Snapshot(p)
  PROVE  /\ ctrl' \in [Printers -> ControllerRecord \cup {NoController}]
         /\ \A q \in Printers :
              ctrl'[q].state = "armed_faulting" => ctrl'[q] = ctrl[q]
         /\ \A q \in Printers :
              q \in fresh /\ q \notin fresh' => ctrl'[q].state # "armed_faulting"
         /\ fresh' \subseteq Printers /\ away' \subseteq away
         /\ \A q \in away' :
              ctrl'[q].state \in {"armed_idle", "armed_faulting"} => ctrl'[q] = ctrl[q]
         /\ admitted' \subseteq Printers
         /\ \A q \in Printers : ctrl'[q].state = "stopping" => ctrl'[q] = ctrl[q]
  <1>1. ctrl \in [Printers -> ControllerRecord \cup {NoController}] /\ fresh \subseteq Printers
    BY DEF TypeOK
  <1>2. PICK c \in ControllerRecord :
          /\ ctrl' = [ctrl EXCEPT ![p] = c]
          /\ c.state \in {"armed_idle", "disarmed"} \/ c = ctrl[p]
          /\ c.state = "armed_faulting" => fresh' = fresh
          /\ fresh' \in {fresh, fresh \ {p}}
          /\ \/ away' = away \ {p}
             \/ away' = away /\ (c.state = "disarmed" \/ c = ctrl[p])
    <2>1. CASE Arm(p)
      BY <1>1, <2>1, ControllerFacts, ControllerForFacts DEF Arm, Admitted
    <2>2. CASE Disarm(p)
      BY <1>1, <2>2, ControllerFacts, ControllerForFacts DEF Disarm, Admitted
    <2>3. CASE Snapshot(p)
      <3>1. ControllerFor(p) = ctrl[p] \/ ControllerFor(p).state = "disarmed"
        BY ControllerFacts DEF ControllerFor
      <3>2. ctrl' = [ctrl EXCEPT ![p] = ControllerFor(p)] /\ UNCHANGED <<fresh, away>>
        BY <2>3 DEF Snapshot, ghosts
      <3>3. ControllerFor(p) \in ControllerRecord
        BY <1>1, ControllerForFacts
      <3> QED
        BY <3>1, <3>2, <3>3
    <2> QED
      BY <2>1, <2>2, <2>3
  <1>3. admitted' \subseteq Printers
    BY DEF TypeOK, Arm, Disarm, Snapshot, Admitted
  <1>4. /\ ctrl' \in [Printers -> ControllerRecord \cup {NoController}]
        /\ \A q \in Printers : q # p => ctrl'[q] = ctrl[q]
        /\ ctrl'[p] = c
    BY <1>1, <1>2
  <1>5. \A q \in away' :
          ctrl'[q].state \in {"armed_idle", "armed_faulting"} => ctrl'[q] = ctrl[q]
    <2>1. away \subseteq Printers
      BY DEF TypeOK
    <2> QED
      BY <1>2, <1>4, <2>1
  <1> QED
    BY <1>1, <1>2, <1>3, <1>4, <1>5

LEMMA ElapseFacts ==
  ASSUME TypeOK, Elapse
  PROVE  /\ ctrl' \in [Printers -> ControllerRecord \cup {NoController}]
         /\ status' = CappedNext(status, Clear) /\ status' \in 0..Clear
         /\ \A p \in Printers :
              /\ ctrl'[p].state = ctrl[p].state
              /\ ctrl[p].state = "armed_faulting" =>
                   /\ ctrl[p].faultAge \in 0..Sustain
                   /\ ctrl'[p].faultAge = CappedNext(ctrl[p].faultAge, Sustain)
  <1>1. /\ ctrl \in [Printers -> ControllerRecord \cup {NoController}]
        /\ status \in 0..Clear /\ Clear \in Nat
    BY DEF TypeOK, Clear
  <1>2. /\ ctrl' = [p \in Printers |->
                      IF ctrl[p] = NoController THEN NoController ELSE Aged(ctrl[p])]
        /\ status' = CappedNext(status, Clear)
    BY DEF Elapse
  <1>3. \A c \in ControllerRecord :
          /\ Aged(c) \in ControllerRecord /\ Aged(c).state = c.state
          /\ c.state = "armed_faulting" => Aged(c).faultAge = CappedNext(c.faultAge, Sustain)
          /\ c.faultAge \in 0..Sustain
    BY AgedFacts DEF ControllerRecord
  <1>4. status' \in 0..Clear
    BY <1>1, <1>2, CappedNextFacts
  <1> QED
    BY <1>1, <1>2, <1>3, <1>4, ControllerFacts

\* One look of the coordinator at the status file.
LEMMA UpdateFacts ==
  ASSUME Typed, UpdateController
  PROVE  /\ ctrl' \in [Printers -> ControllerRecord \cup {NoController}]
         /\ \A p \in Printers : p # cap => ctrl'[p] = ctrl[p]
         /\ ctrl'[cap].state = "armed_faulting" =>
              \/ /\ ctrl[cap].state = "armed_faulting" /\ fresh' = fresh
                 /\ ctrl'[cap].faultAge = ctrl[cap].faultAge
              \/ ctrl'[cap].faultAge = 0
         /\ ctrl[cap].state = "armed_faulting" /\ ctrl'[cap].state = "stopping" =>
              /\ status # Clear /\ ctrl[cap].faultAge >= Sustain
         /\ ctrl'[cap].state \in {"armed_idle", "armed_faulting"} =>
              ctrl[cap].state \in {"armed_idle", "armed_faulting"}
         /\ fresh' \in {fresh, fresh \ {cap}}
  <1>1. /\ cap \in Printers
        /\ ctrl \in [Printers -> ControllerRecord \cup {NoController}]
    BY DEF Typed, TypeOK, UpdateController
  <1> DEFINE old == ControllerFor(cap)
  <1>2. PICK readable \in BOOLEAN, gstate \in {"RUNNING", "FAILED"} :
          LET fault == readable /\ status # Clear
              new == Updated(old, fault, gstate)
          IN /\ ctrl' = [ctrl EXCEPT ![cap] = new]
             /\ fresh' = IF old.state = "armed_faulting" /\ new.state = "armed_faulting"
                           THEN fresh ELSE fresh \ {cap}
    BY DEF UpdateController
  <1> DEFINE fault == readable /\ status # Clear
             new == Updated(old, fault, gstate)
  <1>3. /\ old \in ControllerRecord
        /\ old.state = "armed_faulting" <=> ctrl[cap].state = "armed_faulting"
        /\ ctrl[cap].state = "armed_faulting" => old = ctrl[cap]
        /\ old = ctrl[cap] \/ old.state = "disarmed"
    BY <1>1, ControllerForFacts, ControllerFacts DEF ControllerFor
  <1>4. fault \in BOOLEAN /\ gstate \in GcodeStates
    BY DEF GcodeStates, Terminal
  <1>5. fault => status # Clear
    OBVIOUS
  <1>6. /\ ctrl' = [ctrl EXCEPT ![cap] = new]
        /\ fresh' = IF old.state = "armed_faulting" /\ new.state = "armed_faulting"
                      THEN fresh ELSE fresh \ {cap}
    BY <1>2
  <1> HIDE DEF old, fault
  <1>7. /\ new \in ControllerRecord
        /\ new.state = "armed_faulting" =>
             IF old.state = "armed_faulting" THEN new.faultAge = old.faultAge
                                             ELSE new.faultAge = 0
        /\ old.state = "armed_faulting" /\ new.state = "stopping" =>
             fault /\ old.faultAge >= Sustain
        /\ new.state \in {"armed_idle", "armed_faulting"} =>
             old.state \in {"armed_idle", "armed_faulting"}
    BY <1>3, <1>4, UpdatedType, UpdatedCountdown
  <1> HIDE DEF new
  <1> QED
    BY <1>1, <1>3, <1>5, <1>6, <1>7

---------------------------------------------------------------------------
(* The invariant.                                                          *)

LEMMA InitIInv == Init => IInv
  <1> SUFFICES ASSUME Init PROVE IInv
    OBVIOUS
  <1>1. /\ 0 \in 0..MaxSpawnFailures /\ 0 \in 0..(TerminateTimeout + 1) /\ Clear \in 0..Clear
        /\ ctrl \in [Printers -> ControllerRecord \cup {NoController}]
    BY DEF Init, Clear
  <1>2. Typed
    BY <1>1, Zenon DEF Init, Typed, TypeOK, MaybePrinter
  <1>3. Unconfirmed /\ Dropped
    BY DEF Init, Unconfirmed, Dropped, NoController
  <1> QED
    BY <1>2, <1>3 DEF IInv

LEMMA RequestIInv ==
  ASSUME IInv, Request
  PROVE  IInv'
  <1>0. Typed /\ TypeOK /\ Unconfirmed /\ Dropped
    BY DEF IInv, Typed
  <1>1. CASE (\E p \in MaybePrinter : SwitchCapture(p)) \/ SetDetectEnabled
    <2>1. /\ UNCHANGED <<supervisor, status, ctrl, admitted, thread, ghosts>>
          /\ capture' \in MaybePrinter /\ enabled' \in BOOLEAN
      BY <1>0, <1>1 DEF SwitchCapture, SetDetectEnabled, TypeOK
    <2>2. Typed'
      BY <1>0, <2>1 DEF Typed, TypeOK, supervisor, thread, ghosts
    <2> QED
      BY <1>0, <2>1, <2>2 DEF IInv, Unconfirmed, Dropped, thread, ghosts
  <1>2. CASE \E p \in Printers : Arm(p) \/ Disarm(p) \/ Snapshot(p)
    <2> PICK p \in Printers : Arm(p) \/ Disarm(p) \/ Snapshot(p)
      BY <1>2
    <2>1. UNCHANGED <<registry, supervisor, status, thread>>
      BY DEF Arm, Disarm, Snapshot, Admitted
    <2>2. /\ ctrl' \in [Printers -> ControllerRecord \cup {NoController}]
          /\ \A q \in Printers :
               ctrl'[q].state = "armed_faulting" => ctrl'[q] = ctrl[q]
          /\ \A q \in Printers :
               q \in fresh /\ q \notin fresh' => ctrl'[q].state # "armed_faulting"
          /\ fresh' \subseteq Printers /\ away' \subseteq away
          /\ \A q \in away' :
               ctrl'[q].state \in {"armed_idle", "armed_faulting"} => ctrl'[q] = ctrl[q]
          /\ admitted' \subseteq Printers
      BY <1>0, RequestFacts
    <2>3. Typed'
      BY <1>0, <2>1, <2>2 DEF Typed, TypeOK, registry, supervisor, thread
    <2>4. Unconfirmed'
      BY <1>0, <2>1, <2>2 DEF Unconfirmed, Clear
    <2>5. Dropped'
      BY <1>0, <2>1, <2>2 DEF Dropped, thread
    <2> QED
      BY <2>3, <2>4, <2>5 DEF IInv
  <1>3. CASE \E p \in Printers : Admit(p)
    <2>1. /\ UNCHANGED <<registry, supervisor, status, ctrl, thread, ghosts>>
          /\ admitted' \subseteq Printers
      BY <1>0, <1>3 DEF Admit, TypeOK
    <2>2. Typed'
      BY <1>0, <2>1 DEF Typed, TypeOK, registry, supervisor, thread, ghosts
    <2> QED
      BY <1>0, <2>1, <2>2 DEF IInv, Unconfirmed, Dropped, thread, ghosts, Clear
  <1> QED
    BY <1>1, <1>2, <1>3 DEF Request

\* A frame with a fault confirms every countdown there is; one without ends the
\* evidence.
LEMMA DetectorIInv ==
  ASSUME IInv, Detector
  PROVE  IInv'
  <1>0. /\ Typed /\ TypeOK /\ Unconfirmed /\ Dropped
        /\ Clear \in Nat /\ 0 \in 0..Clear /\ Clear \in 0..Clear
    BY DEF IInv, Typed, Clear
  <1>1. /\ UNCHANGED <<registry, target, cooled, failures, ctrl, admitted, thread, away>>
        /\ proc' \in {proc, "exited"}
    BY DEF Detector, Frame, CameraLost, Crash, Terminated, supervisor, ghosts
  <1>2. CASE \E fault \in BOOLEAN : Frame(fault)
    <2>1. \/ /\ status' = 0
             /\ fresh' = {p \in Printers : ctrl[p].state = "armed_faulting"}
          \/ status' = Clear /\ fresh' = fresh
      BY <1>2 DEF Frame
    <2>2. Typed'
      BY <1>0, <1>1, <2>1 DEF Typed, TypeOK, registry, thread
    <2>3. Unconfirmed' /\ Dropped'
      BY <1>0, <1>1, <2>1 DEF Unconfirmed, Dropped, Clear, thread
    <2> QED
      BY <2>2, <2>3 DEF IInv
  <1>3. CASE CameraLost \/ Crash \/ Terminated
    <2>1. status' \in {status, Clear} /\ fresh' = fresh
      BY <1>3 DEF CameraLost, Crash, Terminated, ghosts
    <2>2. Typed'
      BY <1>0, <1>1, <2>1 DEF Typed, TypeOK, registry, thread
    <2>3. Unconfirmed' /\ Dropped'
      BY <1>0, <1>1, <2>1 DEF Unconfirmed, Dropped, Clear, thread
    <2> QED
      BY <2>2, <2>3 DEF IInv
  <1> QED
    BY <1>2, <1>3 DEF Detector

LEMMA TickIInv ==
  ASSUME IInv, Tick
  PROVE  IInv'
  <1>0. Typed /\ TypeOK /\ Unconfirmed /\ Dropped
    BY DEF IInv, Typed
  <1>1. CASE ReconcileStop \/ Reaped \/ ReconcileStart \/ ReconcileSame
    <2>1. UNCHANGED <<registry, status, ctrl, admitted, cap, ghosts>>
      BY <1>1 DEF ReconcileStop, Reaped, ReconcileStart, ReconcileSame
    <2>2. /\ target' \in MaybePrinter /\ proc' \in {"none", "up", "exited"}
          /\ cooled' \in BOOLEAN /\ pc' \in {"idle", "waiting", "capture"}
          /\ pc # "drop"
      BY <1>0, <1>1
      DEF ReconcileStop, Reaped, ReconcileStart, ReconcileSame, StartTarget, Spawn,
          SpawnRaises, detectionTarget, TypeOK, MaybePrinter
    <2>3. failures' \in 0..MaxSpawnFailures /\ late' \in 0..(TerminateTimeout + 1)
      BY <1>0, <1>1
      DEF ReconcileStop, Reaped, ReconcileStart, ReconcileSame, StartTarget, Spawn,
          SpawnRaises, TypeOK
    <2>4. Typed'
      BY <1>0, <2>1, <2>2, <2>3 DEF Typed, TypeOK, registry, ghosts
    <2> QED
      BY <1>0, <2>1, <2>2, <2>4 DEF IInv, Unconfirmed, Dropped, ghosts, Clear
  <1>2. CASE ReadCapture
    <2>1. /\ UNCHANGED <<registry, supervisor, status, ctrl, admitted, late, fresh>>
          /\ cap' = capture /\ pc = "capture" /\ pc' = "drop"
          /\ away' = away \cup (Printers \ {capture})
      BY <1>2 DEF ReadCapture
    <2>2. Typed'
      BY <1>0, <2>1 DEF Typed, TypeOK, registry, supervisor
    <2>3. Dropped'
      <3> SUFFICES ASSUME NEW p \in away', ctrl[p].state \in {"armed_idle", "armed_faulting"}
                   PROVE  p # capture
        BY <2>1 DEF Dropped
      <3> QED
        BY <1>0, <2>1 DEF Dropped
    <2> QED
      BY <1>0, <2>1, <2>2, <2>3 DEF IInv, Unconfirmed, Clear
  <1>3. CASE DropControllers
    <2>1. UNCHANGED <<registry, supervisor, status, admitted, cap, away>>
      BY <1>3 DEF DropControllers
    <2>2. /\ ctrl' = [p \in Printers |-> IF p = cap THEN ctrl[p] ELSE NoController]
          /\ fresh' = fresh \cap {cap}
      BY <1>3 DEF DropControllers
    <2>3. \/ pc' = "idle" /\ late' = 0
          \/ pc' = "read" /\ late' = late /\ cap # NoPrinter
      BY <1>3 DEF DropControllers
    <2>4. Typed'
      BY <1>0, <2>1, <2>2, <2>3 DEF Typed, TypeOK, MaybePrinter, registry, supervisor
    <2>5. Unconfirmed'
      BY <1>0, <2>1, <2>2, ControllerFacts DEF Unconfirmed, Clear
    <2>6. Dropped'
      BY <1>0, <2>1, <2>2, ControllerFacts DEF Dropped, TypeOK
    <2> QED
      BY <2>4, <2>5, <2>6 DEF IInv
  <1>4. CASE UpdateController
    <2>1. /\ UNCHANGED <<registry, supervisor, status, admitted, away>>
          /\ pc = "read" /\ pc' = "idle" /\ late' = 0
          /\ cap' = NoPrinter /\ cap \in Printers
      BY <1>0, <1>4 DEF UpdateController, Typed
    <2>2. /\ ctrl' \in [Printers -> ControllerRecord \cup {NoController}]
          /\ \A p \in Printers : p # cap => ctrl'[p] = ctrl[p]
          /\ ctrl'[cap].state = "armed_faulting" =>
               \/ /\ ctrl[cap].state = "armed_faulting" /\ fresh' = fresh
                  /\ ctrl'[cap].faultAge = ctrl[cap].faultAge
               \/ ctrl'[cap].faultAge = 0
          /\ fresh' \in {fresh, fresh \ {cap}}
          /\ ctrl'[cap].state \in {"armed_idle", "armed_faulting"} =>
               ctrl[cap].state \in {"armed_idle", "armed_faulting"}
      BY <1>0, <1>4, UpdateFacts
    <2>3. Typed'
      BY <1>0, <2>1, <2>2 DEF Typed, TypeOK, MaybePrinter, registry, supervisor
    <2>4. Unconfirmed'
      <3>1. status \in Nat
        BY <1>0 DEF TypeOK, Clear
      <3> QED
        BY <1>0, <2>1, <2>2, <3>1 DEF Unconfirmed, Clear
    <2>5. Dropped'
      BY <1>0, <2>1, <2>2 DEF Dropped, TypeOK
    <2> QED
      BY <2>3, <2>4, <2>5 DEF IInv
  <1> QED
    BY <1>1, <1>2, <1>3, <1>4 DEF Tick

\* A countdown and the status that started it grow old together.
LEMMA ElapseIInv ==
  ASSUME IInv, Elapse
  PROVE  IInv'
  <1>0. Typed /\ TypeOK /\ Unconfirmed /\ Dropped
    BY DEF IInv, Typed
  <1>1. /\ ctrl' \in [Printers -> ControllerRecord \cup {NoController}]
        /\ status' = CappedNext(status, Clear) /\ status' \in 0..Clear
        /\ \A p \in Printers :
             /\ ctrl'[p].state = ctrl[p].state
             /\ ctrl[p].state = "armed_faulting" =>
                  /\ ctrl[p].faultAge \in 0..Sustain
                  /\ ctrl'[p].faultAge = CappedNext(ctrl[p].faultAge, Sustain)
    BY <1>0, ElapseFacts
  <1>2. /\ UNCHANGED <<registry, target, proc, failures, admitted, pc, cap, ghosts>>
        /\ late' \in 0..(TerminateTimeout + 1) /\ cooled' = TRUE
    BY <1>0 DEF Elapse, TypeOK
  <1>3. Typed'
    BY <1>0, <1>1, <1>2 DEF Typed, TypeOK, registry, ghosts
  <1>4. Unconfirmed'
    <2> SUFFICES ASSUME NEW p \in Printers, ctrl'[p].state = "armed_faulting",
                        p \notin fresh', status' # Clear'
                 PROVE  ctrl'[p].faultAge <= status'
      BY DEF Unconfirmed
    <2>1. /\ status \in 0..Clear /\ Clear \in Nat /\ Clear' = Clear
          /\ ctrl[p].state = "armed_faulting" /\ p \notin fresh
      BY <1>0, <1>1, <1>2 DEF TypeOK, Clear, ghosts
    <2>2. status < Clear /\ status' = status + 1
      BY <1>1, <2>1 DEF CappedNext
    <2>3. ctrl[p].faultAge <= status
      BY <1>0, <2>1, <2>2 DEF Unconfirmed
    <2>4. /\ ctrl[p].faultAge \in 0..Sustain
          /\ ctrl'[p].faultAge = CappedNext(ctrl[p].faultAge, Sustain)
      BY <1>1, <2>1
    <2> QED
      BY <2>1, <2>2, <2>3, <2>4 DEF CappedNext
  <1> QED
    <2>1. Dropped'
      BY <1>0, <1>1, <1>2 DEF Dropped, TypeOK, ghosts
    <2> QED
      BY <1>3, <1>4, <2>1 DEF IInv

LEMMA NextIInv == IInv /\ [Next]_vars => IInv'
  <1> SUFFICES ASSUME IInv, [Next]_vars PROVE IInv'
    OBVIOUS
  <1>1. CASE UNCHANGED vars
    BY <1>1 DEF vars, registry, supervisor, thread, ghosts, IInv, Typed, TypeOK, Unconfirmed,
                Dropped, Clear
  <1> QED
    BY <1>1, RequestIInv, DetectorIInv, TickIInv, ElapseIInv DEF Next

---------------------------------------------------------------------------
(* The theorems.                                                           *)

\* No countdown outruns the status it started from, and none outlives a tick that saw
\* the camera elsewhere, however the loop's steps and the requests interleave.
THEOREM Invariance == Spec => []IInv
  BY InitIInv, NextIInv, PTL DEF Spec

\* The coordinator, its controllers and the supervisor keep their types.
THEOREM Typing == Spec => []TypeOK
  <1>1. IInv => TypeOK
    BY DEF IInv, Typed
  <1> QED
    BY <1>1, Invariance, PTL

\* Only the coordinator's look at the camera's own printer begins a stop.
LEMMA WhoStops ==
  ASSUME IInv, [Next]_vars, NEW p \in Printers, FirstStop(p)
  PROVE  UpdateController /\ p = cap
  <1>0. Typed /\ TypeOK /\ ctrl[p].state = "armed_faulting" /\ ctrl'[p].state = "stopping"
    BY DEF IInv, Typed, FirstStop
  <1>1. ctrl'[p] # ctrl[p]
    BY <1>0
  <1>2. ~(Request \/ Detector)
    <2>1. ASSUME NEW q \in Printers, Arm(q) \/ Disarm(q) \/ Snapshot(q) PROVE FALSE
      BY <1>0, <1>1, <2>1, RequestFacts
    <2> QED
      BY <1>1, <2>1 DEF Request, SwitchCapture, SetDetectEnabled, Detector, Frame,
                        CameraLost, Crash, Terminated, Admit
  <1>3. ~Elapse
    BY <1>0, ElapseFacts
  <1>4. ~(Tick /\ ~UpdateController)
    <2>1. ~DropControllers
      BY <1>0, <1>1, ControllerFacts DEF DropControllers
    <2> QED
      BY <1>1, <2>1 DEF Tick, ReconcileStop, Reaped, ReconcileStart, ReconcileSame, ReadCapture
  <1>5. UpdateController
    BY <1>1, <1>2, <1>3, <1>4 DEF Next, vars
  <1> QED
    BY <1>0, <1>1, <1>5, UpdateFacts

\* Once a tick has seen the camera elsewhere, no stop of this printer begins until
\* somebody arms it again: the tick has deleted the controller with its countdown,
\* and what a request that came too late creates is armed by that request.
THEOREM CameraMovedNoStop == Spec => SwitchForgets
  <1>1. IInv /\ [Next]_vars =>
          [\A p \in Printers : FirstStop(p) => p \notin away]_vars
    <2> SUFFICES ASSUME IInv, [Next]_vars, NEW p \in Printers, FirstStop(p), p \in away
                 PROVE  FALSE
      OBVIOUS
    <2>1. UpdateController /\ p = cap
      BY WhoStops
    <2>2. pc = "read" /\ ctrl[p].state = "armed_faulting"
      BY <2>1 DEF UpdateController, FirstStop
    <2> QED
      BY <2>2 DEF IInv, Dropped
  <1> QED
    BY <1>1, Invariance, PTL DEF Spec, SwitchForgets

\* A status that outlives its detector never stops a print, as long as the status is
\* taken for stale before the countdown it started is over.
THEOREM StaleNeverStops ==
  ASSUME StaleAfter < Sustain
  PROVE  Spec => NoStaleStop
  <1>1. IInv /\ [Next]_vars => [\A p \in Printers : FirstStop(p) => p \in fresh]_vars
    <2> SUFFICES ASSUME IInv, [Next]_vars, NEW p \in Printers, FirstStop(p)
                 PROVE  p \in fresh
      OBVIOUS
    <2>1. UpdateController /\ p = cap /\ Typed
      BY WhoStops DEF IInv
    <2>2. status # Clear /\ ctrl[p].faultAge >= Sustain /\ ctrl[p].state = "armed_faulting"
      BY <2>1, UpdateFacts DEF FirstStop
    <2>3. ctrl[p].faultAge \in 0..Sustain
      BY <2>1, <2>2, ControllerFacts DEF Typed, TypeOK, ControllerRecord
    <2>4. status \in 0..Clear
      BY <2>1 DEF Typed, TypeOK
    <2>5. p \notin fresh => ctrl[p].faultAge <= status
      BY <2>2 DEF IInv, Unconfirmed
    <2> QED
      BY <2>2, <2>3, <2>4, <2>5 DEF Clear
  <1> QED
    BY <1>1, Invariance, PTL DEF Spec, NoStaleStop

===============================================================================
