----------------------------- MODULE AutoStop -----------------------------
(***************************************************************************)
(* One AutoStopController fed by arbitrary detections, printer states,     *)
(* arm/disarm requests and the passage of time.  Two history variables     *)
(* remember what the controller's own fields do not: how many stops it has *)
(* returned since it was last armed, and how long ago the evidence for a   *)
(* fault was last interrupted.                                             *)
(***************************************************************************)
EXTENDS AutoStopController

CONSTANTS
  Classes,     \* detection classes (store.DETECTION_CLASSES)
  MaxConf      \* confidences and thresholds are 0..MaxConf

ASSUME DetectionAssumption == MaxConf \in Nat

VARIABLES
  ctrl,        \* the controller
  cfg,         \* what configure() last stored: [classes, threshold]
  sends,       \* history: "fire" results since the last arm(True)
  sinceClear   \* history: time since arm(True) or the last update that saw no
               \* qualifying detection, capped at Sustain

vars == <<ctrl, cfg, sends, sinceClear>>

Detections == [cls : Classes, conf : {MalformedConf} \cup 0..MaxConf]
Configs == [classes : SUBSET Classes, threshold : 0..MaxConf]

TypeOK ==
  /\ ctrl \in ControllerRecord
  /\ cfg \in Configs
  /\ sends \in Nat
  /\ sinceClear \in 0..Sustain

\* The constructor arms nothing and watches one class at a threshold.
Init ==
  /\ ctrl = Fresh
  /\ cfg \in {c \in Configs : \A a, b \in c.classes : a = b}
  /\ sends = 0
  /\ sinceClear = 0

ArmOn ==
  /\ ctrl' = Armed(ctrl)
  /\ sends' = 0
  /\ sinceClear' = 0
  /\ UNCHANGED cfg

ArmOff ==
  /\ ctrl' = Disarmed(ctrl)
  /\ UNCHANGED <<cfg, sends, sinceClear>>

Configure ==
  /\ cfg' \in Configs
  /\ UNCHANGED <<ctrl, sends, sinceClear>>

\* One tick's update(detections, gcode_state).
Update(dets, gstate) ==
  LET fault == Qualifying(dets, cfg.classes, cfg.threshold) IN
  /\ ctrl' = Updated(ctrl, fault, gstate)
  /\ sends' = IF Fires(ctrl, fault, gstate) THEN sends + 1 ELSE sends
  /\ sinceClear' = IF fault THEN sinceClear ELSE 0
  /\ UNCHANGED cfg

Elapse ==
  /\ ctrl' = Aged(ctrl)
  /\ sinceClear' = CappedNext(sinceClear, Sustain)
  /\ UNCHANGED <<cfg, sends>>

Tick == \E dets \in SUBSET Detections, gstate \in GcodeStates : Update(dets, gstate)

Next ==
  \/ ArmOn
  \/ ArmOff
  \/ Configure
  \/ Tick
  \/ Elapse

Spec == Init /\ [][Next]_vars

---------------------------------------------------------------------------
\* The inductive invariant: what each state of the machine knows of the history.
Bookkeeping ==
  /\ ctrl.state = "disarmed" => ~ctrl.armed /\ sends <= 2
  /\ ctrl.state \in {"armed_idle", "armed_faulting"} => ctrl.armed /\ sends = 0
  /\ ctrl.state = "stopping" => ~ctrl.armed /\ sends = ctrl.stopCount /\ sends \in 1..2
  /\ ctrl.state = "stopped" => ~ctrl.armed /\ sends \in 1..2
  /\ ctrl.byMonitor <=> sends > 0
  /\ ctrl.state = "armed_faulting" => ctrl.faultAge <= sinceClear

IInv == TypeOK /\ Bookkeeping

\* At most two stops go out for one arming, however the printer answers and
\* however often update() runs (the re-send of "stopping" happens once).
TwoSendsPerArming == sends <= 2

\* The latch the dashboard and the run recorder read means exactly that this
\* arming, or the last one before a disarm, has sent a stop.
LatchMeansSent == ctrl.byMonitor <=> sends > 0

\* The first stop of an arming goes out only when, for the whole sustain time
\* and since the controller was armed, no update saw a frame without a fault.
FireOnlyAfterSustain ==
  [][sends = 0 /\ sends' = 1 => sinceClear >= Sustain]_vars

===========================================================================
