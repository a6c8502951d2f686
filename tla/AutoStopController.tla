------------------------ MODULE AutoStopController ------------------------
(***************************************************************************)
(* server/detection.py, class AutoStopController: the arm / sustain / stop *)
(* state machine, as operators on a controller record, so that the module  *)
(* AutoStop (one controller on its own) and the module DetectionLoop (one  *)
(* controller per printer, driven by the coordinator) share one reading of *)
(* the code.                                                               *)
(*                                                                         *)
(* The code keeps time stamps and compares  now - stamp >= bound.  Only    *)
(* the comparison matters, so a record keeps the elapsed time of the timer *)
(* that is running, capped at its bound, and 0 for one that is not.        *)
(***************************************************************************)
EXTENDS Integers

CONSTANTS
  Sustain,     \* sustain_s: how long a fault must hold before the first stop
  Verify       \* verify_s: how long a stop may go unconfirmed before a resend

ASSUME TimingAssumption == Sustain \in Nat \ {0} /\ Verify \in Nat \ {0}

Terminal == {"FAILED", "IDLE", "FINISH"}

\* gcode_state as summary() reports it; "NONE" is a report that has not arrived.
GcodeStates == Terminal \cup {"RUNNING", "NONE"}

States == {"disarmed", "armed_idle", "armed_faulting", "stopping", "stopped"}

ControllerRecord ==
  [armed : BOOLEAN, state : States, faultAge : 0..Sustain,
   stopAge : 0..Verify, stopCount : 0..2, byMonitor : BOOLEAN]

Fresh == [armed |-> FALSE, state |-> "disarmed", faultAge |-> 0,
          stopAge |-> 0, stopCount |-> 0, byMonitor |-> FALSE]

\* Mutant: arming again leaves the latch of the last stop in place.
ArmedKeepsLatch(c) ==
  [c EXCEPT !.armed = TRUE, !.state = "armed_idle", !.faultAge = 0, !.stopAge = 0]

\* arm(True): from any state, the middle of a stop included.
Armed(c) ==
  [c EXCEPT !.armed = TRUE, !.byMonitor = FALSE, !.state = "armed_idle",
            !.faultAge = 0, !.stopAge = 0]

\* arm(False): the stopped_by_monitor latch stays as it was.
Disarmed(c) ==
  [c EXCEPT !.armed = FALSE, !.state = "disarmed", !.faultAge = 0, !.stopAge = 0]

\* _qualifying(): dets is a set of detections [cls, conf].  A malformed conf
\* counts as 0, which still reaches a threshold of 0.
MalformedConf == -1
Qualifying(dets, classes, threshold) ==
  \E d \in dets : /\ d.cls \in classes
                  /\ (IF d.conf = MalformedConf THEN 0 ELSE d.conf) >= threshold

\* The two places where update() returns "fire".
FirstFire(c, fault) ==
  /\ c.state = "armed_faulting"
  /\ fault
  /\ c.faultAge >= Sustain

\* Mutant: the re-send limit is off by one.
ResendOnceMore(c, gstate) ==
  /\ c.state = "stopping"
  /\ gstate \notin Terminal
  /\ c.stopAge >= Verify
  /\ c.stopCount <= 2

Resend(c, gstate) ==
  /\ c.state = "stopping"
  /\ gstate \notin Terminal
  /\ c.stopAge >= Verify
  /\ c.stopCount < 2

Fires(c, fault, gstate) == FirstFire(c, fault) \/ Resend(c, gstate)

\* Mutant: a gap in the evidence does not reset the timer.
UpdatedKeepsTimer(c, fault, gstate) ==
  CASE c.state = "armed_idle" /\ fault -> [c EXCEPT !.state = "armed_faulting"]
    [] FirstFire(c, fault) ->
         [c EXCEPT !.armed = FALSE, !.byMonitor = TRUE, !.state = "stopping",
                   !.faultAge = 0, !.stopCount = 1]
    [] OTHER -> c

\* Mutant: every faulty frame restarts the countdown.
UpdatedRestartsTimer(c, fault, gstate) ==
  CASE c.state \in {"armed_idle", "armed_faulting"} /\ fault ->
         [c EXCEPT !.state = "armed_faulting", !.faultAge = 0]
    [] OTHER -> c

\* Mutant: after the last re-send it never gives up.
UpdatedNeverGivesUp(c, fault, gstate) ==
  CASE c.state = "armed_idle" /\ fault -> [c EXCEPT !.state = "armed_faulting"]
    [] c.state = "armed_faulting" /\ ~fault -> [c EXCEPT !.state = "armed_idle", !.faultAge = 0]
    [] FirstFire(c, fault) ->
         [c EXCEPT !.armed = FALSE, !.byMonitor = TRUE, !.state = "stopping",
                   !.faultAge = 0, !.stopCount = 1]
    [] c.state = "stopping" /\ gstate \in Terminal -> [c EXCEPT !.state = "stopped"]
    [] Resend(c, gstate) -> [c EXCEPT !.stopCount = @ + 1, !.stopAge = 0]
    [] OTHER -> c

\* update(): the controller after one look at the detections and the printer.
Updated(c, fault, gstate) ==
  CASE c.state = "armed_idle" /\ fault ->
         [c EXCEPT !.state = "armed_faulting", !.faultAge = 0]
    [] c.state = "armed_faulting" /\ ~fault ->
         [c EXCEPT !.state = "armed_idle", !.faultAge = 0]
    [] FirstFire(c, fault) ->
         [c EXCEPT !.armed = FALSE, !.byMonitor = TRUE, !.state = "stopping",
                   !.faultAge = 0, !.stopCount = 1]
    [] c.state = "stopping" /\ gstate \in Terminal ->
         [c EXCEPT !.state = "stopped", !.stopAge = 0]
    [] Resend(c, gstate) ->
         [c EXCEPT !.stopCount = @ + 1, !.stopAge = 0]
    [] c.state = "stopping" /\ gstate \notin Terminal
       /\ c.stopAge >= Verify /\ c.stopCount >= 2 ->
         [c EXCEPT !.state = "stopped", !.stopAge = 0]
    [] OTHER -> c

\* One unit of time passes for the timer the controller is running.
CappedNext(age, bound) == IF age < bound THEN age + 1 ELSE bound

Aged(c) ==
  [c EXCEPT
     !.faultAge = IF c.state = "armed_faulting" THEN CappedNext(@, Sustain) ELSE @,
     !.stopAge  = IF c.state = "stopping" THEN CappedNext(@, Verify) ELSE @]

===========================================================================
