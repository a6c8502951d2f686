--------------------------- MODULE DetectionLoop ---------------------------
(***************************************************************************)
(* server/detection.py: the coordinator's tick over the registry's capture *)
(* printer, the detector subprocess its supervisor keeps, the status file  *)
(* that subprocess leaves behind, and one AutoStopController per printer.  *)
(*                                                                         *)
(* Every timer is an age capped at the bound it is compared with.  What    *)
(* the printer reports is environment: a tick may read any gcode_state.    *)
(* Left out: removing a printer (here the capture printer only moves, or   *)
(* becomes none), an edit of the target's configuration that keeps its     *)
(* serial, the registry or terminate() raising, and stop().                *)
(***************************************************************************)
EXTENDS AutoStopController

CONSTANTS
  Printers,          \* serials in the registry
  NoPrinter,         \* None
  StaleAfter,        \* StatusReader.stale_after
  TerminateTimeout,  \* TERMINATE_TIMEOUT_S
  MaxSpawnFailures   \* bound: how often Popen raises

ASSUME LoopAssumption ==
  /\ NoPrinter \notin Printers
  /\ StaleAfter \in Nat /\ TerminateTimeout \in Nat /\ MaxSpawnFailures \in Nat

VARIABLES
  capture,      \* registry: the printer with capture set, or NoPrinter
  enabled,      \* registry: detect_enabled of the capture printer
  target,       \* supervisor._target (its serial)
  proc,         \* supervisor._proc: "none", "up" or "exited"
  cooled,       \* backoff_s has passed since _last_spawn
  failures,     \* how often Popen has raised
  status,       \* the status file
  ctrl,         \* coordinator._controllers
  admitted,     \* printers that a request in progress found to have the camera
  pc,           \* where the coordinator's thread is
  cap,          \* tick(): local cap, NoPrinter when it has none
  late,         \* units of time since the last tick ended
  fresh,        \* ghost: printers whose countdown a new frame has confirmed
  away          \* ghost: printers that a tick saw without the camera, and that
                \* were not armed since

registry == <<capture, enabled>>
supervisor == <<target, proc, cooled, failures>>
thread == <<pc, cap, late>>
ghosts == <<fresh, away>>
vars == <<registry, supervisor, status, ctrl, admitted, thread, ghosts>>

MaybePrinter == Printers \cup {NoPrinter}
NoController == [state |-> "absent"]

\* A status with a qualifying detection is known by its age (the file names no
\* printer).  One that is stale, errored, unreadable or shows no fault reaches
\* the controller as the same empty list: Clear.
Clear == StaleAfter + 1

TypeOK ==
  /\ capture \in MaybePrinter /\ enabled \in BOOLEAN
  /\ target \in MaybePrinter
  /\ proc \in {"none", "up", "exited"}
  /\ cooled \in BOOLEAN
  /\ failures \in 0..MaxSpawnFailures
  /\ status \in 0..Clear
  /\ ctrl \in [Printers -> ControllerRecord \cup {NoController}]
  /\ admitted \subseteq Printers
  /\ pc \in {"idle", "waiting", "capture", "drop", "read"}
  /\ cap \in MaybePrinter /\ late \in 0..(TerminateTimeout + 1)
  /\ fresh \subseteq Printers /\ away \subseteq Printers

Init ==
  /\ capture \in MaybePrinter /\ enabled \in BOOLEAN
  /\ target = NoPrinter /\ proc = "none" /\ cooled = TRUE
  /\ failures = 0 /\ status = Clear
  /\ ctrl = [p \in Printers |-> NoController] /\ admitted = {}
  /\ pc = "idle" /\ cap = NoPrinter /\ late = 0
  /\ fresh = {} /\ away = {}

---------------------------------------------------------------------------
(* The registry, changed by API requests at any moment.                    *)

\* The new capture printer comes with a detect_enabled of its own.
SwitchCapture(p) ==
  /\ p # capture
  /\ capture' = p
  /\ enabled' \in BOOLEAN
  /\ UNCHANGED <<supervisor, status, ctrl, admitted, thread, ghosts>>

SetDetectEnabled ==
  /\ enabled' = ~enabled
  /\ UNCHANGED <<capture, supervisor, status, ctrl, admitted, thread, ghosts>>

detectionTarget == IF enabled THEN capture ELSE NoPrinter

---------------------------------------------------------------------------
(* Requests on the controllers.  Each one first asks the registry whether  *)
(* the printer has the camera, and only then takes the coordinator's lock: *)
(* by then the camera may be elsewhere.                                    *)

ControllerFor(p) == IF ctrl[p] = NoController THEN Fresh ELSE ctrl[p]

\* serial == registry.capture_serial(), read with no lock.
Admit(p) ==
  /\ p = capture
  /\ admitted' = admitted \cup {p}
  /\ UNCHANGED <<registry, supervisor, status, ctrl, thread, ghosts>>

\* A step of an admitted request, the last one or not.
Admitted(p) ==
  /\ p \in admitted
  /\ admitted' \in {admitted, admitted \ {p}}
  /\ UNCHANGED <<registry, supervisor, status, thread>>

\* arm(True)
Arm(p) ==
  /\ Admitted(p)
  /\ ctrl' = [ctrl EXCEPT ![p] = Armed(ControllerFor(p))]
  /\ fresh' = fresh \ {p}
  /\ away' = away \ {p}

\* arm(False)
Disarm(p) ==
  /\ Admitted(p)
  /\ ctrl' = [ctrl EXCEPT ![p] = Disarmed(ControllerFor(p))]
  /\ fresh' = fresh \ {p}
  /\ UNCHANGED away

\* snapshot() also creates the controller it reports on.
Snapshot(p) ==
  /\ Admitted(p)
  /\ ctrl' = [ctrl EXCEPT ![p] = ControllerFor(p)]
  /\ UNCHANGED ghosts

---------------------------------------------------------------------------
(* The detector subprocess.  It installs no signal handler, so once it is  *)
(* told to terminate it writes nothing more, even while it lingers.  One   *)
(* that outlives the wait is let go: whether it still has the camera can   *)
(* be told only by its successor, which then ends by CameraLost.           *)

Detecting == proc = "up" /\ pc # "waiting"

\* detection_loop(): one capture, its detections written to the status file.
Frame(fault) ==
  /\ Detecting
  /\ status' = IF fault THEN 0 ELSE Clear
  /\ fresh' = IF fault THEN {p \in Printers : ctrl[p].state = "armed_faulting"} ELSE fresh
  /\ UNCHANGED <<registry, supervisor, ctrl, admitted, thread, away>>

\* detection_loop() after MAX_READ_FAILURES misses: an error status, then exit.
\* Also how a detector ends whose camera another process still holds.
CameraLost ==
  /\ Detecting
  /\ status' = Clear
  /\ proc' = "exited"
  /\ UNCHANGED <<registry, target, cooled, failures, ctrl, admitted, thread, ghosts>>

\* The process dies without a word (a crash, a kill, no weights file).
Crash ==
  /\ Detecting
  /\ proc' = "exited"
  /\ UNCHANGED <<registry, target, cooled, failures, status, ctrl, admitted,
                 thread, ghosts>>

\* A detector that was told to terminate exits.
Terminated ==
  /\ pc = "waiting" /\ proc = "up"
  /\ proc' = "exited"
  /\ UNCHANGED <<registry, target, cooled, failures, status, ctrl, admitted,
                 thread, ghosts>>

---------------------------------------------------------------------------
(* The coordinator's thread: tick(), step by step.                         *)

\* _spawn(): Popen starts the process.
Spawn ==
  /\ proc' = "up" /\ cooled' = FALSE /\ pc' = "capture"
  /\ UNCHANGED <<failures, late>>

\* Popen raises (no memory for the process, no such file): _proc and _last_spawn
\* stay as they are, and with the exception the whole tick is over.
SpawnRaises ==
  /\ failures < MaxSpawnFailures
  /\ failures' = failures + 1
  /\ pc' = "idle" /\ late' = 0
  /\ UNCHANGED cooled

\* The end of reconcile() for a new target: by now _proc is None.
StartTarget ==
  \/ /\ target' = NoPrinter
     /\ proc' = "none" /\ pc' = "capture"
     /\ UNCHANGED <<cooled, failures, late>>
  \/ target' # NoPrinter /\ Spawn
  \/ target' # NoPrinter /\ SpawnRaises /\ proc' = "none"

\* reconcile() with a new target and a process to stop: terminate() is sent.
\* _target changes when the wait is over; nothing reads it before.
ReconcileStop ==
  /\ pc = "idle"
  /\ detectionTarget # target
  /\ proc # "none"
  /\ target' = detectionTarget
  /\ pc' = "waiting"
  /\ UNCHANGED <<registry, proc, cooled, failures, status, ctrl, admitted, cap,
                 late, ghosts>>

\* wait(timeout) returns because the process is gone, or times out; either way
\* the handle is dropped.
Reaped ==
  /\ pc = "waiting"
  /\ proc = "exited" \/ late > TerminateTimeout
  /\ target' = target
  /\ StartTarget
  /\ UNCHANGED <<registry, status, ctrl, admitted, cap, ghosts>>

\* reconcile() with a new target and no process.
ReconcileStart ==
  /\ pc = "idle"
  /\ detectionTarget # target
  /\ proc = "none"
  /\ target' = detectionTarget
  /\ StartTarget
  /\ UNCHANGED <<registry, status, ctrl, admitted, cap, ghosts>>

\* Mutant: a detector that exited is left alone.
ReconcileSameNoRespawn ==
  /\ pc = "idle"
  /\ detectionTarget = target
  /\ pc' = "capture"
  /\ UNCHANGED <<registry, supervisor, status, ctrl, admitted, cap, late, ghosts>>

\* reconcile() with the target it already has: respawn a process that exited,
\* no sooner than the back-off after the last spawn.  With no process at all
\* nothing is done.
ReconcileSame ==
  /\ pc = "idle"
  /\ detectionTarget = target
  /\ target' = target
  /\ IF target # NoPrinter /\ proc = "exited" /\ cooled
       THEN Spawn \/ (SpawnRaises /\ UNCHANGED proc)
       ELSE pc' = "capture" /\ UNCHANGED <<proc, cooled, failures, late>>
  /\ UNCHANGED <<registry, status, ctrl, admitted, cap, ghosts>>

\* cap = registry.capture_serial()
ReadCapture ==
  /\ pc = "capture"
  /\ cap' = capture
  /\ pc' = "drop"
  /\ away' = away \cup (Printers \ {capture})
  /\ UNCHANGED <<registry, supervisor, status, ctrl, admitted, late, fresh>>

\* Mutant: a controller is kept for the day the camera comes back.
DropNothing ==
  /\ pc = "drop"
  /\ IF cap = NoPrinter THEN pc' = "idle" /\ late' = 0
                        ELSE pc' = "read" /\ UNCHANGED late
  /\ UNCHANGED <<registry, supervisor, status, ctrl, admitted, cap, ghosts>>

\* The controllers of every other printer are deleted, under the lock.
DropControllers ==
  /\ pc = "drop"
  /\ ctrl' = [p \in Printers |-> IF p = cap THEN ctrl[p] ELSE NoController]
  /\ fresh' = fresh \cap {cap}
  /\ IF cap = NoPrinter THEN pc' = "idle" /\ late' = 0
                        ELSE pc' = "read" /\ UNCHANGED late
  /\ UNCHANGED <<registry, supervisor, status, admitted, cap, away>>

\* The status file (readable or not) and gcode_state are read and the
\* controller updated.  A returned "fire" is published to the printer's
\* service, which answers nothing, and the tick ends.
UpdateController ==
  /\ pc = "read"
  /\ \E readable \in BOOLEAN, gstate \in {"RUNNING", "FAILED"} :
       LET fault == readable /\ status # Clear
           old == ControllerFor(cap)
           new == Updated(old, fault, gstate)
       IN /\ ctrl' = [ctrl EXCEPT ![cap] = new]
          /\ fresh' = IF old.state = "armed_faulting" /\ new.state = "armed_faulting"
                        THEN fresh ELSE fresh \ {cap}
  /\ pc' = "idle" /\ late' = 0 /\ cap' = NoPrinter
  /\ UNCHANGED <<registry, supervisor, status, admitted, away>>

Tick ==
  \/ ReconcileStop
  \/ Reaped
  \/ ReconcileStart
  \/ ReconcileSame
  \/ ReadCapture
  \/ DropControllers
  \/ UpdateController

\* Mutant: the age of the status file is not looked at.
ElapseForgetsAge ==
  /\ \/ pc = "idle" /\ late = 0
     \/ pc = "waiting" /\ late <= TerminateTimeout
  /\ late' = late + 1
  /\ cooled' = TRUE
  /\ ctrl' = [p \in Printers |->
                IF ctrl[p] = NoController THEN NoController ELSE Aged(ctrl[p])]
  /\ UNCHANGED <<registry, target, proc, failures, status, admitted, pc, cap,
                 ghosts>>

\* Time passes between ticks and while a tick waits for a process to exit.  A
\* tick is due every half second; at most one unit passes without one, plus
\* the time a tick may wait.
Elapse ==
  /\ \/ pc = "idle" /\ late = 0
     \/ pc = "waiting" /\ late <= TerminateTimeout
  /\ late' = late + 1
  /\ cooled' = TRUE
  /\ status' = CappedNext(status, Clear)
  /\ ctrl' = [p \in Printers |->
                IF ctrl[p] = NoController THEN NoController ELSE Aged(ctrl[p])]
  /\ UNCHANGED <<registry, target, proc, failures, admitted, pc, cap, ghosts>>

Request ==
  \/ \E p \in MaybePrinter : SwitchCapture(p)
  \/ SetDetectEnabled
  \/ \E p \in Printers : Admit(p) \/ Arm(p) \/ Disarm(p) \/ Snapshot(p)

Detector ==
  \/ \E fault \in BOOLEAN : Frame(fault)
  \/ CameraLost
  \/ Crash
  \/ Terminated

Next == Request \/ Detector \/ Tick \/ Elapse

Spec == Init /\ [][Next]_vars

\* The coordinator's daemon thread runs for as long as the server does.  It
\* waits tick_s before every tick, so time passes again and again between ticks
\* (SF: Elapse is not enabled inside one).  Users, cameras and processes owe
\* nothing, but Popen raises no more than MaxSpawnFailures times.
FairSpec == Spec /\ WF_vars(Tick) /\ SF_vars(Elapse)

---------------------------------------------------------------------------
FirstStop(p) == ctrl[p].state = "armed_faulting" /\ ctrl'[p].state = "stopping"

\* "A stale detector must never cause a stop" (master.md): while the countdown
\* that ends in a stop was running, a live detector wrote at least one new frame
\* with a fault; the status that started the countdown is never enough.
NoStaleStop == [][\A p \in Printers : FirstStop(p) => p \in fresh]_vars

\* "A controller left frozen mid-fault would otherwise fire on the first frame
\* after the camera is pointed back at it": once a tick has seen the camera
\* elsewhere, no stop of this printer begins until somebody arms it again.
SwitchForgets == [][\A p \in Printers : FirstStop(p) => p \notin away]_vars

\* A detector that exits is respawned for as long as it is wanted: the server
\* does not settle into showing the status of a dead one, even if Popen raises on
\* the way.  (One that Popen did not start at all for a new target is not tried
\* again, ReconcileSame: there is no process that could have exited.)
DetectorRespawned == []<>(target = NoPrinter \/ proc # "exited")

\* No countdown hangs: it ends in a stop or is given up.
CountdownsEnd == \A p \in Printers : []<>(ctrl[p].state # "armed_faulting")

\* A stop in flight is always resolved, even by a printer that never reacts.
StopsResolve == \A p \in Printers : []<>(ctrl[p].state # "stopping")

===========================================================================
