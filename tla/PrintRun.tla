----------------------------- MODULE PrintRun -----------------------------
(***************************************************************************)
(* One printer, its queue and its runs in the ledger: the start route      *)
(* (main.py, start_queue_job) and the recorder (runlog.py, RunRecorder)    *)
(* write the same rows from different threads, with only the printer's own *)
(* reports to tell them what happened.                                     *)
(*                                                                         *)
(* Each SQL statement is atomic (ledger.py takes one lock per statement);  *)
(* nothing holds across two of them.  A queue job is printed with a loaded *)
(* spool and known grams, so closing its run charges the spool; a run the  *)
(* recorder opens itself has neither.  Layer counters, HMS events and      *)
(* badges do not feed back into any of this and are left out; gcode_state  *)
(* RUNNING stands for PREPARE and SLICING too, and FINISH for FAILED.      *)
(* Whether the MQTT link is up is an input of the steps that look at it.   *)
(***************************************************************************)
EXTENDS Naturals, Sequences, FiniteSets

CONSTANTS
  Jobs,            \* jobs of this printer
  NoJob,           \* the job of a print or a run that is none of them
  Clients,         \* API threads that may be in start_queue_job at once
  MaxRuns,         \* bound: rows the ledger may get
  MaxPrints,       \* bound: prints the machine may begin
  MaxFaults,       \* bound: restarts, failed ledger writes, corrections
  MaxCommands,     \* bound: commands in flight; one published beyond it is lost
  MayPause         \* may a print be paused?

ASSUME RunAssumption ==
  /\ NoJob \notin Jobs /\ IsFiniteSet(Jobs)
  /\ MaxRuns \in Nat /\ MaxPrints \in Nat
  /\ MaxFaults \in Nat /\ MaxCommands \in Nat
  /\ MayPause \in BOOLEAN

VARIABLES
  machine,    \* what the printer is physically doing
  commands,   \* start commands published and not yet taken, oldest first
  reported,   \* the service's snapshot: its gcode_state, or see Reports
  queue,      \* the jobs of this printer, head first
  rows,       \* print_runs of this printer, by insertion
  request,    \* the start requests in progress
  rec,        \* the recorder: its thread and what it remembers
  pending,    \* recorder._pending: runs found open when it started
  deadline,   \* recorder._reconcile_until: "none" (None), "set", or "passed"
  faults,     \* counts towards MaxFaults
  downPrint   \* ghost: the print that was running at the last restart, or 0

environment == <<machine, commands, reported>>
recorder == <<rec, pending, deadline>>
vars == <<environment, queue, rows, request, recorder, faults, downPrint>>

BUSY_STATES == {"RUNNING", "PAUSE"}
STARTED_STATES == {"RUNNING"}
TERMINAL_STATES == {"FINISH", "IDLE"}
GcodeStates == BUSY_STATES \cup TERMINAL_STATES

\* "SILENT": the service has had no report yet; "NONE": none with a gcode_state.
Reports == GcodeStates \cup {"SILENT", "NONE"}

Verdicts == {"FINISH", "UNKNOWN", "START_UNCONFIRMED"}
MaybeJob == Jobs \cup {NoJob}
RunIds == 1..MaxRuns

Row ==
  [job : MaybeJob,                \* NoJob: source = "unattributed"
   end : Verdicts \cup {"open"},  \* end_state
   by : {"nobody", "route", "recorder", "restart", "operator"},  \* who closed it
   pieces : BOOLEAN,
   charged : Nat,                 \* rows of filament_consumption
   keeper : {"route", "recorder", "restart", "nobody"}]  \* ghost: who is to close it

TypeOK ==
  /\ machine \in [gcode : GcodeStates, print : 0..MaxPrints]
  /\ commands \in Seq(Jobs)
  /\ reported \in Reports
  /\ queue \in Seq(Jobs)
  /\ rows \in Seq(Row)
  /\ request \in [Clients ->
       [pc : {"idle", "opening", "sending", "verifying", "dequeuing", "closing"},
        job : MaybeJob, run : 0..Len(rows)]]
  /\ rec \in [pc : {"idle", "reconcile", "begin", "open", "find", "close",
                    "pieces", "charge"},
              seen : Reports, ok : BOOLEAN, wasBusy : BOOLEAN,
              run : 0..Len(rows), closed : BOOLEAN]
  /\ pending \subseteq 1..Len(rows)
  /\ deadline \in {"none", "set", "passed"}
  /\ faults \in 0..MaxFaults
  /\ downPrint \in 0..MaxPrints

NoRequest == [pc |-> "idle", job |-> NoJob, run |-> 0]
FreshRecorder == [pc |-> "idle", seen |-> "NONE", ok |-> FALSE, wasBusy |-> FALSE,
                  run |-> 0, closed |-> FALSE]

\* A new installation with its jobs queued, the printer on and not printing.
Init ==
  /\ machine = [gcode |-> "IDLE", print |-> 0]
  /\ commands = <<>>
  /\ reported = "IDLE"
  /\ queue \in {s \in [1..Cardinality(Jobs) -> Jobs] :
                  \A j \in Jobs : \E i \in DOMAIN s : s[i] = j}
  /\ rows = <<>>
  /\ request = [c \in Clients |-> NoRequest]
  /\ rec = FreshRecorder
  /\ pending = {} /\ deadline = "set"
  /\ faults = 0
  /\ downPrint = 0

---------------------------------------------------------------------------
(* The ledger's statements.                                                *)

Open(r) == rows[r].end = "open"
OpenRuns == {r \in 1..Len(rows) : Open(r)}

\* open_run()
WithNewRow(job) ==
  Append(rows, [job |-> job, end |-> "open", by |-> "nobody", pieces |-> FALSE,
                charged |-> 0, keeper |-> IF job = NoJob THEN "recorder" ELSE "route"])

\* find_open_run(): the newest open row, or none (0).
FindOpenRun ==
  IF OpenRuns = {} THEN 0
                   ELSE CHOOSE r \in OpenRuns : \A s \in OpenRuns : s <= r

\* Mutant: the update is not restricted to rows still open.
ClosedRowsAlways(runs, verdict, who) ==
  [r \in 1..Len(rows) |->
     IF r \in runs THEN [rows[r] EXCEPT !.end = verdict, !.by = who] ELSE rows[r]]

\* close_run(): only a row still open is changed.
ClosedRows(runs, verdict, who) ==
  [r \in 1..Len(rows) |->
     IF r \in runs /\ Open(r)
       THEN [rows[r] EXCEPT !.end = verdict, !.by = who]
       ELSE rows[r]]

\* Ghost: who is to close these runs from now on.
KeptBy(runs, who) ==
  [r \in 1..Len(rows) |->
     IF r \in runs THEN [rows[r] EXCEPT !.keeper = who] ELSE rows[r]]

---------------------------------------------------------------------------
(* The printer and the MQTT link to it.                                    *)

Busy == machine.gcode \in BUSY_STATES

Begin ==
  /\ machine.print < MaxPrints
  /\ machine' = [gcode |-> "RUNNING", print |-> machine.print + 1]

\* The next start command reaches the machine, which may ignore it and always
\* does while it prints; or it is lost on the way.
TakeCommand ==
  /\ commands # <<>>
  /\ commands' = Tail(commands)
  /\ \/ ~Busy /\ Begin
     \/ UNCHANGED machine
  /\ UNCHANGED <<reported, queue, rows, request, recorder, faults, downPrint>>

\* A print started at the printer's own screen.
StartAtScreen ==
  /\ ~Busy
  /\ Begin
  /\ UNCHANGED <<commands, reported, queue, rows, request, recorder, faults,
                 downPrint>>

Becomes(gcode) == machine' = [machine EXCEPT !.gcode = gcode]

MachineMoves ==
  /\ \/ Busy /\ Becomes("FINISH")
     \/ machine.gcode = "RUNNING" /\ MayPause /\ Becomes("PAUSE")
     \/ machine.gcode = "PAUSE" /\ Becomes("RUNNING")
     \/ machine.gcode = "FINISH" /\ Becomes("IDLE")
  /\ UNCHANGED <<commands, reported, queue, rows, request, recorder, faults, downPrint>>

\* _on_message(): a report is merged into the snapshot.  One without gcode_state
\* leaves that field as it was, and still counts as a report.
Report ==
  /\ \/ reported' = machine.gcode
     \/ reported = "SILENT" /\ reported' = "NONE"
  /\ UNCHANGED <<machine, commands, queue, rows, request, recorder, faults, downPrint>>

\* POST .../reconnect: a new service, whose snapshot is empty.
Reconnect ==
  /\ reported' = "SILENT"
  /\ UNCHANGED <<machine, commands, queue, rows, request, recorder, faults, downPrint>>

---------------------------------------------------------------------------
(* The queue's own routes and operator corrections.                        *)

\* The list less the one job with that id, if it is there.
Without(s, j) ==
  LET at == {i \in DOMAIN s : s[i] = j}
      i == CHOOSE k \in at : TRUE
  IN IF at = {} THEN s ELSE SubSeq(s, 1, i - 1) \o SubSeq(s, i + 1, Len(s))

RemoveQueueJob(j) ==
  /\ j \in {queue[i] : i \in DOMAIN queue}
  /\ queue' = Without(queue, j)
  /\ UNCHANGED <<environment, rows, request, recorder, faults, downPrint>>

\* PUT .../queue that moves a job to the top.
ReorderQueue(j) ==
  /\ j \in {queue[i] : i \in DOMAIN queue}
  /\ queue' = <<j>> \o Without(queue, j)
  /\ UNCHANGED <<environment, rows, request, recorder, faults, downPrint>>

\* PATCH /api/runs: end_state is written whatever it was.
PatchRun(r) ==
  /\ r <= Len(rows)
  /\ faults < MaxFaults
  /\ faults' = faults + 1
  /\ rows' = [rows EXCEPT ![r].end = "FINISH", ![r].by = "operator"]
  /\ UNCHANGED <<environment, queue, request, recorder, downPrint>>

---------------------------------------------------------------------------
(* start_queue_job(), step by step.                                        *)

At(c, pc) == request[c].pc = pc
Goto(c, pc) == request' = [request EXCEPT ![c].pc = pc]

\* Only the head of the queue starts; which job that is, is decided here.
RequestStart(c) ==
  /\ At(c, "idle")
  /\ queue # <<>>
  /\ request' = [request EXCEPT ![c] = [pc |-> "opening", job |-> Head(queue), run |-> 0]]
  /\ UNCHANGED <<environment, queue, rows, recorder, faults, downPrint>>

\* The row is opened before the command is published.  A ledger that fails
\* costs the row, never the print; one that is full (MaxRuns) counts as failing.
OpenRun(c) ==
  /\ At(c, "opening")
  /\ \/ /\ Len(rows) < MaxRuns
        /\ rows' = WithNewRow(request[c].job)
        /\ request' = [request EXCEPT ![c].pc = "sending", ![c].run = Len(rows) + 1]
        /\ UNCHANGED faults
     \/ /\ \/ faults < MaxFaults /\ faults' = faults + 1
           \/ Len(rows) = MaxRuns /\ UNCHANGED faults
        /\ Goto(c, "sending")
        /\ UNCHANGED rows
  /\ UNCHANGED <<environment, queue, recorder, downPrint>>

\* BambuLink._publish(): no ack, and nothing says whether it went out.
Publish(job) ==
  commands' = IF Len(commands) < MaxCommands THEN Append(commands, job) ELSE commands

\* Mutant: a refused start leaves its row behind.
SendStartForgetsRow(c) ==
  /\ At(c, "sending")
  /\ \E connected \in BOOLEAN : IF ~connected \/ reported \in BUSY_STATES
       THEN request' = [request EXCEPT ![c] = NoRequest] /\ UNCHANGED commands
       ELSE Goto(c, "verifying") /\ Publish(request[c].job)
  /\ UNCHANGED <<machine, reported, queue, rows, recorder, faults, downPrint>>

\* PrinterService.start_print(): PrinterBusy, or the command is published.
SendStart(c) ==
  /\ At(c, "sending")
  /\ \E connected \in BOOLEAN : IF ~connected \/ reported \in BUSY_STATES
       THEN Goto(c, "closing") /\ UNCHANGED commands
       ELSE Goto(c, "verifying") /\ Publish(request[c].job)
  /\ UNCHANGED <<machine, reported, queue, rows, recorder, faults, downPrint>>

\* verify_start(): a poll sees the print starting, or START_VERIFY_S passes.
Verify(c) ==
  /\ At(c, "verifying")
  /\ \/ /\ reported \in STARTED_STATES
        /\ Goto(c, "dequeuing")
        /\ rows' = KeptBy({request[c].run}, "recorder")
     \/ Goto(c, "closing") /\ UNCHANGED rows
  /\ UNCHANGED <<environment, queue, recorder, faults, downPrint>>

\* queue.remove(serial, job_id)
Dequeue(c) ==
  /\ At(c, "dequeuing")
  /\ queue' = Without(queue, request[c].job)
  /\ request' = [request EXCEPT ![c] = NoRequest]
  /\ UNCHANGED <<environment, rows, recorder, faults, downPrint>>

\* _close_run_quietly(): a ledger that fails leaves the row open, quietly.
CloseUnconfirmed(c) ==
  /\ At(c, "closing")
  /\ \/ /\ rows' = ClosedRows({request[c].run}, "START_UNCONFIRMED", "route")
        /\ UNCHANGED faults
     \/ /\ faults < MaxFaults
        /\ faults' = faults + 1
        /\ rows' = KeptBy({request[c].run}, "nobody")
  /\ request' = [request EXCEPT ![c] = NoRequest]
  /\ UNCHANGED <<environment, queue, recorder, downPrint>>

Route(c) ==
  \/ OpenRun(c)
  \/ SendStart(c)
  \/ Verify(c)
  \/ Dequeue(c)
  \/ CloseUnconfirmed(c)

---------------------------------------------------------------------------
(* RunRecorder.tick(), step by step.                                       *)

RecAt(pc) == rec.pc = pc

\* The rest of a tick that saw the state  seen : a print has begun or has ended,
\* or there is nothing to do.  From here on the state seen is _prev.
Compared(seen) ==
  LET busy == seen \in BUSY_STATES
  IN [FreshRecorder EXCEPT
        !.wasBusy = busy,
        !.pc = CASE busy /\ ~rec.wasBusy -> "begin"
                 [] ~busy /\ rec.wasBusy /\ seen \in TERMINAL_STATES -> "find"
                 [] OTHER -> "idle",
        !.seen = IF rec.wasBusy /\ seen \in TERMINAL_STATES THEN seen ELSE "NONE"]

Done == [FreshRecorder EXCEPT !.wasBusy = rec.wasBusy]

\* registry.summaries().  connection == "ok" takes a report that is recent.
Poll ==
  /\ RecAt("idle")
  /\ \E recent \in BOOLEAN :
       rec' = IF pending = {}
                THEN Compared(reported)
                ELSE [rec EXCEPT !.pc = "reconcile", !.seen = reported,
                                 !.ok = recent /\ reported # "SILENT"]
  /\ UNCHANGED <<environment, queue, rows, request, pending, deadline, faults, downPrint>>

SeenBusy == rec.seen \in BUSY_STATES

\* Mutant: a printer that does not report yet passes for an idle one.
ReconcileAtOnce ==
  /\ RecAt("reconcile")
  /\ rows' = IF SeenBusy THEN KeptBy(pending, "recorder")
                        ELSE ClosedRows(pending, "UNKNOWN", "restart")
  /\ pending' = {}
  /\ rec' = Compared(rec.seen)
  /\ UNCHANGED <<environment, queue, request, deadline, faults, downPrint>>

\* Mutant: there is no deadline.
ReconcileWaitsForever ==
  /\ RecAt("reconcile")
  /\ rows' = CASE ~rec.ok -> rows
              [] SeenBusy -> KeptBy(pending, "recorder")
              [] OTHER -> ClosedRows(pending, "UNKNOWN", "restart")
  /\ pending' = IF rec.ok THEN {} ELSE pending
  /\ rec' = Compared(rec.seen)
  /\ UNCHANGED <<environment, queue, request, deadline, faults, downPrint>>

\* _reconcile_pending(): the runs a restart left open, once the printer reports
\* or the deadline passes.  Its statements are taken together: one run at a time
\* or all at once, close_run() leaves a row somebody closed meanwhile alone.
Reconcile ==
  /\ RecAt("reconcile")
  /\ LET live == rec.ok /\ SeenBusy
         over == ~live /\ (rec.ok \/ deadline = "passed")
     IN /\ rows' = CASE over -> ClosedRows(pending, "UNKNOWN", "restart")
                     [] live -> KeptBy(pending, "recorder")
                     [] OTHER -> rows
        /\ pending' = IF live \/ over THEN {} ELSE pending
  /\ rec' = Compared(rec.seen)
  /\ UNCHANGED <<environment, queue, request, deadline, faults, downPrint>>

\* _begin(): adopt the open row there is, or go on to open one.
AdoptRun ==
  /\ RecAt("begin")
  /\ rec' = [rec EXCEPT !.pc = IF FindOpenRun = 0 THEN "open" ELSE "idle"]
  /\ UNCHANGED <<environment, queue, rows, request, pending, deadline, faults, downPrint>>

OpenUnattributed ==
  /\ RecAt("open")
  /\ IF Len(rows) < MaxRuns
       THEN rows' = WithNewRow(NoJob)
       ELSE UNCHANGED rows
  /\ rec' = Done
  /\ UNCHANGED <<environment, queue, request, pending, deadline, faults, downPrint>>

\* _one(), when the print is over: the newest open row is the one to end.
FindRun ==
  /\ RecAt("find")
  /\ rec' = IF FindOpenRun = 0 THEN Done
                               ELSE [rec EXCEPT !.pc = "close", !.run = FindOpenRun]
  /\ UNCHANGED <<environment, queue, rows, request, pending, deadline, faults, downPrint>>

EndState == IF rec.seen = "FINISH" THEN "FINISH" ELSE "UNKNOWN"

\* _end(): close_run() reports whether this call closed the row.
CloseRun ==
  /\ RecAt("close")
  /\ rows' = ClosedRows({rec.run}, EndState, "recorder")
  /\ rec' = [rec EXCEPT !.pc = "pieces", !.closed = Open(rec.run), !.seen = "NONE"]
  /\ UNCHANGED <<environment, queue, request, pending, deadline, faults, downPrint>>

CreatePieces ==
  /\ RecAt("pieces")
  /\ rows' = [rows EXCEPT ![rec.run].pieces = TRUE]
  /\ rec' = [rec EXCEPT !.pc = "charge"]
  /\ UNCHANGED <<environment, queue, request, pending, deadline, faults, downPrint>>

\* Mutant: the spool is charged whenever the end of a run is observed.
AddConsumptionUngated ==
  /\ RecAt("charge")
  /\ rows' = IF rows[rec.run].job # NoJob
               THEN [rows EXCEPT ![rec.run].charged = @ + 1] ELSE rows
  /\ rec' = Done
  /\ UNCHANGED <<environment, queue, request, pending, deadline, faults, downPrint>>

\* add_consumption(), only by the call that closed the row.
AddConsumption ==
  /\ RecAt("charge")
  /\ rows' = IF rec.closed /\ rows[rec.run].job # NoJob
               THEN [rows EXCEPT ![rec.run].charged = @ + 1] ELSE rows
  /\ rec' = Done
  /\ UNCHANGED <<environment, queue, request, pending, deadline, faults, downPrint>>

\* A ledger error inside _one() is caught by tick(), and what was seen is
\* remembered all the same.  One inside _reconcile_pending() ends the tick.
RecorderFails ==
  /\ ~RecAt("idle")
  /\ faults < MaxFaults
  /\ faults' = faults + 1
  /\ rec' = Done
  /\ UNCHANGED <<environment, queue, rows, request, pending, deadline, downPrint>>

\* RECONCILE_DEADLINE_S after the recorder started; only pending runs care.
DeadlinePasses ==
  /\ pending # {} /\ deadline = "set"
  /\ deadline' = "passed"
  /\ UNCHANGED <<environment, queue, rows, request, rec, pending, faults, downPrint>>

Tick ==
  \/ Poll
  \/ Reconcile
  \/ AdoptRun
  \/ OpenUnattributed
  \/ FindRun
  \/ CloseRun
  \/ CreatePieces
  \/ AddConsumption

---------------------------------------------------------------------------
\* Mutant: the recorder starts with nothing pending.
RestartUnarmed ==
  /\ faults < MaxFaults
  /\ faults' = faults + 1
  /\ request' = [c \in Clients |-> NoRequest]
  /\ rec' = FreshRecorder
  /\ rows' = KeptBy(OpenRuns, "restart")
  /\ pending' = {} /\ deadline' = "set"
  /\ reported' = "SILENT"
  /\ downPrint' = IF Busy THEN machine.print ELSE 0
  /\ UNCHANGED <<machine, commands, queue>>

\* The server dies with its requests and its memory.  What is on disk stays, and
\* so do commands already published.  The recorder's start() notes the open runs;
\* when open_runs() raises it logs that, and goes on with nothing pending.
Restart ==
  /\ faults < MaxFaults
  /\ faults' = faults + 1
  /\ request' = [c \in Clients |-> NoRequest]
  /\ rec' = FreshRecorder
  /\ rows' = KeptBy(OpenRuns, "restart")
  /\ \/ pending' = OpenRuns /\ deadline' = "set"
     \/ pending' = {} /\ deadline' = "none"
  /\ reported' = "SILENT"
  /\ downPrint' = IF Busy THEN machine.print ELSE 0
  /\ UNCHANGED <<machine, commands, queue>>

Environment ==
  \/ TakeCommand
  \/ StartAtScreen
  \/ MachineMoves
  \/ Report
  \/ Reconnect

Users ==
  \/ \E j \in Jobs : RemoveQueueJob(j) \/ ReorderQueue(j)
  \/ \E r \in RunIds : PatchRun(r)
  \/ \E c \in Clients : RequestStart(c)

Next ==
  \/ Environment
  \/ Users
  \/ \E c \in Clients : Route(c)
  \/ Tick
  \/ RecorderFails
  \/ DeadlinePasses
  \/ Restart

Spec == Init /\ [][Next]_vars

\* Threads the server started keep running: a request makes its next step (its
\* verification has a deadline), and so does the recorder; its deadline passes.
\* Printers, links and users owe nothing.
FairSpec ==
  /\ Spec
  /\ \A c \in Clients : WF_vars(Route(c))
  /\ WF_vars(Tick)
  /\ WF_vars(DeadlinePasses)

---------------------------------------------------------------------------
\* The recorder charges a spool at most once for a run, after its pieces exist,
\* and only when the recorder itself ended the run: a start that was given up or
\* a run a restart gave up costs no filament (runlog.py: "consumption is not
\* idempotent on its own, so it must ride on this transition").
ChargedByCloser ==
  \A r \in 1..Len(rows) :
    /\ rows[r].charged <= 1
    /\ rows[r].charged = 1 => rows[r].pieces /\ rows[r].by \in {"recorder", "operator"}

\* The first verdict stands: whichever of the route, the recorder and the restart
\* closes a run, neither of the others changes it (only an operator may).
VerdictStands ==
  [][\A r \in 1..Len(rows) :
       rows[r].end # "open" =>
         \/ rows'[r].end = rows[r].end /\ rows'[r].by = rows[r].by
         \/ rows'[r].by = "operator"]_vars

OwnedByRequest(r) ==
  \E c \in Clients : /\ request[c].run = r
                     /\ request[c].pc \in {"sending", "verifying", "closing"}

\* Every open row of a start that was never confirmed has somebody who will close
\* it: the request that opened it, or after a restart the reconciliation.  The code
\* has two exceptions, both a ledger that raises at the one call that counts: the
\* closing by the request (_close_run_quietly: kept by nobody), and open_runs() at
\* the start of the recorder (deadline "none": such a row stays open).
NoRowForgotten ==
  \A r \in OpenRuns :
    /\ rows[r].keeper = "route" => OwnedByRequest(r)
    /\ rows[r].keeper = "restart" /\ deadline # "none" => r \in pending

LiveRunClosed(r) ==
  /\ Open(r) /\ rows'[r].by = "restart" /\ deadline # "passed"
  /\ Busy /\ machine.print = downPrint

\* A restart closes the run of a print that is still going on only if the printer
\* was silent past the deadline, or if nothing it reported since names a
\* gcode_state.  A report that says what the printer is doing never costs a live run.
LiveRunKept == [][\A r \in pending : LiveRunClosed(r) => rec.seen = "NONE"]_vars

LeftByRestart == {r \in OpenRuns : rows[r].keeper = "restart"}

\* Every run that the recorder noted when it started is resolved, closed or known
\* to be live, whatever the printer does.
RestartResolves == []<>(LeftByRestart = {} \/ deadline = "none")

===========================================================================
