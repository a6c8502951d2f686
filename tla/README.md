# A verification of the print-farm server

The repository is a print-farm server: a FastAPI application (`src/server/`) that
talks to Bambu printers over MQTT and FTPS, watches one of them with a camera and
a failure detector (`src/detect.py`, `src/server/detection.py`), slices and
queues jobs, starts them on request, and records every print in a SQLite ledger.
A React frontend polls the API. Everything with behaviour worth checking lives in
the server process: a handful of daemon threads (the detection coordinator, the
run recorder, the slice worker, one MQTT client per printer), the request threads
of FastAPI, and one detector subprocess.

This directory holds TLA+ modules translated from that code, TLC configurations
that check them on small instances, and TLAPS proofs of the properties that matter
most. `PROJECT.json` lists for every definition the lines it translates ("map"),
for every property a plausible bug that breaks it ("mutants"; the operators named
in it are marked *Mutant* in the modules and are used by no specification), and
the hazards of the code with the properties that cover them.

## 1. Inventory

| component | state | operations | what is hard | correct means |
|---|---|---|---|---|
| **Auto-stop controller** `server/detection.py` `AutoStopController` | state, matched conditions, two timers, send count, `stopped_by_monitor` | `configure`, `arm`, `disarm`, `update` each tick | re-arming in the middle of a stop, a stop without acknowledgement, re-configuration under the countdown | debounced for the whole sustain time; at most two sends; the latch is set exactly when a stop was sent |
| **Detection coordinator, supervisor, detector** `server/detection.py`, `detect.py` | target, process handle, back-off, status file, controllers by serial | `tick`, `reconcile`, terminate/spawn, detector frames, API arm/disarm/snapshot | a detector that dies or lingers, a stale status file, the camera moving to another printer inside a tick | no stop from a stale status, none after the camera moved, a detector that exits comes back, no countdown hangs |
| **Start route and run recorder** `server/main.py`, `server/runlog.py`, `server/ledger.py` | rows of `print_runs`, the recorder's previous state, pending runs | `start_queue_job`, `RunRecorder.tick`, reconciliation | two writers of one row whose only evidence is a delayed, partial report; lost commands; crashes | a verdict stands, filament is charged once, what a restart finds open is resolved, and a live run is kept |
| **Print queue** `server/queue.py` | jobs by serial, `queues.json` | add, remove, reorder, load | two threads save at once; a save fails; the server dies | acknowledged is stored; an older snapshot never lands last |
| **Slice coordinator** `server/slicejobs.py` | job records, order, pending list, worker handle | start, stop, submit, cancel, the worker, eviction | a join that times out; cancelling while the worker takes; same output name | one worker, final verdicts, agreeing indexes, a bounded history, entries that have their file |
| **Printer registry** `server/registry.py`, `server/store.py` | printer configurations, services, `printers.json` | add, update, remove, reconnect, summaries | mutable configurations saved outside the lock; services stopped and started outside it | one capture printer, the file converges, one live service per printer |
| **Printer service and link** `server/printer.py`, `bambu_link.py` | snapshot, connection state, connect thread, paho client | start, stop, report merge, commands | `stop()` during the first `connect()`; partial reports | a stopped service stays stopped; a snapshot is the fold of its reports |
| **Ledger** `server/ledger.py` | parts, recipes, spools, runs, pieces, events, badges; the connection, its lock and open transactions; the schema version | CRUD, `set_loaded_spool`, `set_default_recipe`, `transaction()`, migration, quarantine | requests of several methods that interleave between transactions; an inner block that raises; a refused COMMIT; a crash inside a migration | one spool in use per printer, one default recipe per part, whole plates; all or nothing; a file that is unusable is set aside and the server boots |
| **Layer capture** `capture.py`, `server/runs.py` | the current run, a thread per captured layer, directories of frames | state and layer callbacks, a capture per layer, the newest frame | captures that outlive their run; lost and partial reports | a frame is in the directory of the print it shows, a directory agrees with its log whichever writes fail, the served frame never goes back |
| **Sessions** `server/auth.py` | tokens, attempt log | login, logout, check | limits and expiry | – |
| **Slicer profiles** `server/slicer.py` | vendor files, an index by name | load, flatten | inheritance and templates at any depth, missing files, cycles | the machine's own gcode wins, and nothing is dropped silently |
| **SD card browser, presets, part files** | files | list, upload, delete | outcomes of cut-off transfers | an upload either is complete or reports failure |
| **Robot link** `robot_link.py` | last status | poll | a late answer | – |
| **Training scripts, frontend, desktop shell** | – | – | offline, or no state the server relies on | – |

How they interact. The *coordinator* reads the registry's capture printer, the
detector's status file and the printer service's `gcode_state`, and publishes a
stop through the service. The *start route* takes the head of the queue, opens a
row in the ledger, publishes through the service, polls the service's snapshot
and then removes the job or closes the row. The *recorder* polls every snapshot
and writes the same rows. The *slice worker* uploads to the printer's card and
appends to the queue. All of them, and the routes for parts, recipes, spools and
pieces, share the *ledger's* one connection under its lock. The *layer capture* is
a process of its own with its own link to the printer; the server only reads its
directories. Requests change the registry, the queue and the controllers
at any moment. None of these holds a lock across two components.

## 2. Modules

| module | models | extends / composes |
|---|---|---|
| `AutoStopController` | the controller as operators on a record (`Armed`, `Disarmed`, `Updated`, `Aged`) | – |
| `AutoStop` | one controller under every input | `AutoStopController` |
| `DetectionLoop` | tick, supervisor, detector, status file, a controller per printer | composes `AutoStopController` with the loop |
| `PrintRun` | one printer, its queue, the start route, the recorder, the ledger's rows, restarts | – |
| `PrintQueue` | the queues and `queues.json` with both locks | refines `DurableLog` |
| `DurableLog` | abstract: a store whose disk holds a growing prefix of its changes | – |
| `SliceJobs` | the slice coordinator, its worker, upload and queue entry | – |
| `Registry` | the printer registry, the services it starts and stops with their connect threads, `printers.json` | – |
| `LedgerRows` | the ledger's data, each statement as an operator on them, and what sound data are | – |
| `Ledger` | the connection, its lock, `transaction()`, the methods and routes as lists of steps, boot, migration, quarantine, failures and crashes | extends `LedgerRows`, refines `AtomicLedger` |
| `AtomicLedger` | abstract: data changed by one whole method or one schema version at a time | extends `LedgerRows` |
| `LayerCapture` | the printer's reports, the link's callbacks, the recorder, the capture threads, the directories | – |
| `Profiles` | `ProfileIndex.load()`, `flatten_profile()`, and a reference definition of what they should return | – |
| `AutoStop_proofs`, `DetectionLoop_proofs` | theorems, each with the lemmas on the controller's operators it needs | the module named |
| `PrintRun_proofs`, `PrintQueue_proofs`, `SliceJobs_proofs`, `Registry_proofs`, `LayerCapture_proofs` | theorems | the module named |
| `Ledger_proofs` | lemmas on the shape of the ledger's calls, on its statements, on its transactions and on the boot, and the theorems | `Ledger` |
| `MC*` | what a run needs beyond the module | the module named |

### State and actions against the code

**AutoStopController / AutoStop.** A record with the fields of the class. The
code keeps points in time and compares them with `time.time()`; the model keeps
ages in units, capped at the bound they are compared with (`Aged` is the clock).
`Updated` is `update()` whole, in its own order: what the detections qualify for,
then the transition of the current state, its sends and its give-up.

**DetectionLoop.** The tick is split where another thread can interleave: `reconcile()`
(`ReconcileStop`, `Reaped`, `ReconcileStart`, `ReconcileSame`), the read of the capture
serial outside the lock (`ReadCapture`), the deletion of other controllers under it
(`DropControllers`), and the read of the status with the update (`UpdateController`).
The detector's `Frame`, `CameraLost` and `Crash` may come between any of them, as may
the registry's `SwitchCapture` and `SetDetectEnabled` and the API's requests. A request
asks the registry first (`Admit`) and takes the coordinator's lock later (`Arm`,
`Disarm`, `Snapshot`), when the camera may be elsewhere. Popen may raise
(`SpawnRaises`): the tick is over, and for a new target the supervisor is left with a
target and no process, to which no later tick with the same target does anything. The
status file is the age of a status with a fault, or `Clear`: stale, unreadable, errored
and faultless statuses all reach the controller as the same empty list. A detector told
to terminate writes nothing more (it has no handler for the signal) but may linger past
the wait; its handle is let go all the same.

**PrintRun.** One action for every statement of the route and of the tick at
which another thread may come in; each SQL statement is atomic (the ledger takes
its lock per statement). `TakeCommand`, `StartAtScreen`, `MachineMoves` are the
machine; `Report` is `_on_message()`, and `Reconnect` a new service, whose
snapshot is empty. A request keeps the service object it looked up; since
a replaced service only stops being updated, blanking `reported` is what a
request or the recorder can tell of it. `Restart` loses memory, keeps the disk
and the commands already published, and notes the open runs unless `open_runs()`
raises, after which nothing is pending. Abstractions: `RUNNING` stands for `PREPARE`
and `SLICING`, `FINISH` for `FAILED`; layers, HMS events and badges feed nothing
back and are left out.

**PrintQueue.** `_jobs`, the file, the persist lock and each thread's call:
change under the lock, snapshot under both locks, save with or without an error.
A new order may name a job twice, which `reorder()` does not refuse; `remove()`
takes out every entry with the id.
The ghost `log` holds all values of `_jobs`, `stored` says which one is on disk.

**SliceJobs.** A job's state, the pending list, the order, the handle and every
worker thread ever made. `Slice`, `Upload`, `AddToQueue` are the steps of `_do()`
with each of their outcomes, `Finish` and `Evict` are two critical sections of
`_finish()`. `Joined` may find the worker still alive. The card remembers whose
upload each file is; `replaced` notes which jobs' files were written over.

**Registry.** Configurations are objects (`cfg`, referred to by index), because a
save copies references under the lock and serializes the objects without it: one
object per step, as each is by then. A request goes through the code's phases:
the change under the lock (`Add`, `RemovePrinter`, `Update`, `Reconnect`), `StopOld`
and `StartNew` outside it, then `TakeConfigs`, `Serialize` and `Replace`. A
service is a connect thread (`CheckStop`, `ConnectFails`, `SocketUp`) and what
`stop()` found it at. Of the fields only `capture` is kept, since it alone relates
two printers; whether an edit touches host or access code is an input.

**Ledger.** A call is the list of steps its thread takes (`Steps`): queries whose
answer may end the request, `begin` and `end` of `transaction()` blocks, and
statements. A thread may be interrupted between any two steps; inside a block it
holds the lock (`RLock`, so that the same thread may nest). `work` is what the
connection sees, `saves` the stack SQLite keeps for BEGIN and the savepoints,
`blocks` the Python frames of `transaction()`; the two differ exactly when a
COMMIT was refused. `Enter`, `Leave`, `Unwind` are entering a block, leaving it
normally and by an exception; `StatementFails`, `CommitRefused` and `Crash` count
as faults. The lists are those of the *routes*: `add_part_recipe`, for instance, is
a query and two transactions, because the route makes them separately. Only
columns that more than one method writes are kept (spool status, printer and
archived flag; revision; default and owner of a recipe; `end_state`; piece status;
event uuids; badges; tables and version). Where several values mean the same to
the code one stands for them (`spent` for `retired`). The boot is `Open`, `Boot`
(one call per missing version, then the badges) and `Quarantine`; the phase
`guarded` is the try block whose exceptions lead to the quarantine. A file is sound,
cannot be opened, or is malformed and opens: the answer of the integrity check is
not looked at, and any statement on such a file may raise.

**LayerCapture.** The network thread's `_on_message()` is `Report` (the merge of a
report with any of its fields, and `on_state()`), `ClearRun` (the run is closed
before the variable is cleared, a capture thread can see it in between) and
`Layer`. A capture thread settles, then takes the frame under the lock (`Grab`),
looks which run is current (`TakeRun`), writes the file (`WriteFrame`; `WriteFails`
when `imwrite()` answers False, which the code ignores) and its row (`LogRow`;
`LogFails` when the flush raises and leaves the row in the buffer). A report that
is not taken is a lost report. Ghosts: the print a frame shows, and whether it was
filed after its own run had ended.

**Profiles.** A tree of files is an input. The recursion of `_flatten()` is
`Flatten`; the reference, in contrast, looks at all ways from a profile through its
parents and templates, and says which of the definitions found on them wins.

## 3. Runs

Bounds are constants or, where they only bound the instance, named `Max...`.

| run | instance | shows |
|---|---|---|
| `auto_stop` | units of 2.5 s: sustain 4, verify 2; two classes, two confidences | `TwoSendsPerArming`, `LatchMeansSent`, `FireOnlyAfterSustain` |
| `detection_loop` | units of 5 s: sustain 2, verify 1, freshness 1, terminate time-out 1; one printer, with the camera or without, Popen raises twice; 131,968 states; fair | `NoStaleStop` when a status goes stale before the countdown ends, `SwitchForgets`, and that detectors that exit are respawned (`DetectorRespawned`), countdowns end and stops resolve |
| `print_run` | two requests, one job, three rows, one print, one command in flight, pauses, partial reports; 332,372 states, clients symmetric | `VerdictStands`, `ChargedByCloser`, `NoRowForgotten` under every interleaving of two requests and the recorder |
| `print_restart` | one request, two rows, one fault (a restart, with `open_runs()` failing or not, a ledger error or a correction) at any point, partial reports; 539,448 states; fair | `NoRowForgotten` with faults, that only silence or a report without a gcode_state costs a live run (`LiveRunKept`), and that every run noted at the restart is resolved (`RestartResolves`) |
| `persist` | two printers, two jobs, three threads, four changes between restarts, orders of up to two entries; 844,405 states | `AckedIsStored`, `FileCatchesUp`, and the refinement `IsDurable` |
| `slice_jobs` | three jobs, two with one output name, history of one, two worker threads; 21,940 states; fair | `OneWorker`, `IndexesAgree`, `HistoryBounded`, `EntryHasFile`, `WorkInHand`, `LifeOfAJob`, `TakenJobsFinish`, `WaitingJobsMove` |
| `registry` | two serials, two requests, three services and two configuration objects between restarts, any number of restarts; serials and threads symmetric; 2,652,596 states | `FileConverges` although saves read objects that change, `ServicesMatch`, `ServicesSettle`, `StoppedStaysDown` |
| `ledger` | the booting thread and another, two of every row, plates of two copies, two statements per version, one fault; six initial files (none, twice; version 2 with parts, three times: sound, one that cannot be opened, one that opens and is malformed; and one left half-migrated), each with a group of calls that share rows; 745,460 states, rows symmetric | `CommittedSound`, `ServesMigrated`, `OnlyMalformedStopsBoot`, `RaiseRestores`, and the refinement `IsAtomic` |
| `layer_capture` | two prints of two layers (0 and 1), two capture threads, two writes that fail; 427,145 states, threads symmetric; a network thread that `close()` ended is a deadlock, hence `CHECK_DEADLOCK FALSE` | `MisfiledExplained`, `DirectoryConsistent`, `ServedForward` |
| `profiles` | three files: the first with a parent and up to two templates, the others with a parent and one, the third possibly unreadable or with a name already taken; all 714,240 cases | `ResolvesOrRaises`, `RealGcodeWins` |

No run checks a `TypeOK`: each is a theorem (`Typing` in section 4's modules), and an
error in a type shows in the properties above.

Why these bounds are enough to be interesting. To a printer of the loop it makes no
difference whether the camera is on another one or on none, so one printer is enough for
every order of switch, tick and late request; `SwitchForgets` and `NoStaleStop` are
proved for any set of printers. Popen that raises twice may raise for a new target and
again for a respawn. Two sends and the give-up need no more than sustain and verify of
different lengths. The races in `PrintRun` are between two writers of one row, and three
rows let both requests and the recorder open one each. Three threads are one to change,
one that waits for the persist lock and one inside the save. With two workers a wrong
`stop()` could start a second one; with three jobs and a history of one, eviction
happens while another job is live. In `registry` three services allow two requests to
rebuild the same printer at once, so that one stops what the other has yet to start, and
two configurations allow a file with two capture printers, which a restart then finds;
the fields of one object may be torn as well, which converges for the same reason. In
`ledger` two threads suffice for every race, because a call's blocks exclude one another
and what two threads race for is the gap between a query and a block or between two
blocks of one call; the groups of calls touch disjoint rows, so that calls of different
groups commute; one fault may hit any statement, COMMIT, boot or step, and the boot
itself calls three migrations; the pages of a malformed file may be met by any number of
statements. The proof of `CommittedSound` needs none of these bounds. In `layer_capture`
two prints and two threads are what it takes to file a frame of one print under another,
and two layers to overtake; two failing writes are one of a frame and one of its row, or
two rows in the buffer. A tree of three profiles has every shape the recursion
distinguishes: a diamond, a cycle of each length, a template of a parent, a parent of a
template.

### What the code's own words claim and the code does not do

Each of these runs checks one property, stated by a comment or a document of the
repository, and TLC finds a behaviour against it.

* `open_transaction`: a caught error never "leaves an open write transaction
  sitting on the shared connection". The COMMIT of `transaction()` is in the
  `else` branch; when it raises, nothing rolls back, the depth is counted down,
  and every later BEGIN fails (`EnterRefused`) until the server restarts. SQLite
  refuses a COMMIT when another process reads the file and WAL is not in use,
  which `_connect()` foresees. What is committed stays sound all the same:
  `CommittedSound` holds with these behaviours.
* `stale_status`: "a stale detector must never cause a stop". With the default
  interval a status counts as fresh for 12.5 s and the countdown lasts 10 s, so
  one faulty status of a detector that then dies is enough. (`detection_loop`
  shows the property for an interval whose window is shorter than the countdown.)

More such claims do not hold of the models. No run states them; where a property
comes close to one, its exception is written into it.

* `detection.py:155`, one detector at a time, and `slicejobs.py:129`, which names
  the supervisor as an example of never letting go of a process one only asked to
  stop: `_stop_proc()` drops the handle of a detector that outlives the wait
  (`detection.py:216`), and the next one is started beside it. The successor then
  finds the camera busy, exits, and is respawned (`DetectorRespawned`).
* The same sentence, at least one detector: when Popen raises for a new target
  (`detection.py:221-223`), the target is set without a process, and nothing starts
  one until the target changes. `DetectorRespawned` is about processes that exited.
* `runlog.py:57-59`, a restart does not close a running print: a first report without
  `gcode_state` passes for an idle printer (`runlog.py:286-291`), and most reports are
  partial (`bambu_link.py:13`). `LiveRunKept` says that only this, or silence past the
  deadline, costs a live run.
* `runlog.py:268-277`, every run a restart left open is resolved: when `open_runs()`
  raises as the recorder starts, nothing is pending (`runlog.py:264`), and unless
  another print adopts the row it stays open. `NoRowForgotten` and `RestartResolves`
  leave out exactly this case (deadline `"none"`), and `NoRowForgotten` the request
  whose own closing of the row fails (kept by `"nobody"`).
* `ledger.py:426`, a corrupt file never stops the server: `PRAGMA integrity_check`
  answers with a list of errors and does not raise, and nobody reads the answer
  (`ledger.py:443`). A malformed file at the newest version gets past the guard, and
  `_seed_badges()` raises out of `Ledger()`. `OnlyMalformedStopsBoot` says that this is
  the only way in which what a file holds stops the boot.
* `main.py:647`: a print begun at the printer's screen passes for the one the route
  asked for, so that a command the printer never got does cost its job
  (`main.py:717`).
* A start pressed within a tick of the previous print's end gets that print's verdict
  (`ledger.py:619`).
* A failed save of the queue makes a slice job failed with its entry in the queue
  (`queue.py:134`).
* A camera that moves away and back between two ticks goes unnoticed, and a countdown
  goes on (`detection.py:288-300` looks only at where it is now).

Three properties name the outcomes the code does not exclude, and forbid all others:
`MisfiledExplained` (a late frame, an end that was never reported), `EntryHasFile` (a
later upload of the same name) and `StoppedStaysDown` (a service that was told to
stop while inside `connect()`).

### Fairness

Runs without liveness use `Spec`. Where liveness is checked, weak fairness is given to
threads the server starts and never waits for ever in: the coordinator's loop
(`WF(Tick)`), the recorder's loop, a request's next step (its verification has a
deadline), the slice worker (slices and uploads have time-outs). The coordinator
sleeps `tick_s` before each tick, so time passes again and again while it is
idle, but not continuously: hence `SF(Elapse)`. Popen raises no more than
`MaxSpawnFailures` times; were it to raise for ever, no detector would come back. The recorder's deadline passes
(`WF(DeadlinePasses)`). Users, printers, links, cameras and detector processes
owe nothing, so no liveness property assumes that a printer reacts or a report
arrives.

## 4. Proofs

`tlapm` checks every theorem for all values of the constants.

* **`AutoStop_proofs`**, under `TimingAssumption` (sustain and verify are positive
  numbers) and `DetectionAssumption` (about classes and
  confidences). `IInv` is `TypeOK` and `Bookkeeping`: how many stops were sent in
  each state, when the latch is set, and that the ghost count of faulting time
  covers the fault timer. `TwoSendsPerArming` and `LatchMeansSent` are not
  inductive alone, since a re-arm and a re-send start from states they do not
  describe; `Bookkeeping` names these. `Debounce` (`FireOnlyAfterSustain`) is an
  action property that follows from it.
* **`PrintQueue_proofs`**, under `QueueAssumption`. `IInv` says who holds the
  persist lock (`LockHeld`: exactly the thread that is saving), that memory is the
  last and the file the stored element of the log (`Contents`), and that whenever
  the file lags, some call is still on its way to save what it misses or the last
  save failed (`LagExplained`). From it come `Durability`, `Convergence` and
  `Refinement` (`Spec => IsDurable`): every step maps to a step of `DurableLog`,
  with `durable <- stored`, or to a stutter. The lock is what makes `Save` a
  `Sync` that moves forward: a snapshot taken before another save cannot be
  written after it.
* **`DetectionLoop_proofs`**, under `TimingAssumption` and `LoopAssumption`. `IInv` is
  types, `Unconfirmed`: a countdown that no new frame has confirmed is no older than
  the status that started it, and `Dropped`: a printer that some tick saw without the
  camera, and that nobody armed since, has no controller that could begin a stop, but
  for the one the current tick is about to delete. `Dropped` makes `CameraMovedNoStop`
  (`SwitchForgets`) provable although the camera may come back before the controllers
  are dropped, and requests admitted earlier may create a controller after. What makes
  it inductive is that a controller made by a request that does not arm is idle, and
  that the update follows the deletion in the same tick, with the capture printer
  read before it. `Unconfirmed` makes `StaleNeverStops` provable (`NoStaleStop`, under
  `StaleAfter < Sustain`): a countdown as long as `Sustain` would need a status that
  old, and by then it is taken for stale. The hypothesis is needed: the default
  configuration violates it, and the run `stale_status` shows the stop.
* **`PrintRun_proofs`**, under `RunAssumption` (of its constants only that there are
  finitely many jobs and that `NoJob` is none of them matters). `IInv` has, besides
  types and `NoRowForgotten` itself, `Charging`: an open row was closed by nobody and
  has cost nothing, and from the `close_run()` that told the recorder it was the one
  to close the row until the charge, the row stays closed, by the recorder or
  corrected by an operator, uncharged, with its pieces from some step on. The key
  lemma is that every step of the route, the recorder, the restart and the
  operators except the charge is `Orderly`: it adds open rows, closes open ones, and
  keeps what the others cost. From it come `ChargedOnce` (`ChargedByCloser`),
  `FirstVerdict` (`VerdictStands`) and `SomebodyCloses` (`NoRowForgotten`), for any
  number of requests, rows, faults and restarts. `PrintSurvivesRestart`
  (`LiveRunKept`) holds for partial reports in any order; it needs `TellsOfSurvivor`:
  while the print of the last restart goes on, whatever was reported since says so,
  or names no gcode_state.
* **`Ledger_proofs`**, under
  `RowsAssumption` and `LedgerAssumption` (constants are distinct, and the initial
  file satisfies `SpoolsSound`, `DefaultsSound` and `PlateSound`) and, for the boot
  and the refinement, `StampAssumption`: the initial file has at least the tables of
  the version it is stamped with, and none beyond those of the newest version. Any
  build leaves such a file, because a version is stamped after its tables were
  created: in one transaction since `ledger.py:500`, and one by one before it
  (`ledger.py:385`), when a boot could die in between.
  The first part shows that every call is well formed, for any number of
  copies and of statements per version: there is a depth for every step, so that
  blocks balance, a caught block's `skip` leads right behind its end, a load comes
  right after its printer was cleared, a default is set after its owner was asked
  for and the other defaults were cleared, and a plate's pieces come in order, to
  the last. The second shows what each statement does to the data. The last has
  two invariants. `Shape` ties the three stacks together: the lock's owner has as
  many blocks open as its step's depth, the other threads none, `saves` holds what
  each block found, and the outermost block found what is committed. From it come
  `Typing` and `Restores`. `IInv` adds that the data are ready for the statement
  about to be executed (`Ready`: the printer is empty before a load, the plate is
  partial up to the copy before a piece), that whatever a rollback or a commit
  may bring back is sound (`DataSound`), and that a thread which was told the
  owner of a recipe is still right (`OwnerChecked`): the query comes before the
  transaction, and it takes the argument that no statement changes the owner of a
  recipe that exists, and no rollback undoes it, because the query itself ran
  outside of any block. `Committed` (`CommittedSound`) follows.
  The refinement `Refines` (`IsAtomic`) needs more: not that what a COMMIT writes is
  sound, but that it is what one method makes of what was committed before. `TInv`
  says it. The steps of a call are cut into *windows*, each a transaction with the
  query it depends on, of seven shapes (one statement, a query and one, two
  statements, a query and two, an outer block around an inner one that may be
  caught, the pieces of a plate, a schema version); `Progress` says that the thread
  with the lock is inside such a window, with `work` what the statements executed
  so far make of `disk`; the inner block that was caught has been undone. `Asked`
  says that the answer the window begins with still holds although other threads
  ran since: no statement takes a row away, and only what is committed, or left by
  a refused COMMIT, can have been read. So a window that ends has made exactly one
  step of `AtomicLedger`. `BInv` adds the boot: the version that is applied is the
  one after the file's, a phase is only reached with what the phase before it
  leaves, and past the guard only a fault raises, since a file that was just
  created has none of the tables about to be created (`FreshCreates`), or, in the
  last phase, a malformed file. `Serves` (`ServesMigrated`) and `Boots`
  (`OnlyMalformedStopsBoot`) follow.
* **`Registry_proofs`**, under `RegistryAssumption`. `IInv` has five parts besides types.
  `Dicts`: the objects' serials are distinct, the two dicts have the same serials,
  no service serves two, one object has capture, and each service has its object's
  value. `Calls`: a request about to stop a service holds one that serves nobody
  any more, and the lock of the save has the thread that is saving. `Services`: a
  service in the dict was told to stop by nobody and is started, now or by the
  request that built it; any other has been told to stop, or some request is about
  to. `Saves` and `Current`: if no request will save after the one that is saving,
  what that one has read of the objects is what they are now, and if none is
  saving, the file is what is in memory or the last save failed. `FileConverges` is
  not inductive without `Current`: a save reads objects which other requests edit
  meanwhile, and what saves the file is that every such request saves after its
  edit. `CaptureAgrees` (`ServicesMatch`), `ServicesWanted` (`ServicesSettle`),
  `StoppedForGood` (`StoppedStaysDown`) and `Converges` (`FileConverges`) follow, for
  any number of printers, requests and restarts.
* **`SliceJobs_proofs`**, under `SliceAssumption`. `IInv` says that a thread which
  is alive is the one in the handle, that the worker's job is in the state its
  place in the code implies, and types. `SingleWorker` and `Life` follow. On these
  rest three more facts, each inductive with them (`Records`). `Indexed`: the records,
  the order and the pending list agree (`Agreement`); it rests on what `Without` does to
  a list, which is proved by counting places instead of by induction. `Bounded`: an
  eviction leaves as few as the cap, since fewer than that many come after the
  oldest left, and only a verdict adds one, for as long as its worker is on the way
  to evict (`Bound`). `Delivered`: a job has no entry until its worker adds it, by
  which time the file is on the card (`Delivery`); that needs the single worker,
  without which another could have taken the same job. `NobodyAbandons`
  (`WorkInHand`) is the safety half of the two liveness properties: `TakenJobsFinish`
  could only fail by a job in progress that no worker has in hand, or by a worker
  that does not run; `WaitingJobsMove` by there being no worker at all.
* **`LayerCapture_proofs`**, under `CaptureAssumption` (at least one layer; the value
  for a free lock is no thread). `MisfiledExplained` is not inductive alone: a frame is
  filed under the run that is current then, and that it is not a *later* run's frame
  follows from facts about every step before. `IInv` names them. `OneOpen`: the current
  run is the last directory, and no other is open. `Threads`: the frame a thread holds
  shows the print of the run that asked for it or a later one, and it is filed in no
  directory older than the newest written. `Prints`: only a late frame shows an earlier
  print than that of its directory. `Ends`: a print whose run is open was not reported
  to have ended; so a frame of a later print in it means that the end was never
  reported, which is the third case of `MisfiledExplained`. From the lock
  (`Locked`: the threads past their settling time are at most one, its holder) and
  `Logged` (a row names a layer whose file was made or could not be, and what an open
  directory has no row for, in the file or in the buffer, is about to be logged) comes
  `Consistent` (`DirectoryConsistent`), whichever writes fail. `Forward` (`ServedForward`) is an action property:
  a thread holds the lock from before it looks up the run until its row is written,
  so that no other one writes a newer directory in between. The mutant
  `GrabUnlocked` breaks it.

Only model-checked: every liveness property (fairness is out of the prover's
reach), and `Profiles`, whose `_flatten()` is recursive: what it returns for every
tree of files is an induction over data.

## 5. What is not modelled, and why

The detector's network, the slicer itself, MQTT and FTP below the calls, HTTP
argument checking, formatting and listing: no state to check. In `DetectionLoop`,
the removal of a printer, an edit of the watched printer that keeps its serial, the
registry or `terminate()` raising, and `stop()`. In `PrintRun`, the difference
between `FAILED` and `STOPPED_BY_MONITOR`, layers, HMS and badges. In `Ledger`,
piece badges, columns with a single writer, `close()` and the listing queries;
`PrintRun` has the charge of a spool. `close_with_event` composes two methods in one
transaction, which no route does: it is there because `transaction()` has a branch
for a nested block (`ledger.py:552`). In `SliceJobs`, the routes that upload a file to
the card themselves (`main.py:516-570`): they may overwrite a file of the same name as
a later slice job may. In `LayerCapture`, telemetry, the HMS
log and the mock driver; an exception on the network thread (`Run()`, `log_report()`,
`close()`) ends that thread, which is the behaviour of no further report. In `Profiles`, the command line built from a profile. The
tables of presets, the sessions (a set of tokens nothing else reads), the robot link
and the part files keep no state another component relies on. In `Registry`,
`update_detection()` (it saves like the others) and what paho does once its loop
runs. The frontend
polls and keeps no state the server relies on; the training scripts are offline;
the desktop shell starts a process and a window.

## 6. Plan

Done, in this order: the controller, the loop around it, the runs, the queue, the
slice coordinator, the registry with its services, the ledger with its
abstract specification, the layer capture, the profiles; proofs for the
controller, the queue, the slice coordinator, the ledger, the loop, the runs, the
registry and the layer capture.

What would come next:

1. The latch and the recorder together: which run is recorded as stopped by the
   monitor.
2. `PrintRun` over `Ledger`: the start route and the recorder with the ledger's
   transactions in place of atomic statements.
