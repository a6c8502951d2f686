--------------------------- MODULE LayerCapture ---------------------------
(***************************************************************************)
(* capture.py: a process of its own that writes one frame per layer into   *)
(* one directory per print, driven by bambu_link.py.  The network thread   *)
(* merges partial reports, opens and closes runs without a lock, and       *)
(* starts a thread per layer; such a thread settles, takes a frame under   *)
(* the lock and files it under the run it finds then.  server/runs.py      *)
(* reads the directories.  Reports may be lost, and a write to the disk    *)
(* may fail; the webcam is external.  Run(), log_report() or close() that  *)
(* raises on the network thread ends that thread: as no fairness is        *)
(* assumed, a network thread that makes no further step is among the       *)
(* behaviours of Spec.                                                     *)
(***************************************************************************)
EXTENDS Integers, Sequences, FiniteSetsExt

CONSTANTS
  Captures,      \* bound: names of _capture() threads
  NoCapture,
  MaxPrints,     \* bound
  MaxLayers,     \* layers of a print
  MaxFailures    \* bound on the writes of frames and rows that fail

ASSUME CaptureAssumption ==
  NoCapture \notin Captures /\ MaxPrints \in Nat /\ MaxLayers \in Nat \ {0} /\ MaxFailures \in Nat

VARIABLES
  printer,       \* [gcode, layer] of the machine, and the number of its print
  state,         \* BambuLink.state: the merged report; unknown fields are "none", -1
  lastLayer,     \* BambuLink._last_layer, -1 for None
  lastState,     \* Recorder._last_gcode_state
  run,           \* Recorder.run: the number of a directory, 0 for None
  closing,       \* on_state() has closed the files of run and not yet cleared it
  layerDue,      \* _on_message() has yet to call on_layer() for this report
  runs,          \* the directories, in order of creation
  captures,      \* the _capture() threads
  lock,          \* Recorder.lock
  written,       \* the directory with the newest file time stamp, 0 if there is none
  failures,      \* the writes that failed
  ended          \* ghost: prints whose end was reported

link == <<state, lastLayer, layerDue>>
recorder == <<lastState, run, closing>>
dirs == <<runs, written>>
threads == <<captures, lock>>
vars == <<printer, link, recorder, dirs, threads, failures, ended>>

TerminalStates == {"FINISH", "FAILED", "IDLE"}
PrintStates == {"RUNNING", "PAUSE"}

\* A frame in a directory.  Ghosts: the print it shows, and whether the run that
\* it was taken for had ended when it was filed.
Frame == [layer : 0..MaxLayers, print : 0..MaxPrints, late : BOOLEAN]

\* A run directory: unflushed are the rows that the buffer of frames.csv keeps after a
\* flush that failed.  Ghost: unwritten, the layers for which imwrite() left no file.
Directory == [print : 0..MaxPrints, frames : SUBSET Frame, rows : SUBSET (0..MaxLayers),
              unflushed : SUBSET (0..MaxLayers), unwritten : SUBSET (0..MaxLayers),
              open : BOOLEAN]
NewRun(p) == [print |-> p, frames |-> {}, rows |-> {}, unflushed |-> {}, unwritten |-> {},
              open |-> TRUE]
NoThread == [pc |-> "none", layer |-> 0, since |-> 0, shows |-> 0, into |-> 0]
Thread == [pc : {"none", "settling", "grabbed", "filing", "logging"}, layer : 0..MaxLayers,
           since : Nat, shows : 0..MaxPrints, into : Nat]

TypeOK ==
  /\ printer \in [gcode : TerminalStates \cup PrintStates, layer : 0..MaxLayers,
                  print : 0..MaxPrints]
  /\ state \in [gcode : TerminalStates \cup PrintStates \cup {"none"},
                layer : (0..MaxLayers) \cup {-1}]
  /\ lastLayer \in (0..MaxLayers) \cup {-1}
  /\ lastState \in TerminalStates \cup PrintStates \cup {"none"}
  /\ closing \in BOOLEAN /\ layerDue \in BOOLEAN
  /\ captures \in [Captures -> Thread] /\ ended \subseteq 0..MaxPrints
  /\ runs \in Seq(Directory)
  /\ run \in 0..Len(runs) /\ written \in 0..Len(runs)
  /\ lock \in Captures \cup {NoCapture} /\ failures \in 0..MaxFailures

Init ==
  /\ printer = [gcode |-> "IDLE", layer |-> 0, print |-> 0]
  /\ state = [gcode |-> "none", layer |-> -1] /\ lastLayer = -1
  /\ lastState = "none" /\ run = 0 /\ closing = FALSE /\ layerDue = FALSE
  /\ runs = <<>>
  /\ captures = [c \in Captures |-> NoThread]
  /\ lock = NoCapture
  /\ written = 0 /\ failures = 0 /\ ended = {}

---------------------------------------------------------------------------
(* The machine.                                                            *)

Printing == printer.gcode \in PrintStates

StartPrint ==
  /\ ~Printing /\ printer.print < MaxPrints
  /\ printer' = [gcode |-> "RUNNING", layer |-> 0, print |-> printer.print + 1]
  /\ UNCHANGED <<link, recorder, dirs, threads, failures, ended>>

NextLayer ==
  /\ printer.gcode = "RUNNING" /\ printer.layer < MaxLayers
  /\ printer' = [printer EXCEPT !.layer = @ + 1]
  /\ UNCHANGED <<link, recorder, dirs, threads, failures, ended>>

ChangeState ==
  /\ \/ printer.gcode = "RUNNING" /\ printer' = [printer EXCEPT !.gcode = "PAUSE"]
     \/ printer.gcode = "PAUSE" /\ printer' = [printer EXCEPT !.gcode = "RUNNING"]
     \/ Printing /\ \E g \in {"FINISH", "FAILED"} : printer' = [printer EXCEPT !.gcode = g]
  /\ UNCHANGED <<link, recorder, dirs, threads, failures, ended>>

---------------------------------------------------------------------------
(* BambuLink._on_message(), Recorder.on_state() and on_layer(), all on the *)
(* network thread.                                                         *)

Ready == ~closing /\ ~layerDue

Flushed(d) == [d EXCEPT !.rows = @ \cup d.unflushed, !.unflushed = {}]

\* close(): it flushes frames.csv, and raises with the file closed when that fails.
CloseFiles ==
  runs' \in {[runs EXCEPT ![run] = [Flushed(runs[run]) EXCEPT !.open = FALSE]],
            [runs EXCEPT ![run].open = FALSE]}

\* Mutant: FAILED does not end a run.
StateSeenFinishOnly(gcode) ==
  /\ lastState' = gcode
  /\ IF gcode = "RUNNING" /\ run = 0 /\ gcode # lastState
       THEN /\ runs' = Append(runs, NewRun(printer.print))
            /\ run' = Len(runs')
            /\ UNCHANGED closing
     ELSE IF gcode \in {"FINISH", "IDLE"} /\ run # 0 /\ gcode # lastState
       THEN CloseFiles /\ closing' = TRUE /\ UNCHANGED run
     ELSE UNCHANGED <<runs, run, closing>>

\* on_state(): a change to RUNNING opens a run when there is none, a change to
\* FINISH, FAILED or IDLE closes the files of the one there is.
StateSeen(gcode) ==
  /\ lastState' = gcode
  /\ IF gcode = "RUNNING" /\ run = 0 /\ gcode # lastState
       THEN /\ runs' = Append(runs, NewRun(printer.print))
            /\ run' = Len(runs')
            /\ UNCHANGED closing
     ELSE IF gcode \in TerminalStates /\ run # 0 /\ gcode # lastState
       THEN CloseFiles /\ closing' = TRUE /\ UNCHANGED run
     ELSE UNCHANGED <<runs, run, closing>>

\* A report with some of the fields is merged, and on_state() called.
Report ==
  /\ Ready
  /\ \E fields \in SUBSET {"gcode", "layer"} \ {{}} :
       state' = [gcode |-> IF "gcode" \in fields THEN printer.gcode ELSE state.gcode,
                 layer |-> IF "layer" \in fields THEN printer.layer ELSE state.layer]
  /\ StateSeen(state'.gcode)
  /\ layerDue' = TRUE
  /\ ended' = IF state'.gcode = printer.gcode /\ ~Printing THEN ended \cup {printer.print}
                                                           ELSE ended
  /\ UNCHANGED <<printer, lastLayer, written, threads, failures>>

\* self.run = None, after a close() that did not raise.
ClearRun ==
  /\ closing /\ runs[run].unflushed = {}
  /\ closing' = FALSE /\ run' = 0
  /\ UNCHANGED <<printer, link, lastState, dirs, threads, failures, ended>>

\* The rest of _on_message(): on_layer() when the layer has risen, which starts a
\* thread when there is a run.
Layer ==
  /\ layerDue /\ ~closing
  /\ layerDue' = FALSE
  /\ lastLayer' = state.layer
  /\ IF state.layer > lastLayer /\ run # 0
       THEN \E c \in Captures :
              /\ captures[c].pc = "none"
              /\ captures' = [captures EXCEPT ![c] =
                   [NoThread EXCEPT !.pc = "settling", !.layer = state.layer, !.since = run]]
       ELSE UNCHANGED captures
  /\ UNCHANGED <<printer, state, recorder, dirs, lock, failures, ended>>

---------------------------------------------------------------------------
(* _capture().                                                             *)

At(c, pc) == captures[c].pc = pc
Goto(c, pc) == captures' = [captures EXCEPT ![c].pc = pc]
Done(c) == captures' = [captures EXCEPT ![c] = NoThread] /\ lock' = NoCapture

\* Mutant: bursts of two threads overlap.
GrabUnlocked(c) ==
  /\ At(c, "settling")
  /\ lock' = c
  /\ captures' = [captures EXCEPT ![c].pc = "grabbed", ![c].shows = printer.print]
  /\ UNCHANGED <<printer, link, recorder, dirs, failures, ended>>

\* The burst: what the webcam sees now.
Grab(c) ==
  /\ At(c, "settling") /\ lock = NoCapture
  /\ lock' = c
  /\ captures' = [captures EXCEPT ![c].pc = "grabbed", ![c].shows = printer.print]
  /\ UNCHANGED <<printer, link, recorder, dirs, failures, ended>>

GrabFails(c) ==
  /\ At(c, "settling") /\ lock = NoCapture
  /\ captures' = [captures EXCEPT ![c] = NoThread]
  /\ UNCHANGED <<printer, link, recorder, dirs, lock, failures, ended>>

\* run = self.run: the frame is dropped when there is none.
TakeRun(c) ==
  /\ At(c, "grabbed")
  /\ IF run = 0 THEN Done(c)
                ELSE /\ captures' = [captures EXCEPT ![c].pc = "filing", ![c].into = run]
                     /\ UNCHANGED lock
  /\ UNCHANGED <<printer, link, recorder, dirs, failures, ended>>

Fails == failures < MaxFailures /\ failures' = failures + 1

\* cv2.imwrite(): a file of that name is overwritten.  A write that is cut short, after
\* which it answers False, leaves a file of that name too.
WriteFrame(c) ==
  /\ At(c, "filing")
  /\ LET t == captures[c]
         old == {f \in runs[t.into].frames : f.layer = t.layer}
         new == [layer |-> t.layer, print |-> t.shows,
                 late |-> t.since # t.into \/ ~runs[t.into].open]
     IN /\ runs' = [runs EXCEPT ![t.into].frames = (@ \ old) \cup {new}]
        /\ written' = t.into
  /\ Goto(c, "logging")
  /\ UNCHANGED <<printer, link, recorder, lock, failures, ended>>

\* cv2.imwrite() cannot open the file: it answers False, which nobody looks at.
WriteFails(c) ==
  /\ At(c, "filing") /\ Fails
  /\ runs' = [runs EXCEPT ![captures[c].into].unwritten = @ \cup {captures[c].layer}]
  /\ Goto(c, "logging")
  /\ UNCHANGED <<printer, link, recorder, written, lock, ended>>

WithRow(d, layer) == Flushed([d EXCEPT !.unflushed = @ \cup {layer}])

\* Mutant: the row is written whether or not the run has changed since.
LogRowInCurrentRun(c) ==
  /\ At(c, "logging")
  /\ runs' = IF run # 0 /\ ~closing
               THEN [runs EXCEPT ![run] = WithRow(@, captures[c].layer)] ELSE runs
  /\ Done(c)
  /\ UNCHANGED <<printer, link, recorder, written, failures, ended>>

\* log_frame(): the row goes to the buffer and all of that to the file; it raises when
\* on_state() has closed the file meanwhile.
LogRow(c) ==
  /\ At(c, "logging")
  /\ LET t == captures[c]
     IN runs' = IF runs[t.into].open THEN [runs EXCEPT ![t.into] = WithRow(@, t.layer)] ELSE runs
  /\ Done(c)
  /\ UNCHANGED <<printer, link, recorder, written, failures, ended>>

\* log_frame(): the flush fails and raises, the row stays in the buffer.
LogFails(c) ==
  /\ At(c, "logging") /\ runs[captures[c].into].open /\ Fails
  /\ runs' = [runs EXCEPT ![captures[c].into].unflushed = @ \cup {captures[c].layer}]
  /\ Done(c)
  /\ UNCHANGED <<printer, link, recorder, written, ended>>

Next ==
  \/ StartPrint \/ NextLayer \/ ChangeState
  \/ Report \/ ClearRun \/ Layer
  \/ \E c \in Captures : \/ Grab(c) \/ GrabFails(c) \/ TakeRun(c)
                         \/ WriteFrame(c) \/ WriteFails(c) \/ LogRow(c) \/ LogFails(c)

Spec == Init /\ [][Next]_vars

---------------------------------------------------------------------------
(* server/runs.py and its reader.                                          *)

Layers(r) == {f.layer : f \in runs[r].frames}

\* newest_frame(): the highest layer in the directory last written to.
NewestLayer == IF written = 0 THEN -1 ELSE Max(Layers(written))

---------------------------------------------------------------------------
\* A frame shows the print of its directory, unless its own run had ended before
\* it was filed or the end of that print was never reported.
MisfiledExplained ==
  \A r \in 1..Len(runs) : \A f \in runs[r].frames :
    \/ f.print = runs[r].print
    \/ f.late
    \/ runs[r].print \notin ended

\* frames.csv and the frames of its directory go together, whichever writes fail: a row
\* has its file, unless imwrite() could not make one; and once the thread that wrote a
\* file is done, the file has its row in an open directory, or the row is in the buffer
\* that the next row or close() flushes.
DirectoryConsistent ==
  \A r \in 1..Len(runs) :
    /\ runs[r].rows \cup runs[r].unflushed \subseteq Layers(r) \cup runs[r].unwritten
    /\ runs[r].open /\ (\A c \in Captures : ~At(c, "logging"))
         => Layers(r) \subseteq runs[r].rows \cup runs[r].unflushed

\* GET /api/frame/latest never goes back to a directory of an earlier print, nor
\* to a lower layer of the same directory.
ServedForward ==
  [][/\ written' >= written
     /\ written' = written => NewestLayer' >= NewestLayer]_vars

===========================================================================
