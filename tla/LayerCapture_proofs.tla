------------------------ MODULE LayerCapture_proofs ------------------------
(***************************************************************************)
(* LayerCapture for any number of capture threads, prints and layers: that *)
(* what a thread files late is the only thing that can be in a wrong       *)
(* directory, and that the lock is enough for the log and for the reader.  *)
(***************************************************************************)
EXTENDS LayerCapture, TLAPS, SequenceTheorems

Numbers == 1..Len(runs)
HoldsFrame(c) == captures[c].pc \in {"grabbed", "filing", "logging"}
Files(c) == captures[c].pc \in {"filing", "logging"}

\* A thread holds a frame exactly while it has the lock.
Locked == \A c \in Captures : HoldsFrame(c) <=> lock = c

\* The run is the last directory, and no other one is open.
OneOpen ==
  /\ run # 0 => run = Len(runs)
  /\ closing => run # 0
  /\ \A r \in Numbers : runs[r].open <=> r = run /\ ~closing

\* The layers whose file was made, or could not be; and the rows of a directory with
\* those in the buffer of its log.
Named(r) == Layers(r) \cup runs[r].unwritten
AllRows(r) == runs[r].rows \cup runs[r].unflushed

\* A thread started for a run holds a frame of the print of that run or of a later
\* one, and files it in no directory older than the newest that was written to.
Threads ==
  \A c \in Captures :
    /\ captures[c].pc # "none" => captures[c].since \in Numbers
    /\ HoldsFrame(c) => /\ captures[c].shows >= runs[captures[c].since].print
                        /\ captures[c].shows <= printer.print
    /\ Files(c) => captures[c].into \in Numbers /\ captures[c].into >= written
    /\ At(c, "logging") => captures[c].layer \in Named(captures[c].into)

\* What an open directory has no row for is about to be logged.
Logged ==
  \A r \in Numbers :
    /\ AllRows(r) \subseteq Named(r)
    /\ runs[r].open =>
         \A l \in Layers(r) \ AllRows(r) : \E c \in Captures :
           At(c, "logging") /\ captures[c].into = r /\ captures[c].layer = l

\* The reader finds a highest layer.
HasNewest ==
  /\ written # 0 => Layers(written) # {}
  /\ \A r \in Numbers :
       Layers(r) = {} \/ \E l \in Layers(r) : \A k \in Layers(r) : l >= k

\* Only a late frame shows a print before that of its directory.
Prints ==
  \A r \in Numbers :
    /\ runs[r].print <= printer.print
    /\ \A f \in runs[r].frames :
         f.print <= printer.print /\ (f.late \/ f.print >= runs[r].print)

\* A print that goes on, or whose run is open, has not been reported to have ended.
Ends ==
  /\ lastState = state.gcode
  /\ \A p \in ended : p <= printer.print
  /\ Printing => printer.print \notin ended
  /\ run # 0 /\ ~closing => lastState \notin TerminalStates /\ runs[run].print \notin ended

IInv ==
  /\ TypeOK /\ Locked /\ OneOpen /\ Threads /\ Logged /\ HasNewest /\ Prints /\ Ends
  /\ MisfiledExplained

USE CaptureAssumption

\* What the types say of the elements.
LEMMA TypeFacts ==
  ASSUME TypeOK
  PROVE  /\ Len(runs) \in Nat /\ run \in 0..Len(runs) /\ written \in 0..Len(runs)
         /\ printer.print \in Nat /\ failures \in 0..MaxFailures
         /\ \A r \in Numbers :
              /\ runs[r] \in Directory /\ runs[r].print \in Nat
              /\ \A f \in runs[r].frames : f.print \in Nat /\ f.layer \in 0..MaxLayers
         /\ \A c \in Captures :
              /\ captures[c].layer \in 0..MaxLayers
              /\ captures[c].since \in Nat /\ captures[c].into \in Nat
              /\ captures[c].shows \in 0..MaxPrints
<1>1. ASSUME NEW r \in Numbers
      PROVE  /\ runs[r] \in Directory /\ runs[r].print \in Nat
             /\ \A f \in runs[r].frames : f.print \in Nat /\ f.layer \in 0..MaxLayers
  <2>1. runs[r] \in Directory
    BY <1>1, ElementOfSeq DEF TypeOK, Numbers
  <2>2. runs[r].print \in 0..MaxPrints /\ runs[r].frames \subseteq Frame
    BY <2>1 DEF Directory
  <2>3. \A f \in Frame : f.print \in 0..MaxPrints /\ f.layer \in 0..MaxLayers
    BY DEF Frame
  <2> QED
    BY <2>1, <2>2, <2>3
<1>2. ASSUME NEW c \in Captures
      PROVE  /\ captures[c].layer \in 0..MaxLayers
             /\ captures[c].since \in Nat /\ captures[c].into \in Nat
             /\ captures[c].shows \in 0..MaxPrints
  BY <1>2 DEF TypeOK, Thread
<1>3. Len(runs) \in Nat /\ printer.print \in Nat
  BY LenProperties DEF TypeOK
<1> QED
  BY <1>1, <1>2, <1>3 DEF TypeOK

LEMMA InitIInv == Init => IInv
<1> SUFFICES ASSUME Init PROVE  IInv
  OBVIOUS
<1>1. TypeOK
  <2>1. runs \in Seq(Directory) /\ Len(runs) = 0
    BY EmptySeq DEF Init
  <2>2. 0 \in 0..MaxLayers /\ 0 \in 0..MaxPrints /\ 0 \in 0..MaxFailures
    OBVIOUS
  <2>3. NoThread \in Thread
    BY <2>2 DEF NoThread, Thread
  <2>4. captures \in [Captures -> Thread]
    BY <2>3 DEF Init
  <2>5. /\ printer \in [gcode : TerminalStates \cup PrintStates, layer : 0..MaxLayers,
                        print : 0..MaxPrints]
        /\ state \in [gcode : TerminalStates \cup PrintStates \cup {"none"},
                      layer : (0..MaxLayers) \cup {-1}]
    BY <2>2 DEF Init, TerminalStates
  <2>6. runs \in Seq(Directory) /\ run \in 0..Len(runs) /\ written \in 0..Len(runs)
    BY <2>1 DEF Init
  <2> QED
    BY <2>2, <2>4, <2>5, <2>6 DEF Init, TypeOK
<1>2. Numbers = {}
  BY DEF Init, Numbers
<1>3. \A c \in Captures : captures[c].pc = "none"
  BY DEF Init, NoThread
<1> QED
  BY <1>1, <1>2, <1>3
  DEF Init, IInv, Locked, OneOpen, Threads, Logged, HasNewest, Prints, Ends, MisfiledExplained,
      Numbers, HoldsFrame, Files, At, Printing, PrintStates

---------------------------------------------------------------------------
(* The machine.                                                            *)

\* A step of the machine: the print does not go back, and no print that ended goes on.
LEMMA MachineIInv ==
  ASSUME IInv, StartPrint \/ NextLayer \/ ChangeState
  PROVE  IInv'
<1>1. UNCHANGED <<link, recorder, dirs, threads, failures, ended>>
  BY DEF StartPrint, NextLayer, ChangeState
<1>2. /\ printer' \in [gcode : TerminalStates \cup PrintStates, layer : 0..MaxLayers,
                       print : 0..MaxPrints]
      /\ printer.print \in Nat /\ printer'.print \in Nat /\ printer'.print >= printer.print
      /\ Printing' => \/ Printing /\ printer'.print = printer.print
                      \/ printer'.print = printer.print + 1
  <2>1. CASE StartPrint
    BY <2>1 DEF StartPrint, IInv, TypeOK, PrintStates, TerminalStates
  <2>2. CASE NextLayer
    BY <2>2 DEF NextLayer, IInv, TypeOK, PrintStates, TerminalStates, Printing
  <2>3. CASE ChangeState
    BY <2>3 DEF ChangeState, IInv, TypeOK, PrintStates, TerminalStates, Printing
  <2> QED
    BY <2>1, <2>2, <2>3
<1>3. TypeOK' /\ Locked' /\ OneOpen' /\ Logged' /\ HasNewest' /\ MisfiledExplained'
  <2>1. TypeOK' /\ Locked' /\ OneOpen'
    BY <1>1, <1>2
    DEF link, recorder, dirs, threads, IInv, TypeOK, Locked, OneOpen, HoldsFrame, Numbers
  <2>2. HasNewest' /\ MisfiledExplained'
    BY <1>1 DEF dirs, IInv, HasNewest, MisfiledExplained, Numbers, Layers
  <2>3. Logged'
    BY <1>1 DEF dirs, threads, IInv, Logged, Numbers, At, Layers, Named, AllRows
  <2> QED
    BY <2>1, <2>2, <2>3
<1>4. Threads'
  <2>1. \A c \in Captures : captures[c].shows \in Nat
    BY TypeFacts DEF IInv
  <2> QED
    BY <1>1, <1>2, <2>1
    DEF link, recorder, dirs, threads, IInv, Threads, HoldsFrame, Files, Numbers, At, Layers, Named, AllRows
<1>5. Prints'
  <2>1. \A r \in Numbers : runs[r].print \in Nat /\ \A f \in runs[r].frames : f.print \in Nat
    BY TypeFacts DEF IInv
  <2> QED
    BY <1>1, <1>2, <2>1 DEF dirs, IInv, Prints, Numbers
<1>6. Ends'
  <2>1. \A p \in ended : p \in Nat /\ p <= printer.print
    BY DEF IInv, TypeOK, Ends
  <2>2. /\ \A p \in ended : p <= printer'.print
        /\ Printing' => printer'.print \notin ended
    BY <1>2, <2>1 DEF IInv, Ends
  <2> QED
    BY <1>1, <2>2 DEF link, recorder, dirs, IInv, Ends, Printing
<1> QED
  BY <1>3, <1>4, <1>5, <1>6 DEF IInv

---------------------------------------------------------------------------
(* The network thread.                                                     *)

\* Steps that leave the threads, the directories and the machine alone.
LEMMA Elsewhere ==
  ASSUME IInv, UNCHANGED <<printer, captures, lock, runs, written, failures, ended>>
  PROVE  Locked' /\ Threads' /\ Logged' /\ HasNewest' /\ Prints' /\ MisfiledExplained'
<1>1. Locked'
  BY DEF IInv, Locked, HoldsFrame
<1>2. Threads'
  BY DEF IInv, Threads, HoldsFrame, Files, Numbers, At, Layers, Named, AllRows
<1>3. Logged'
  BY DEF IInv, Logged, Numbers, At, Layers, Named, AllRows
<1>4. HasNewest' /\ Prints' /\ MisfiledExplained'
  BY DEF IInv, HasNewest, Prints, MisfiledExplained, Numbers, Layers
<1> QED
  BY <1>1, <1>2, <1>3, <1>4

LEMMA ClearRunIInv ==
  ASSUME IInv, ClearRun
  PROVE  IInv'
<1>1. run # 0 /\ \A r \in Numbers : ~runs[r].open
  BY DEF IInv, OneOpen, ClearRun
<1>2. UNCHANGED <<printer, link, lastState, dirs, threads, failures, ended>>
      /\ closing' = FALSE /\ run' = 0
  BY DEF ClearRun
<1>3. TypeOK'
  <2>1. 0 \in 0..Len(runs)
    BY TypeFacts DEF IInv
  <2> QED
    BY <1>2, <2>1 DEF link, dirs, threads, IInv, TypeOK
<1>4. OneOpen'
  BY <1>1, <1>2, TypeFacts DEF dirs, IInv, OneOpen, Numbers
<1>5. Ends'
  BY <1>2 DEF link, dirs, IInv, Ends, Printing
<1> QED
  BY <1>2, <1>3, <1>4, <1>5, Elsewhere DEF dirs, threads, IInv

LEMMA LayerIInv ==
  ASSUME IInv, Layer
  PROVE  IInv'
<1>1. UNCHANGED <<printer, state, recorder, dirs, lock, failures, ended>>
  BY DEF Layer
<1>2. lastLayer' \in (0..MaxLayers) \cup {-1} /\ layerDue' = FALSE
  BY DEF Layer, IInv, TypeOK
<1>3. OneOpen' /\ HasNewest' /\ Prints' /\ Ends' /\ MisfiledExplained'
  BY <1>1
  DEF recorder, dirs, IInv, OneOpen, HasNewest, Prints, Ends, MisfiledExplained, Numbers,
      Layers, Printing
<1>4. CASE captures' = captures
  <2>1. TypeOK'
    BY <1>1, <1>2, <1>4 DEF recorder, dirs, IInv, TypeOK
  <2> QED
    BY <1>1, <1>3, <1>4, <2>1, Elsewhere DEF dirs, IInv
<1>5. CASE captures' # captures
  <2>1. PICK c \in Captures :
          /\ captures[c].pc = "none" /\ run # 0 /\ state.layer > lastLayer
          /\ captures' = [captures EXCEPT ![c] =
               [NoThread EXCEPT !.pc = "settling", !.layer = state.layer, !.since = run]]
    BY <1>5 DEF Layer
  <2> DEFINE new == [NoThread EXCEPT !.pc = "settling", !.layer = state.layer, !.since = run]
  <2>2. state.layer \in 0..MaxLayers
    <3>1. /\ state.layer \in (0..MaxLayers) \cup {-1}
          /\ lastLayer \in (0..MaxLayers) \cup {-1}
      BY DEF IInv, TypeOK
    <3> QED
      BY <2>1, <3>1
  <2>3. run \in Numbers
    BY <2>1, TypeFacts DEF IInv, OneOpen, Numbers
  <2>4. new \in Thread /\ new.pc = "settling" /\ new.since \in Numbers
    <3>1. 0 \in 0..MaxPrints /\ run \in Nat
      BY <2>3 DEF Numbers
    <3> QED
      BY <2>2, <2>3, <3>1 DEF NoThread, Thread
  <2> HIDE DEF new
  <2>5. /\ captures' \in [Captures -> Thread] /\ captures'[c] = new
        /\ \A d \in Captures : d # c => captures'[d] = captures[d]
    BY <2>1, <2>4 DEF new, IInv, TypeOK
  <2>6. TypeOK'
    BY <1>1, <1>2, <2>5 DEF recorder, dirs, IInv, TypeOK
  <2>7. Locked'
    BY <1>1, <2>1, <2>4, <2>5 DEF IInv, Locked, HoldsFrame
  <2>8. Threads'
    BY <1>1, <2>1, <2>4, <2>5 DEF dirs, IInv, Threads, HoldsFrame, Files, Numbers, At, Layers, Named, AllRows
  <2>9. Logged'
    BY <1>1, <2>1, <2>5 DEF dirs, IInv, Logged, Numbers, At, Layers, Named, AllRows
  <2> QED
    BY <1>3, <2>6, <2>7, <2>8, <2>9 DEF IInv
<1> QED
  BY <1>4, <1>5

\* on_state() opens a run: the other directories keep their numbers.
LEMMA Opens ==
  ASSUME IInv, NEW d \in Directory, runs' = Append(runs, d)
  PROVE  /\ runs' \in Seq(Directory) /\ Len(runs') = Len(runs) + 1
         /\ \A r \in Numbers : runs'[r] = runs[r]
         /\ runs'[Len(runs')] = d
         /\ Numbers' = Numbers \cup {Len(runs')}
<1>1. runs \in Seq(Directory) /\ Len(runs) \in Nat
  BY TypeFacts DEF IInv, TypeOK
<1>2. /\ runs' \in Seq(Directory) /\ Len(runs') = Len(runs) + 1
      /\ \A r \in Numbers : runs'[r] = runs[r]
      /\ runs'[Len(runs')] = d
  BY <1>1, AppendProperties DEF Numbers
<1> QED
  BY <1>1, <1>2 DEF Numbers

\* A change to one directory.
LEMMA Replaces ==
  ASSUME IInv, NEW r \in Numbers, NEW d \in Directory
  PROVE  LET next == [runs EXCEPT ![r] = d]
         IN /\ next \in Seq(Directory) /\ Len(next) = Len(runs)
            /\ \A q \in Numbers : next[q] = IF q = r THEN d ELSE runs[q]
BY ExceptSeq DEF IInv, TypeOK, Numbers

\* on_state() closes the run: its frames stay, and its rows with those in the buffer.
LEMMA Closes ==
  ASSUME IInv, run # 0, CloseFiles
  PROVE  /\ runs' \in Seq(Directory) /\ Len(runs') = Len(runs) /\ Numbers' = Numbers
         /\ run \in Numbers
         /\ \A r \in Numbers :
              /\ runs'[r].print = runs[r].print /\ runs'[r].frames = runs[r].frames
              /\ runs'[r].unwritten = runs[r].unwritten /\ AllRows(r)' = AllRows(r)
              /\ IF r = run THEN ~runs'[r].open ELSE runs'[r].open = runs[r].open
<1>1. runs \in Seq(Directory) /\ run \in Numbers
  BY TypeFacts DEF IInv, TypeOK, Numbers
<1> DEFINE flushed == [Flushed(runs[run]) EXCEPT !.open = FALSE]
           dropped == [runs[run] EXCEPT !.open = FALSE]
<1>2. runs[run] \in Directory
  BY <1>1, TypeFacts DEF IInv
<1>3. \A d \in {flushed, dropped} :
        /\ d \in Directory /\ d.print = runs[run].print /\ d.frames = runs[run].frames
        /\ d.unwritten = runs[run].unwritten /\ ~d.open
        /\ d.rows \cup d.unflushed = runs[run].rows \cup runs[run].unflushed
  BY <1>2 DEF Directory, Flushed
<1>4. PICK closed \in {flushed, dropped} : runs' = [runs EXCEPT ![run] = closed]
  BY DEF CloseFiles
<1> HIDE DEF flushed, dropped
<1>5. closed \in Directory
  BY <1>3
<1> DEFINE next == [runs EXCEPT ![run] = closed]
<1>6. /\ next \in Seq(Directory) /\ Len(next) = Len(runs)
      /\ \A r \in Numbers : next[r] = IF r = run THEN closed ELSE runs[r]
  BY <1>1, <1>5, Replaces, Zenon
<1>7. runs' = next
  BY <1>4
<1> HIDE DEF next
<1>8. /\ runs' \in Seq(Directory) /\ Len(runs') = Len(runs)
      /\ \A r \in Numbers : runs'[r] = IF r = run THEN closed ELSE runs[r]
  BY <1>6, <1>7 DEF Numbers
<1> QED
  BY <1>1, <1>3, <1>8 DEF Numbers, AllRows

\* A frame that is in time and in the directory of the machine's print shows that print.
LEMMA ReportedEnd ==
  ASSUME IInv, NEW r \in Numbers, NEW f \in runs[r].frames, runs[r].print = printer.print
  PROVE  f.late \/ f.print = runs[r].print
BY TypeFacts DEF IInv, Prints

LEMMA ReportIInv ==
  ASSUME IInv, Report
  PROVE  IInv'
<1> DEFINE g == state'.gcode
<1>1. /\ state' \in [gcode : TerminalStates \cup PrintStates \cup {"none"},
                     layer : (0..MaxLayers) \cup {-1}]
      /\ g # state.gcode => g = printer.gcode
  <2>1. PICK fields \in SUBSET {"gcode", "layer"} \ {{}} :
          state' = [gcode |-> IF "gcode" \in fields THEN printer.gcode ELSE state.gcode,
                    layer |-> IF "layer" \in fields THEN printer.layer ELSE state.layer]
    BY DEF Report
  <2>2. /\ printer.gcode \in TerminalStates \cup PrintStates
        /\ state.gcode \in TerminalStates \cup PrintStates \cup {"none"}
        /\ printer.layer \in 0..MaxLayers /\ state.layer \in (0..MaxLayers) \cup {-1}
    BY DEF IInv, TypeOK
  <2> QED
    BY <2>1, <2>2
<1>2. /\ ~closing /\ layerDue' = TRUE /\ lastState' = g /\ StateSeen(g)
      /\ UNCHANGED <<printer, lastLayer, written, captures, lock, failures>>
      /\ g \in TerminalStates \cup PrintStates \cup {"none"}
  BY <1>1 DEF Report, Ready, StateSeen, threads
<1>3. /\ ended' \subseteq ended \cup {printer.print} /\ ended \subseteq ended'
      /\ ended' # ended => g = printer.gcode /\ ~Printing
  BY DEF Report
<1>4. printer.gcode \in TerminalStates \cup PrintStates
  BY DEF IInv, TypeOK
<1> HIDE DEF g
<1>5. CASE g = "RUNNING" /\ run = 0 /\ g # lastState
  <2> DEFINE d == NewRun(printer.print)
  <2>1. runs' = Append(runs, d) /\ run' = Len(runs') /\ UNCHANGED closing
    BY <1>2, <1>5 DEF StateSeen
  <2>2. /\ d \in Directory /\ d.print = printer.print /\ d.frames = {} /\ d.rows = {}
        /\ d.unflushed = {} /\ d.open
    BY DEF IInv, TypeOK, Directory, NewRun
  <2> HIDE DEF d
  <2>3. /\ runs' \in Seq(Directory) /\ Len(runs') = Len(runs) + 1 /\ Len(runs) \in Nat
        /\ \A r \in Numbers : runs'[r] = runs[r]
        /\ runs'[Len(runs')] = d
        /\ Numbers' = Numbers \cup {Len(runs')} /\ Len(runs') \notin Numbers
    BY <2>1, <2>2, Opens, TypeFacts DEF IInv, Numbers
  <2>4. \A r \in Numbers : ~runs[r].open
    BY <1>5, TypeFacts DEF IInv, OneOpen, Numbers
  <2>5. Printing /\ ended' = ended /\ printer.print \notin ended
    BY <1>1, <1>3, <1>5 DEF g, IInv, Ends, Printing, PrintStates
  <2>6. TypeOK'
    <3>1. run' \in 0..Len(runs') /\ written' \in 0..Len(runs')
      BY <1>2, <2>1, <2>3, TypeFacts DEF IInv
    <3> QED
      BY <1>1, <1>2, <2>1, <2>3, <2>5, <3>1 DEF IInv, TypeOK
  <2>7. Locked'
    BY <1>2 DEF IInv, Locked, HoldsFrame
  <2>8. OneOpen'
    BY <1>2, <2>1, <2>2, <2>3, <2>4 DEF OneOpen
  <2>9. Threads'
    BY <1>2, <2>3 DEF IInv, Threads, HoldsFrame, Files, At, Layers, Named, AllRows
  <2>10. Logged'
    BY <1>2, <2>2, <2>3, <2>4 DEF IInv, Logged, At, Layers, Named, AllRows
  <2>11. HasNewest'
    <3>1. written # 0 => written \in Numbers
      BY TypeFacts DEF IInv, Numbers
    <3>2. \A r \in Numbers : Layers(r)' = Layers(r)
      BY <2>3 DEF Layers
    <3>3. PICK n : n = Len(runs')
      OBVIOUS
    <3>4. Layers(n)' = {}
      BY <2>2, <2>3, <3>3 DEF Layers
    <3> QED
      BY <1>2, <2>3, <3>1, <3>2, <3>3, <3>4 DEF IInv, HasNewest
  <2>12. Prints'
    BY <1>2, <2>2, <2>3, TypeFacts DEF IInv, Prints
  <2>13. Ends'
    BY <1>2, <1>5, <2>1, <2>2, <2>3, <2>5 DEF g, IInv, Ends, Printing, TerminalStates
  <2>14. MisfiledExplained'
    BY <2>2, <2>3, <2>5 DEF IInv, MisfiledExplained, Numbers
  <2> QED
    BY <2>6, <2>7, <2>8, <2>9, <2>10, <2>11, <2>12, <2>13, <2>14 DEF IInv
<1>6. CASE g \in TerminalStates /\ run # 0 /\ g # lastState
  <2>1. CloseFiles /\ closing' = TRUE /\ run' = run
    BY <1>2, <1>6 DEF StateSeen, TerminalStates
  <2>2. /\ runs' \in Seq(Directory) /\ Len(runs') = Len(runs) /\ Numbers' = Numbers
        /\ run \in Numbers
        /\ \A r \in Numbers :
             /\ runs'[r].print = runs[r].print /\ runs'[r].frames = runs[r].frames
             /\ runs'[r].unwritten = runs[r].unwritten /\ AllRows(r)' = AllRows(r)
             /\ IF r = run THEN ~runs'[r].open ELSE runs'[r].open = runs[r].open
    BY <1>6, <2>1, Closes
  <2>3. ended' \subseteq 0..MaxPrints
    BY <1>3 DEF IInv, TypeOK
  <2>4. TypeOK'
    BY <1>1, <1>2, <2>1, <2>2, <2>3 DEF IInv, TypeOK
  <2>5. Locked'
    BY <1>2 DEF IInv, Locked, HoldsFrame
  <2>6. OneOpen'
    <3>1. \A r \in Numbers : r # run => ~runs[r].open
      BY DEF IInv, OneOpen
    <3>2. \A r \in Numbers' : ~runs'[r].open
      BY <2>2, <3>1
    <3>3. run = Len(runs)
      BY <1>6 DEF IInv, OneOpen
    <3>4. run' = Len(runs') /\ run' # 0 /\ closing' = TRUE
      BY <1>6, <2>1, <2>2, <3>3
    <3> QED
      BY <3>2, <3>4 DEF OneOpen
  <2>7. Threads'
    BY <1>2, <2>2 DEF IInv, Threads, HoldsFrame, Files, At, Layers, Named
  <2>8. Logged'
    BY <1>2, <2>2 DEF IInv, Logged, At, Layers, Named
  <2>9. HasNewest'
    <3>1. written # 0 => written \in Numbers
      BY TypeFacts DEF IInv, Numbers
    <3> QED
      BY <1>2, <2>2, <3>1 DEF IInv, HasNewest, Layers
  <2>10. Prints'
    BY <1>2, <2>2 DEF IInv, Prints
  <2>11. Ends'
    BY <1>2, <1>3, <2>1, TypeFacts DEF g, IInv, Ends, Printing
  <2>12. MisfiledExplained'
    BY <1>3, <2>2, ReportedEnd DEF IInv, MisfiledExplained, Numbers
  <2> QED
    BY <2>4, <2>5, <2>6, <2>7, <2>8, <2>9, <2>10, <2>11, <2>12 DEF IInv
<1>7. CASE /\ ~(g = "RUNNING" /\ run = 0 /\ g # lastState)
           /\ ~(g \in TerminalStates /\ run # 0 /\ g # lastState)
  <2>1. UNCHANGED <<runs, run, closing>>
    BY <1>2, <1>7 DEF StateSeen
  <2>2. ended' \subseteq 0..MaxPrints
    BY <1>3 DEF IInv, TypeOK
  <2>3. TypeOK'
    BY <1>1, <1>2, <2>1, <2>2 DEF IInv, TypeOK
  <2>4. Locked' /\ OneOpen' /\ HasNewest' /\ Prints'
    BY <1>2, <2>1 DEF IInv, Locked, OneOpen, HasNewest, Prints, HoldsFrame, Numbers, Layers
  <2>5. Threads' /\ Logged'
    BY <1>2, <2>1 DEF IInv, Threads, Logged, HoldsFrame, Files, Numbers, At, Layers, Named, AllRows
  <2>6. Ends'
    <3>1. run # 0 /\ ~closing => g \notin TerminalStates
      BY <1>7 DEF IInv, Ends
    <3>2. g \notin TerminalStates => ended' = ended
      BY <1>3, <1>4 DEF Printing
    <3>3. \A p \in ended' : p <= printer.print
      BY <1>3, TypeFacts DEF IInv, Ends
    <3> QED
      BY <1>2, <1>3, <2>1, <3>1, <3>2, <3>3 DEF g, IInv, Ends, Printing
  <2>7. MisfiledExplained'
    BY <1>3, <2>1, ReportedEnd DEF IInv, MisfiledExplained, Numbers
  <2> QED
    BY <2>3, <2>4, <2>5, <2>6, <2>7 DEF IInv
<1> QED
  BY <1>5, <1>6, <1>7

---------------------------------------------------------------------------
(* The capture threads.                                                    *)

\* Only the thread with the lock holds a frame.
LEMMA Alone ==
  ASSUME IInv, NEW c \in Captures, HoldsFrame(c)
  PROVE  /\ lock = c /\ ~At(c, "settling") /\ ~At(c, "none")
         /\ \A d \in Captures : HoldsFrame(d) => d = c
         /\ \A d \in Captures : At(d, "logging") => d = c
BY DEF IInv, Locked, HoldsFrame, At

LEMMA NoThreadFacts == NoThread \in Thread /\ NoThread.pc = "none"
<1>1. 0 \in 0..MaxLayers /\ 0 \in 0..MaxPrints
  OBVIOUS
<1> QED
  BY <1>1 DEF NoThread, Thread

LEMMA GrabIInv ==
  ASSUME IInv, NEW c \in Captures, Grab(c)
  PROVE  IInv'
<1>1. /\ lock = NoCapture /\ lock' = c /\ captures[c].pc = "settling"
      /\ UNCHANGED <<printer, state, lastLayer, layerDue, lastState, run, closing, runs,
                     written, failures, ended>>
  BY DEF Grab, At, link, recorder, dirs
<1>2. captures[c] \in Thread /\ printer.print \in 0..MaxPrints
  BY DEF IInv, TypeOK
<1> DEFINE new == [captures[c] EXCEPT !.pc = "grabbed", !.shows = printer.print]
<1>3. /\ new \in Thread /\ new.pc = "grabbed" /\ new.shows = printer.print
      /\ new.since = captures[c].since
  BY <1>2 DEF Thread
<1>4. captures' = [captures EXCEPT ![c] = new]
  BY DEF Grab
<1> HIDE DEF new
<1>5. /\ captures' \in [Captures -> Thread] /\ captures'[c] = new
      /\ \A d \in Captures : d # c => captures'[d] = captures[d]
  BY <1>3, <1>4 DEF IInv, TypeOK
<1>6. \A d \in Captures : ~HoldsFrame(d)
  BY <1>1 DEF IInv, Locked
<1>7. TypeOK'
  BY <1>1, <1>5 DEF IInv, TypeOK
<1>8. Locked'
  BY <1>1, <1>3, <1>5, <1>6 DEF Locked, HoldsFrame
<1>9. Threads'
  <2>1. captures[c].since \in Numbers
    BY <1>1 DEF IInv, Threads
  <2>2. runs[captures[c].since].print <= printer.print
    BY <2>1 DEF IInv, Prints
  <2>3. printer.print >= runs[captures[c].since].print /\ printer.print <= printer.print
    BY <2>1, <2>2, TypeFacts DEF IInv
  <2> QED
    BY <1>1, <1>3, <1>5, <1>6, <2>1, <2>3
    DEF IInv, Threads, HoldsFrame, Files, Numbers, At, Layers, Named, AllRows
<1>10. Logged'
  BY <1>1, <1>3, <1>5 DEF IInv, Logged, Numbers, At, Layers, Named, AllRows
<1>11. OneOpen' /\ HasNewest' /\ Prints' /\ Ends' /\ MisfiledExplained'
  BY <1>1 DEF IInv, OneOpen, HasNewest, Prints, Ends, MisfiledExplained, Numbers, Layers, Printing
<1> QED
  BY <1>7, <1>8, <1>9, <1>10, <1>11 DEF IInv

\* A thread that ends without having written anything.
LEMMA GoneIInv ==
  ASSUME IInv, NEW c \in Captures, ~At(c, "logging"), captures' = [captures EXCEPT ![c] = NoThread],
         IF HoldsFrame(c) THEN lock' = NoCapture ELSE lock' = lock,
         UNCHANGED <<printer, link, recorder, dirs, failures, ended>>
  PROVE  IInv'
<1>1. UNCHANGED <<printer, state, lastLayer, layerDue, lastState, run, closing, runs, written,
                  failures, ended>>
  BY DEF link, recorder, dirs
<1>2. /\ captures' \in [Captures -> Thread] /\ captures'[c].pc = "none"
      /\ \A d \in Captures : d # c => captures'[d] = captures[d]
  BY NoThreadFacts DEF IInv, TypeOK
<1>3. TypeOK'
  BY <1>1, <1>2 DEF IInv, TypeOK
<1>4. Locked'
  BY <1>2 DEF IInv, Locked, HoldsFrame
<1>5. Threads'
  BY <1>1, <1>2 DEF IInv, Threads, HoldsFrame, Files, Numbers, At, Layers, Named, AllRows
<1>6. Logged'
  BY <1>1, <1>2 DEF IInv, Logged, Numbers, At, Layers, Named, AllRows
<1>7. OneOpen' /\ HasNewest' /\ Prints' /\ Ends' /\ MisfiledExplained'
  BY <1>1 DEF IInv, OneOpen, HasNewest, Prints, Ends, MisfiledExplained, Numbers, Layers, Printing
<1> QED
  BY <1>3, <1>4, <1>5, <1>6, <1>7 DEF IInv

LEMMA TakeRunIInv ==
  ASSUME IInv, NEW c \in Captures, TakeRun(c)
  PROVE  IInv'
<1>1. captures[c].pc = "grabbed" /\ HoldsFrame(c) /\ ~At(c, "logging")
  BY DEF TakeRun, At, HoldsFrame
<1>2. CASE run = 0
  BY <1>1, <1>2, GoneIInv DEF TakeRun, Done
<1>3. CASE run # 0
  <2>1. UNCHANGED <<printer, state, lastLayer, layerDue, lastState, run, closing, runs, written,
                    lock, failures, ended>>
    BY <1>3 DEF TakeRun, link, recorder, dirs
  <2>2. captures[c] \in Thread /\ run \in Nat
    BY TypeFacts DEF IInv, TypeOK
  <2> DEFINE new == [captures[c] EXCEPT !.pc = "filing", !.into = run]
  <2>3. /\ new \in Thread /\ new.pc = "filing" /\ new.into = run
        /\ new.since = captures[c].since /\ new.shows = captures[c].shows
    BY <2>2 DEF Thread
  <2>4. captures' = [captures EXCEPT ![c] = new]
    BY <1>3 DEF TakeRun
  <2> HIDE DEF new
  <2>5. /\ captures' \in [Captures -> Thread] /\ captures'[c] = new
        /\ \A d \in Captures : d # c => captures'[d] = captures[d]
    BY <2>3, <2>4 DEF IInv, TypeOK
  <2>6. run \in Numbers /\ run >= written
    BY <1>3, TypeFacts DEF IInv, OneOpen, Numbers
  <2>7. TypeOK'
    BY <2>1, <2>5 DEF IInv, TypeOK
  <2>8. Locked'
    BY <1>1, <2>1, <2>3, <2>5 DEF IInv, Locked, HoldsFrame
  <2>9. Threads'
    BY <1>1, <2>1, <2>3, <2>5, <2>6 DEF IInv, Threads, HoldsFrame, Files, Numbers, At, Layers, Named, AllRows
  <2>10. Logged'
    BY <1>1, <2>1, <2>3, <2>5 DEF IInv, Logged, Numbers, At, Layers, Named, AllRows
  <2>11. OneOpen' /\ HasNewest' /\ Prints' /\ Ends' /\ MisfiledExplained'
    BY <2>1
    DEF IInv, OneOpen, HasNewest, Prints, Ends, MisfiledExplained, Numbers, Layers, Printing
  <2> QED
    BY <2>7, <2>8, <2>9, <2>10, <2>11 DEF IInv
<1> QED
  BY <1>2, <1>3

\* The new frame replaces that of its layer, and nothing else changes in the directory.
LEMMA WriteFrameFacts ==
  ASSUME IInv, NEW c \in Captures, WriteFrame(c)
  PROVE  LET t == captures[c]
         IN /\ t.pc = "filing" /\ t.into \in Numbers /\ t.into >= written
            /\ written' = t.into /\ Len(runs') = Len(runs) /\ Numbers' = Numbers
            /\ runs' \in Seq(Directory)
            /\ \A r \in Numbers :
                 /\ runs'[r].print = runs[r].print /\ runs'[r].rows = runs[r].rows
                 /\ runs'[r].unflushed = runs[r].unflushed
                 /\ runs'[r].unwritten = runs[r].unwritten
                 /\ runs'[r].open = runs[r].open
                 /\ r # t.into => runs'[r].frames = runs[r].frames
            /\ {f.layer : f \in runs'[t.into].frames} = Layers(t.into) \cup {t.layer}
            /\ \A f \in runs'[t.into].frames :
                 \/ f \in runs[t.into].frames
                 \/ /\ f.print = t.shows
                    /\ ~f.late => t.since = t.into /\ runs[t.into].open
<1> DEFINE t == captures[c]
           old == {f \in runs[t.into].frames : f.layer = t.layer}
           new == [layer |-> t.layer, print |-> t.shows,
                   late |-> t.since # t.into \/ ~runs[t.into].open]
           frames == (runs[t.into].frames \ old) \cup {new}
           dir == [runs[t.into] EXCEPT !.frames = frames]
<1>1. t.pc = "filing" /\ t.into \in Numbers /\ t.into >= written
  BY DEF WriteFrame, At, IInv, Threads, Files
<1>2. /\ runs[t.into] \in Directory /\ t.layer \in 0..MaxLayers /\ t.shows \in 0..MaxPrints
      /\ \A f \in runs[t.into].frames : f \in Frame
  BY <1>1, TypeFacts DEF IInv, Directory
<1>3. /\ new \in Frame /\ new.layer = t.layer /\ new.print = t.shows
      /\ ~new.late => t.since = t.into /\ runs[t.into].open
  BY <1>2 DEF Frame
<1>4. written' = t.into /\ runs' = [runs EXCEPT ![t.into] = dir]
  BY DEF WriteFrame
<1> HIDE DEF new
<1>5. /\ frames \subseteq Frame
      /\ {f.layer : f \in frames} = {f.layer : f \in runs[t.into].frames} \cup {t.layer}
  BY <1>2, <1>3
<1> HIDE DEF frames
<1>6. /\ dir \in Directory /\ dir.print = runs[t.into].print /\ dir.rows = runs[t.into].rows
      /\ dir.unflushed = runs[t.into].unflushed /\ dir.unwritten = runs[t.into].unwritten
      /\ dir.open = runs[t.into].open /\ dir.frames = frames
  BY <1>2, <1>5 DEF Directory
<1> HIDE DEF dir
<1>7. /\ runs' \in Seq(Directory) /\ Len(runs') = Len(runs)
      /\ \A r \in Numbers : runs'[r] = IF r = t.into THEN dir ELSE runs[r]
  BY <1>1, <1>4, <1>6, Replaces
<1>8. \A f \in frames : f \in runs[t.into].frames \/ f = new
  BY DEF frames
<1> QED
  BY <1>1, <1>3, <1>4, <1>5, <1>6, <1>7, <1>8 DEF Numbers, Layers

LEMMA WriteFrameIInv ==
  ASSUME IInv, NEW c \in Captures, WriteFrame(c)
  PROVE  IInv'
<1>1. UNCHANGED <<printer, state, lastLayer, layerDue, lastState, run, closing,
                     lock, failures, ended>>
  BY DEF WriteFrame, link, recorder
<1> DEFINE t == captures[c]
<1>2. /\ t.pc = "filing" /\ t.into \in Numbers /\ t.into >= written
      /\ written' = t.into /\ Len(runs') = Len(runs) /\ Numbers' = Numbers
      /\ runs' \in Seq(Directory)
      /\ \A r \in Numbers :
           /\ runs'[r].print = runs[r].print /\ runs'[r].rows = runs[r].rows
           /\ runs'[r].unflushed = runs[r].unflushed
           /\ runs'[r].unwritten = runs[r].unwritten
           /\ runs'[r].open = runs[r].open
           /\ r # t.into => runs'[r].frames = runs[r].frames
      /\ {f.layer : f \in runs'[t.into].frames} = Layers(t.into) \cup {t.layer}
      /\ \A f \in runs'[t.into].frames :
           \/ f \in runs[t.into].frames
           \/ /\ f.print = t.shows
              /\ ~f.late => t.since = t.into /\ runs[t.into].open
  BY WriteFrameFacts
<1>3. captures[c] \in Thread
  BY DEF IInv, TypeOK
<1> DEFINE new == [captures[c] EXCEPT !.pc = "logging"]
<1>4. /\ new \in Thread /\ new.pc = "logging" /\ new.into = t.into /\ new.layer = t.layer
      /\ new.since = t.since /\ new.shows = t.shows
  BY <1>3 DEF Thread
<1>5. captures' = [captures EXCEPT ![c] = new]
  BY DEF WriteFrame, Goto
<1> HIDE DEF new
<1>6. /\ captures' \in [Captures -> Thread] /\ captures'[c] = new
      /\ \A d \in Captures : d # c => captures'[d] = captures[d]
  BY <1>4, <1>5 DEF IInv, TypeOK
<1>7. /\ HoldsFrame(c) /\ Files(c) /\ lock = c /\ \A d \in Captures : ~At(d, "logging")
      /\ \A d \in Captures : HoldsFrame(d) => d = c
  <2>1. HoldsFrame(c)
    BY <1>2 DEF HoldsFrame
  <2> QED
    BY <1>2, <2>1, Alone DEF Files, At
<1>8. \A r \in Numbers : Layers(r) \subseteq Layers(r)'
  BY <1>2 DEF Layers
<1>9. t.since \in Numbers /\ t.shows >= runs[t.since].print /\ t.shows <= printer.print
  BY <1>2, <1>7 DEF IInv, Threads
<1>10. TypeOK'
  <2>1. run' \in 0..Len(runs') /\ written' \in 0..Len(runs')
    BY <1>1, <1>2, TypeFacts DEF IInv, Numbers
  <2> QED
    BY <1>1, <1>2, <1>6, <2>1 DEF IInv, TypeOK
<1>11. Locked'
  BY <1>1, <1>2, <1>4, <1>6 DEF IInv, Locked, HoldsFrame
<1>12. OneOpen'
  BY <1>1, <1>2 DEF IInv, OneOpen
<1>13. PICK w : w = t.into
  OBVIOUS
<1>14. \A r \in Numbers : Layers(r)' = IF r = t.into THEN Layers(r) \cup {t.layer} ELSE Layers(r)
  BY <1>2 DEF Layers
<1>15. Threads'
  <2>1. /\ captures'[c].into = w /\ captures'[c].layer \in Named(w)'
        /\ w \in Numbers' /\ w >= written'
    BY <1>2, <1>4, <1>6, <1>13, <1>14, TypeFacts DEF IInv, Named
  <2>2. \A d \in Captures : d # c => ~HoldsFrame(d)' /\ ~Files(d)' /\ ~At(d, "logging")'
    BY <1>6, <1>7 DEF HoldsFrame, Files, At
  <2>3. ASSUME NEW d \in Captures, captures'[d].pc # "none"
        PROVE  captures'[d].since \in Numbers'
    BY <1>2, <1>4, <1>6, <1>9, <2>3 DEF IInv, Threads
  <2> QED
    BY <1>1, <1>2, <1>4, <1>6, <1>9, <2>1, <2>2, <2>3 DEF Threads
<1>16. Logged'
  <2>1. \A r \in Numbers : AllRows(r)' = AllRows(r) /\ Named(r) \subseteq Named(r)'
    BY <1>2, <1>14 DEF AllRows, Named
  <2>2. ASSUME NEW r \in Numbers
        PROVE  /\ AllRows(r)' \subseteq Named(r)'
               /\ runs'[r].open => Layers(r) \subseteq AllRows(r)'
    BY <1>2, <1>7, <2>1 DEF IInv, Logged
  <2>3. At(c, "logging")' /\ captures'[c].into = t.into /\ captures'[c].layer = t.layer
    BY <1>4, <1>6 DEF At
  <2> QED
    BY <1>2, <1>14, <2>2, <2>3 DEF Logged
<1>17. HasNewest'
  <2>1. t.layer \in Nat /\ \A l \in Layers(t.into) : l \in Nat
    BY <1>2, TypeFacts DEF IInv, Layers
  <2>2. \E l \in Layers(t.into) \cup {t.layer} : \A k \in Layers(t.into) \cup {t.layer} : l >= k
    <3>1. CASE Layers(t.into) = {}
      BY <2>1, <3>1
    <3>2. CASE Layers(t.into) # {}
      <4>1. PICK l \in Layers(t.into) : \A k \in Layers(t.into) : l >= k
        BY <1>2, <3>2 DEF IInv, HasNewest
      <4>2. CASE l >= t.layer
        BY <4>1, <4>2
      <4>3. CASE ~(l >= t.layer)
        BY <2>1, <4>1, <4>3
      <4> QED
        BY <4>2, <4>3
    <3> QED
      BY <3>1, <3>2
  <2>3. Layers(w)' = Layers(t.into) \cup {t.layer} /\ written' = w
    BY <1>2, <1>13, <1>14
  <2> QED
    BY <1>2, <1>13, <1>14, <2>2, <2>3 DEF IInv, HasNewest
<1>18. Prints'
  <2>1. \A f \in runs'[t.into].frames :
          f.print <= printer.print /\ (f.late \/ f.print >= runs[t.into].print)
    BY <1>2, <1>9 DEF IInv, Prints
  <2> QED
    BY <1>1, <1>2, <2>1 DEF IInv, Prints
<1>19. Ends'
  <2>1. run # 0 => run \in Numbers
    BY TypeFacts DEF IInv, Numbers
  <2> QED
    BY <1>1, <1>2, <2>1 DEF IInv, Ends, Printing
<1>20. MisfiledExplained'
  <2>1. runs[t.into].open => runs[t.into].print \notin ended
    BY <1>2, TypeFacts DEF IInv, OneOpen, Ends, Numbers
  <2> QED
    BY <1>1, <1>2, <2>1 DEF IInv, MisfiledExplained, Numbers
<1> QED
  BY <1>10, <1>11, <1>12, <1>15, <1>16, <1>17, <1>18, <1>19, <1>20 DEF IInv

\* imwrite() makes no file: only the ghost of the directory changes.
LEMMA WriteFailsIInv ==
  ASSUME IInv, NEW c \in Captures, WriteFails(c)
  PROVE  IInv'
<1>1. /\ UNCHANGED <<printer, state, lastLayer, layerDue, lastState, run, closing, written,
                     lock, ended>>
      /\ failures' \in 0..MaxFailures
  BY TypeFacts DEF WriteFails, Fails, link, recorder, IInv
<1> DEFINE t == captures[c]
           dir == [runs[t.into] EXCEPT !.unwritten = runs[t.into].unwritten \cup {t.layer}]
           new == [captures[c] EXCEPT !.pc = "logging"]
<1>2. t.pc = "filing" /\ t.into \in Numbers /\ t.into >= written
  BY DEF WriteFails, At, IInv, Threads, Files
<1>3. /\ captures' = [captures EXCEPT ![c] = new] /\ runs' = [runs EXCEPT ![t.into] = dir]
  BY DEF WriteFails, Goto
<1>4. /\ dir \in Directory /\ dir.print = runs[t.into].print /\ dir.rows = runs[t.into].rows
      /\ dir.unflushed = runs[t.into].unflushed /\ dir.open = runs[t.into].open
      /\ dir.frames = runs[t.into].frames
      /\ dir.unwritten = runs[t.into].unwritten \cup {t.layer}
  <2>1. runs[t.into] \in Directory /\ t.layer \in 0..MaxLayers
    BY <1>2, TypeFacts DEF IInv
  <2> QED
    BY <2>1 DEF Directory
<1>5. captures[c] \in Thread
  BY DEF IInv, TypeOK
<1>6. /\ new \in Thread /\ new.pc = "logging" /\ new.into = t.into /\ new.layer = t.layer
      /\ new.since = t.since /\ new.shows = t.shows
  BY <1>5 DEF Thread
<1> HIDE DEF dir, new
<1>7. /\ captures' \in [Captures -> Thread] /\ captures'[c] = new
      /\ \A d \in Captures : d # c => captures'[d] = captures[d]
  BY <1>3, <1>6 DEF IInv, TypeOK
<1>8. /\ runs' \in Seq(Directory) /\ Len(runs') = Len(runs) /\ Numbers' = Numbers
      /\ \A r \in Numbers : runs'[r] = IF r = t.into THEN dir ELSE runs[r]
  BY <1>2, <1>3, <1>4, Replaces DEF Numbers
<1>9. \A r \in Numbers :
        /\ runs'[r].print = runs[r].print /\ runs'[r].frames = runs[r].frames
        /\ runs'[r].open = runs[r].open
        /\ Layers(r)' = Layers(r) /\ AllRows(r)' = AllRows(r) /\ Named(r) \subseteq Named(r)'
        /\ r = t.into => t.layer \in Named(r)'
  BY <1>4, <1>8 DEF Layers, AllRows, Named
<1>10. /\ HoldsFrame(c) /\ lock = c /\ \A d \in Captures : ~At(d, "logging")
       /\ \A d \in Captures : HoldsFrame(d) => d = c
  <2>1. HoldsFrame(c)
    BY <1>2 DEF HoldsFrame
  <2> QED
    BY <1>2, <2>1, Alone DEF At
<1>11. TypeOK'
  BY <1>1, <1>7, <1>8 DEF IInv, TypeOK
<1>12. Locked'
  BY <1>1, <1>2, <1>6, <1>7 DEF IInv, Locked, HoldsFrame
<1>13. OneOpen'
  BY <1>1, <1>8, <1>9 DEF IInv, OneOpen
<1>14. Threads'
  <2>1. \A d \in Captures : d # c => ~HoldsFrame(d)' /\ ~Files(d)' /\ ~At(d, "logging")'
    BY <1>7, <1>10 DEF HoldsFrame, Files, At
  <2>2. t.since \in Numbers /\ t.shows >= runs[t.since].print /\ t.shows <= printer.print
    BY <1>2, <1>10 DEF IInv, Threads
  <2>3. ASSUME NEW d \in Captures, captures'[d].pc # "none"
        PROVE  captures'[d].since \in Numbers'
    BY <1>6, <1>7, <1>8, <2>2, <2>3 DEF IInv, Threads
  <2> QED
    BY <1>1, <1>2, <1>6, <1>7, <1>8, <1>9, <2>1, <2>2, <2>3 DEF Threads
<1>15. Logged'
  <2>1. Logged
    BY DEF IInv
  <2>2. ASSUME NEW r \in Numbers
        PROVE  AllRows(r)' \subseteq Named(r)' /\ (runs'[r].open => Layers(r)' \subseteq AllRows(r)')
    BY <1>9, <1>10, <2>1 DEF Logged
  <2> QED
    BY <1>8, <2>2 DEF Logged
<1>16. HasNewest'
  <2>1. written # 0 => written \in Numbers
    BY TypeFacts DEF IInv, Numbers
  <2> QED
    BY <1>1, <1>8, <1>9, <2>1 DEF IInv, HasNewest
<1>17. Prints'
  BY <1>1, <1>8, <1>9 DEF IInv, Prints
<1>18. Ends'
  <2>1. run # 0 => run \in Numbers
    BY TypeFacts DEF IInv, Numbers
  <2> QED
    BY <1>1, <1>9, <2>1 DEF IInv, Ends, Printing
<1>19. MisfiledExplained'
  BY <1>1, <1>8, <1>9 DEF IInv, MisfiledExplained, Numbers
<1> QED
  BY <1>11, <1>12, <1>13, <1>14, <1>15, <1>16, <1>17, <1>18, <1>19 DEF IInv

\* The row goes to the directory of the frame, if that is still open: to the file, or
\* when the flush fails to the buffer.
LEMMA LogRowFacts ==
  ASSUME IInv, NEW c \in Captures, LogRow(c) \/ LogFails(c)
  PROVE  LET t == captures[c]
         IN /\ HoldsFrame(c) /\ At(c, "logging")
            /\ t.into \in Numbers /\ t.layer \in Named(t.into)
            /\ runs' \in Seq(Directory) /\ Len(runs') = Len(runs) /\ Numbers' = Numbers
            /\ \A r \in Numbers :
                 /\ runs'[r].print = runs[r].print /\ runs'[r].frames = runs[r].frames
                 /\ runs'[r].unwritten = runs[r].unwritten /\ runs'[r].open = runs[r].open
                 /\ AllRows(r)' = IF r = t.into /\ runs[r].open
                                    THEN AllRows(r) \cup {t.layer} ELSE AllRows(r)
<1> DEFINE t == captures[c]
<1>1. /\ HoldsFrame(c) /\ At(c, "logging")
      /\ t.into \in Numbers /\ t.layer \in Named(t.into)
  BY DEF LogRow, LogFails, At, HoldsFrame, IInv, Threads, Files
<1>2. CASE ~runs[t.into].open
  <2>1. runs' = runs
    BY <1>2 DEF LogRow, LogFails
  <2> QED
    BY <1>1, <1>2, <2>1 DEF IInv, TypeOK, Numbers, AllRows
<1>3. CASE runs[t.into].open
  <2> DEFINE flushed == WithRow(runs[t.into], t.layer)
             kept == [runs[t.into] EXCEPT !.unflushed = runs[t.into].unflushed \cup {t.layer}]
  <2>1. runs[t.into] \in Directory /\ t.layer \in 0..MaxLayers
    BY <1>1, TypeFacts DEF IInv
  <2>2. \A d \in {flushed, kept} :
          /\ d \in Directory /\ d.print = runs[t.into].print
          /\ d.frames = runs[t.into].frames /\ d.open = runs[t.into].open
          /\ d.unwritten = runs[t.into].unwritten
          /\ d.rows \cup d.unflushed = runs[t.into].rows \cup runs[t.into].unflushed \cup {t.layer}
    <3>1. /\ kept \in Directory /\ kept.print = runs[t.into].print
          /\ kept.frames = runs[t.into].frames /\ kept.open = runs[t.into].open
          /\ kept.unwritten = runs[t.into].unwritten /\ kept.rows = runs[t.into].rows
          /\ kept.unflushed = runs[t.into].unflushed \cup {t.layer}
      BY <2>1 DEF Directory
    <3>2. flushed = [kept EXCEPT !.rows = kept.rows \cup kept.unflushed, !.unflushed = {}]
      BY DEF WithRow, Flushed
    <3> HIDE DEF flushed, kept
    <3>3. /\ flushed \in Directory /\ flushed.print = kept.print
          /\ flushed.frames = kept.frames /\ flushed.open = kept.open
          /\ flushed.unwritten = kept.unwritten
          /\ flushed.rows = kept.rows \cup kept.unflushed /\ flushed.unflushed = {}
      BY <3>1, <3>2 DEF Directory
    <3> QED
      BY <3>1, <3>3
  <2>3. PICK logged \in {flushed, kept} : runs' = [runs EXCEPT ![t.into] = logged]
    BY <1>3 DEF LogRow, LogFails
  <2> HIDE DEF flushed, kept
  <2>4. /\ runs' \in Seq(Directory) /\ Len(runs') = Len(runs)
        /\ \A r \in Numbers : runs'[r] = IF r = t.into THEN logged ELSE runs[r]
    BY <1>1, <2>2, <2>3, Replaces
  <2> QED
    BY <1>1, <1>3, <2>2, <2>4 DEF Numbers, AllRows
<1> QED
  BY <1>2, <1>3

LEMMA LogRowIInv ==
  ASSUME IInv, NEW c \in Captures, LogRow(c) \/ LogFails(c)
  PROVE  IInv'
<1>1. /\ UNCHANGED <<printer, state, lastLayer, layerDue, lastState, run, closing, written, ended>>
      /\ lock' = NoCapture /\ failures' \in 0..MaxFailures
  BY TypeFacts DEF LogRow, LogFails, Fails, Done, link, recorder, IInv
<1> DEFINE t == captures[c]
<1>2. /\ HoldsFrame(c) /\ At(c, "logging")
      /\ t.into \in Numbers /\ t.layer \in Named(t.into)
      /\ runs' \in Seq(Directory) /\ Len(runs') = Len(runs) /\ Numbers' = Numbers
      /\ \A r \in Numbers :
           /\ runs'[r].print = runs[r].print /\ runs'[r].frames = runs[r].frames
           /\ runs'[r].unwritten = runs[r].unwritten /\ runs'[r].open = runs[r].open
           /\ AllRows(r)' = IF r = t.into /\ runs[r].open
                              THEN AllRows(r) \cup {t.layer} ELSE AllRows(r)
  BY LogRowFacts
<1>3. /\ captures' \in [Captures -> Thread] /\ captures'[c].pc = "none"
      /\ \A d \in Captures : d # c => captures'[d] = captures[d]
  BY NoThreadFacts DEF LogRow, LogFails, Done, IInv, TypeOK
<1>4. \A d \in Captures : HoldsFrame(d) => d = c
  BY <1>2, Alone
<1>5. \A r \in Numbers : Layers(r)' = Layers(r) /\ Named(r)' = Named(r)
  BY <1>2 DEF Layers, Named
<1>6. TypeOK'
  BY <1>1, <1>2, <1>3 DEF IInv, TypeOK
<1>7. Locked'
  BY <1>1, <1>3, <1>4 DEF Locked, HoldsFrame
<1>8. OneOpen'
  BY <1>1, <1>2 DEF IInv, OneOpen
<1>9. Threads'
  BY <1>1, <1>2, <1>3, <1>4 DEF IInv, Threads, HoldsFrame, Files, At
<1>10. Logged'
  <2>1. \A d \in Captures : At(d, "logging") => d = c
    BY <1>4 DEF At, HoldsFrame
  <2>2. Logged
    BY DEF IInv
  <2>3. \A r \in Numbers :
          runs[r].open => \A l \in Layers(r) \ AllRows(r) : r = t.into /\ l = t.layer
    BY <2>1, <2>2 DEF Logged
  <2>4. ASSUME NEW r \in Numbers
        PROVE  /\ AllRows(r)' \subseteq Named(r)
               /\ runs'[r].open => Layers(r) \subseteq AllRows(r)'
    <3>1. AllRows(r) \subseteq Named(r)
      BY <2>2 DEF Logged
    <3>2. CASE r = t.into /\ runs[r].open
      <4>1. AllRows(r)' = AllRows(r) \cup {t.layer} /\ t.layer \in Named(r)
        BY <1>2, <3>2
      <4>2. \A l \in Layers(r) \ AllRows(r) : l = t.layer
        BY <2>3, <3>2
      <4> QED
        BY <3>1, <4>1, <4>2
    <3>3. CASE ~(r = t.into /\ runs[r].open)
      <4>1. AllRows(r)' = AllRows(r) /\ runs'[r].open = runs[r].open
        BY <1>2, <3>3
      <4>2. runs[r].open => Layers(r) \ AllRows(r) = {}
        BY <2>3, <3>3
      <4> QED
        BY <3>1, <4>1, <4>2
    <3> QED
      BY <3>2, <3>3
  <2> QED
    BY <1>2, <1>5, <2>4 DEF Logged
<1>11. HasNewest'
  <2>1. written # 0 => written \in Numbers
    BY TypeFacts DEF IInv, Numbers
  <2> QED
    BY <1>1, <1>2, <1>5, <2>1 DEF IInv, HasNewest
<1>12. Prints'
  BY <1>1, <1>2 DEF IInv, Prints
<1>13. Ends'
  <2>1. run # 0 => run \in Numbers
    BY TypeFacts DEF IInv, Numbers
  <2> QED
    BY <1>1, <1>2, <2>1 DEF IInv, Ends, Printing
<1>14. MisfiledExplained'
  BY <1>1, <1>2 DEF IInv, MisfiledExplained, Numbers
<1> QED
  BY <1>6, <1>7, <1>8, <1>9, <1>10, <1>11, <1>12, <1>13, <1>14 DEF IInv

---------------------------------------------------------------------------

LEMMA NextIInv == IInv /\ [Next]_vars => IInv'
<1> SUFFICES ASSUME IInv, [Next]_vars
             PROVE  IInv'
  OBVIOUS
<1>1. CASE StartPrint \/ NextLayer \/ ChangeState
  BY <1>1, MachineIInv
<1>2. CASE Report
  BY <1>2, ReportIInv
<1>3. CASE ClearRun
  BY <1>3, ClearRunIInv
<1>4. CASE Layer
  BY <1>4, LayerIInv
<1>5. ASSUME NEW c \in Captures, Grab(c)
      PROVE  IInv'
  BY <1>5, GrabIInv
<1>6. ASSUME NEW c \in Captures, GrabFails(c)
      PROVE  IInv'
  BY <1>6, GoneIInv DEF GrabFails, At, HoldsFrame
<1>7. ASSUME NEW c \in Captures, TakeRun(c)
      PROVE  IInv'
  BY <1>7, TakeRunIInv
<1>8. ASSUME NEW c \in Captures, WriteFrame(c)
      PROVE  IInv'
  BY <1>8, WriteFrameIInv
<1>9. ASSUME NEW c \in Captures, LogRow(c) \/ LogFails(c)
      PROVE  IInv'
  BY <1>9, LogRowIInv
<1>11. ASSUME NEW c \in Captures, WriteFails(c)
       PROVE  IInv'
  BY <1>11, WriteFailsIInv
<1>10. CASE UNCHANGED vars
  <2>1. UNCHANGED <<printer, state, lastLayer, layerDue, lastState, run, closing, runs, written,
                    captures, lock, failures, ended>>
    BY <1>10 DEF vars, link, recorder, dirs, threads
  <2>2. TypeOK' /\ OneOpen' /\ Ends'
    BY <2>1 DEF IInv, TypeOK, OneOpen, Ends, Numbers, Printing
  <2> QED
    BY <2>1, <2>2, Elsewhere DEF IInv
<1> QED
  BY <1>1, <1>2, <1>3, <1>4, <1>5, <1>6, <1>7, <1>8, <1>9, <1>10, <1>11 DEF Next

\* What the capture process knows of its threads, its directories and the prints they
\* are of, in every reachable state.
THEOREM Invariance == Spec => []IInv
BY InitIInv, NextIInv, PTL DEF Spec

\* The state keeps its types, and a directory in use exists.
THEOREM Typing == Spec => []TypeOK
<1>1. IInv => TypeOK
  BY DEF IInv
<1> QED
  BY Invariance, <1>1, PTL

\* A frame is in the directory of the print it shows, unless it was filed after its
\* run had ended or the end of that print was never reported (capture.py, _capture()
\* looks up the run only when it has the frame).
THEOREM Misfiled == Spec => []MisfiledExplained
<1>1. IInv => MisfiledExplained
  BY DEF IInv
<1> QED
  BY Invariance, <1>1, PTL

\* frames.csv and the frames of a directory go together, whichever writes fail: a row
\* has its file unless cv2.imwrite() could make none, and in an open directory a file
\* lacks a row only while the thread that wrote it is about to add it, or the row waits
\* in the buffer for the next flush (capture.py, _capture(), log_frame() and close()).
THEOREM Consistent == Spec => []DirectoryConsistent
<1>1. IInv => DirectoryConsistent
  BY DEF IInv, Logged, DirectoryConsistent, Numbers, AllRows, Named
<1> QED
  BY Invariance, <1>1, PTL

\* The files of a directory cover more and more layers, and the newest directory is
\* never replaced by an older one.
LEMMA LayersGrow ==
  ASSUME IInv, [Next]_vars
  PROVE  written' >= written /\ \A r \in Numbers : Layers(r) \subseteq Layers(r)'
<1>1. written \in Nat
  BY TypeFacts DEF IInv
<1>2. CASE UNCHANGED <<runs, written>>
  BY <1>1, <1>2 DEF Layers
<1>3. CASE Report
  <2>1. UNCHANGED written /\ StateSeen(state'.gcode)
    BY <1>3 DEF Report
  <2>2. CASE UNCHANGED runs
    BY <1>2, <2>1, <2>2
  <2>3. CASE run # 0 /\ CloseFiles
    BY <1>1, <2>1, <2>3, Closes DEF Layers
  <2>4. CASE runs' = Append(runs, NewRun(printer.print))
    <3>1. NewRun(printer.print) \in Directory
      BY DEF IInv, TypeOK, Directory, NewRun
    <3>2. \A r \in Numbers : runs'[r] = runs[r]
      BY <2>4, <3>1, Opens
    <3> QED
      BY <1>1, <2>1, <3>2 DEF Layers
  <2> QED
    BY <2>1, <2>2, <2>3, <2>4 DEF StateSeen
<1>4. ASSUME NEW c \in Captures, WriteFrame(c)
      PROVE  written' >= written /\ \A r \in Numbers : Layers(r) \subseteq Layers(r)'
  BY <1>4, WriteFrameFacts DEF Layers
<1>5. ASSUME NEW c \in Captures, LogRow(c) \/ LogFails(c)
      PROVE  written' >= written /\ \A r \in Numbers : Layers(r) \subseteq Layers(r)'
  <2>1. UNCHANGED written
    BY <1>5 DEF LogRow, LogFails
  <2>2. \A r \in Numbers : runs'[r].frames = runs[r].frames
    BY <1>5, LogRowFacts, Zenon
  <2> QED
    BY <1>1, <2>1, <2>2 DEF Layers
<1>6. ASSUME NEW c \in Captures, WriteFails(c)
      PROVE  written' >= written /\ \A r \in Numbers : Layers(r) \subseteq Layers(r)'
  <2>1. UNCHANGED written
    BY <1>6 DEF WriteFails
  <2> DEFINE t == captures[c]
             dir == [runs[t.into] EXCEPT !.unwritten = runs[t.into].unwritten \cup {t.layer}]
  <2>2. t.into \in Numbers /\ runs[t.into] \in Directory /\ t.layer \in 0..MaxLayers
    BY <1>6, TypeFacts DEF WriteFails, At, IInv, Threads, Files
  <2>3. dir \in Directory /\ dir.frames = runs[t.into].frames /\ runs' = [runs EXCEPT ![t.into] = dir]
    BY <1>6, <2>2 DEF WriteFails, Directory
  <2> HIDE DEF dir
  <2>4. \A r \in Numbers : runs'[r].frames = runs[r].frames
    BY <2>2, <2>3, Replaces
  <2> QED
    BY <1>1, <2>1, <2>4 DEF Layers
<1> QED
  BY <1>2, <1>3, <1>4, <1>5, <1>6
  DEF Next, vars, dirs, recorder, StartPrint, NextLayer, ChangeState, ClearRun, Layer, Grab,
      GrabFails, TakeRun

\* newest_frame() finds the highest layer of a directory that was written to.
LEMMA NewestIsHighest ==
  ASSUME IInv, written # 0
  PROVE  /\ NewestLayer \in Layers(written) /\ NewestLayer \in Nat
         /\ \A k \in Layers(written) : NewestLayer >= k
<1>1. written \in Numbers
  BY TypeFacts DEF IInv, Numbers
<1>2. \E l \in Layers(written) : \A k \in Layers(written) : l >= k
  BY <1>1 DEF IInv, HasNewest
<1>3. \A l \in Layers(written) : l \in Nat
  BY <1>1, TypeFacts DEF IInv, Layers
<1> QED
  BY <1>2, <1>3 DEF NewestLayer, Max

\* The frame that GET /api/frame/latest serves never goes back to an older directory,
\* nor to a lower layer of the same one.
THEOREM Forward == Spec => ServedForward
<1> DEFINE Step == written' >= written /\ (written' = written => NewestLayer' >= NewestLayer)
<1>1. IInv /\ IInv' /\ [Next]_vars => Step
  <2> SUFFICES ASSUME IInv, IInv', [Next]_vars, written' = written
               PROVE  NewestLayer' >= NewestLayer
    BY LayersGrow
  <2>1. CASE written = 0
    BY <2>1 DEF NewestLayer
  <2>2. CASE written # 0
    <3>1. written \in Numbers
      BY <2>2, TypeFacts DEF IInv, Numbers
    <3>2. Layers(written) \subseteq Layers(written)'
      BY <3>1, LayersGrow DEF Layers
    <3>3. (written # 0 => /\ NewestLayer \in Layers(written) /\ NewestLayer \in Nat
                          /\ \A k \in Layers(written) : NewestLayer >= k)'
      BY NewestIsHighest, PTL
    <3> QED
      BY <2>2, <3>2, <3>3, NewestIsHighest
  <2> QED
    BY <2>1, <2>2
<1> QED
  BY <1>1, Invariance, PTL DEF Spec, ServedForward

===========================================================================
