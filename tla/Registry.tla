----------------------------- MODULE Registry -----------------------------
(***************************************************************************)
(* server/registry.py with the services it owns (server/printer.py, class  *)
(* PrinterService) and printers.json (server/store.py).                    *)
(*                                                                         *)
(* A request changes the dicts under _lock, then stops the old service and *)
(* starts the new one outside it, and then saves under _persist_lock.  A   *)
(* save copies references under _lock and reads the objects without it.    *)
(*                                                                         *)
(* Of a configuration only capture is kept, the one field that relates two *)
(* printers.  An edit of host or access code rebuilds the service, any     *)
(* other does not: which it is, is an input.  Requests that change nothing *)
(* and end there (an unknown serial, a duplicate, a refused value) are     *)
(* left out.                                                               *)
(***************************************************************************)
EXTENDS Naturals, Sequences, FiniteSets, SequencesExt

CONSTANTS
  Serials,
  Threads,       \* threads that call add, remove, update and reconnect
  NoThread,
  MaxServices,   \* bound: services built between two restarts
  MaxConfigs     \* bound: configuration objects made between two restarts

ASSUME RegistryAssumption ==
  /\ NoThread \notin Threads
  /\ MaxServices \in Nat /\ MaxConfigs \in Nat

VARIABLES
  cfg,           \* every PrinterConfig made: objects, shared by reference
  configs,       \* _configs: the registered objects, in order of registration
  svc,           \* every service made
  serving,       \* _services: the service of each serial, or 0
  file,          \* printers.json
  persistLock,   \* the thread holding _persist_lock, or NoThread
  call,          \* each thread's request
  lastFailed     \* ghost: the last save raised

dicts == <<cfg, configs, serving>>
storage == <<file, persistLock, lastFailed>>
vars == <<dicts, svc, storage, call>>

Config == [serial : Serials, capture : BOOLEAN]

\* Where a service's connect thread is: not started, at the loop's test of _stop,
\* inside connect(), with paho's own loop running, or over.  unlucky: stop() found
\* it inside connect(), with nothing to disconnect yet.
Service ==
  [capture : BOOLEAN, stopped : BOOLEAN, unlucky : BOOLEAN,
   phase : {"new", "check", "connecting", "looping", "over"}]

Phases == {"idle", "stop", "start", "persist", "saving"}

TypeOK ==
  /\ cfg \in Seq(Config)
  /\ configs \in Seq(1..Len(cfg))
  /\ svc \in Seq(Service)
  /\ serving \in [Serials -> 0..Len(svc)]
  /\ file \in Seq(Config)
  /\ persistLock \in Threads \cup {NoThread}
  /\ call \in [Threads ->
       [pc : Phases, old : 0..Len(svc), new : 0..Len(svc), saves : BOOLEAN,
        list : Seq(1..Len(cfg)), data : Seq(Config)]]
  /\ lastFailed \in BOOLEAN

NoCall == [pc |-> "idle", old |-> 0, new |-> 0, saves |-> FALSE,
           list |-> <<>>, data |-> <<>>]

\* A server that has started without a printer.
Init ==
  /\ cfg = <<>> /\ configs = <<>>
  /\ svc = <<>> /\ serving = [s \in Serials |-> 0]
  /\ file = <<>> /\ persistLock = NoThread
  /\ call = [t \in Threads |-> NoCall]
  /\ lastFailed = FALSE

---------------------------------------------------------------------------
(* Memory, under _lock.                                                    *)

Known(s) == serving[s] # 0
Place(s) == CHOOSE i \in DOMAIN configs : cfg[configs[i]].serial = s
Object(s) == configs[Place(s)]
At(t, pc) == call[t].pc = pc

\* The objects and the services once _clear_capture() has run.
Uncaptured(r) == [r EXCEPT !.capture = FALSE]
ClearedConfigs == [o \in DOMAIN cfg |-> IF o \in ToSet(configs) THEN Uncaptured(cfg[o]) ELSE cfg[o]]

ClearedServices ==
  [i \in DOMAIN svc |->
     IF \E o \in ToSet(configs) : cfg[o].capture /\ serving[cfg[o].serial] = i
       THEN Uncaptured(svc[i]) ELSE svc[i]]

\* service_factory(cfg)
Built(c) == [capture |-> c.capture, stopped |-> FALSE, unlucky |-> FALSE,
             phase |-> "new"]

\* Thread t goes on with its request.
Begin(t, pc, old, new, saves) ==
  call' = [call EXCEPT ![t] = [NoCall EXCEPT !.pc = pc, !.old = old, !.new = new, !.saves = saves]]

\* add() of a serial that is not registered.
Add(t, s, capture) ==
  /\ At(t, "idle")
  /\ ~Known(s)
  /\ Len(cfg) < MaxConfigs /\ Len(svc) < MaxServices
  /\ LET c == [serial |-> s, capture |-> capture]
         old == IF capture THEN ClearedConfigs ELSE cfg
     IN /\ cfg' = Append(old, c)
        /\ configs' = Append(configs, Len(cfg) + 1)
        /\ svc' = Append(IF capture THEN ClearedServices ELSE svc, Built(c))
  /\ serving' = [serving EXCEPT ![s] = Len(svc) + 1]
  /\ Begin(t, "start", 0, Len(svc) + 1, TRUE)
  /\ UNCHANGED storage

\* remove(): both dicts forget the serial.
RemovePrinter(t, s) ==
  /\ At(t, "idle")
  /\ Known(s)
  /\ configs' = RemoveAt(configs, Place(s))
  /\ serving' = [serving EXCEPT ![s] = 0]
  /\ Begin(t, "stop", serving[s], 0, TRUE)
  /\ UNCHANGED <<cfg, svc, storage>>

\* update(): a new host or access code rebuilds the service; anything else is
\* written to the live one.  A capture that is not submitted keeps its value.
Update(t, s, rebuild, capture) ==
  /\ At(t, "idle")
  /\ Known(s)
  /\ LET o == Object(s)
         c == [serial |-> s, capture |-> capture]
         others == IF capture THEN ClearedServices ELSE svc
     IN /\ cfg' = [(IF capture THEN ClearedConfigs ELSE cfg) EXCEPT ![o] = c]
        /\ IF rebuild
             THEN /\ Len(svc) < MaxServices
                  /\ svc' = Append(others, Built(c))
                  /\ serving' = [serving EXCEPT ![s] = Len(svc) + 1]
                  /\ Begin(t, "stop", serving[s], Len(svc) + 1, TRUE)
             ELSE /\ svc' = [others EXCEPT ![serving[s]].capture = capture]
                  /\ Begin(t, "persist", 0, 0, FALSE)
                  /\ UNCHANGED serving
  /\ UNCHANGED <<configs, storage>>

\* reconnect(): a new service from the configuration as it is; nothing to save.
Reconnect(t, s) ==
  /\ At(t, "idle")
  /\ Known(s)
  /\ Len(svc) < MaxServices
  /\ svc' = Append(svc, Built(cfg[Object(s)]))
  /\ serving' = [serving EXCEPT ![s] = Len(svc) + 1]
  /\ Begin(t, "stop", serving[s], Len(svc) + 1, FALSE)
  /\ UNCHANGED <<cfg, configs, storage>>

---------------------------------------------------------------------------
(* The services, outside the lock.                                         *)

\* Mutant: a service that is not connected yet is not told to stop.
StoppedIfConnected(r) ==
  IF r.phase = "looping" THEN [r EXCEPT !.stopped = TRUE, !.phase = "over"] ELSE r

\* What the request still has to do is save.
ToSave == [NoCall EXCEPT !.pc = "persist"]

\* stop(): the flag is set, and paho's loop stopped if it runs.  The join may time
\* out, which changes nothing.
Stopped(r) ==
  [r EXCEPT !.stopped = TRUE,
            !.unlucky = r.phase = "connecting",
            !.phase = IF r.phase = "looping" THEN "over" ELSE @]

StopOld(t) ==
  /\ At(t, "stop")
  /\ svc' = [svc EXCEPT ![call[t].old] = Stopped(@)]
  /\ call' = [call EXCEPT ![t] = IF @.new # 0 THEN [@ EXCEPT !.pc = "start", !.old = 0]
                                             ELSE ToSave]
  /\ UNCHANGED <<dicts, storage>>

\* start(), even of a service somebody has stopped meanwhile.
StartNew(t) ==
  /\ At(t, "start")
  /\ svc' = [svc EXCEPT ![call[t].new].phase = "check"]
  /\ call' = [call EXCEPT ![t] = IF @.saves THEN ToSave ELSE NoCall]
  /\ UNCHANGED <<dicts, storage>>

Becomes(i, phase) ==
  /\ svc' = [svc EXCEPT ![i].phase = phase]
  /\ UNCHANGED <<dicts, storage, call>>

InPhase(i, phase) == i <= Len(svc) /\ svc[i].phase = phase

\* Mutant: the flag is not looked at again after the first attempt.
TryAlways(i) == InPhase(i, "check") /\ Becomes(i, "connecting")

\* _connect_loop(): while not self._stop.is_set()
CheckStop(i) ==
  /\ InPhase(i, "check")
  /\ Becomes(i, IF svc[i].stopped THEN "over" ELSE "connecting")

\* connect() raises; the wait of RETRY_S ends early when stopped.
ConnectFails(i) == InPhase(i, "connecting") /\ Becomes(i, "check")

\* The socket is up and paho's loop runs; with or without a CONNACK the thread
\* leaves the rest to it.  A stop() between the two counts as one before them.
SocketUp(i) == InPhase(i, "connecting") /\ Becomes(i, "looping")

ConnectLoop(i) == CheckStop(i) \/ ConnectFails(i) \/ SocketUp(i)

---------------------------------------------------------------------------
(* _persist()                                                              *)

\* Mutant: saves are not serialized.
TakeConfigsUnlocked(t) ==
  /\ At(t, "persist")
  /\ call' = [call EXCEPT ![t].pc = "saving", ![t].list = configs]
  /\ persistLock' = t
  /\ UNCHANGED <<dicts, svc, file, lastFailed>>

\* Both locks are held for the copy of _configs.values().
TakeConfigs(t) ==
  /\ At(t, "persist")
  /\ persistLock = NoThread
  /\ persistLock' = t
  /\ call' = [call EXCEPT ![t].pc = "saving", ![t].list = configs]
  /\ UNCHANGED <<dicts, svc, file, lastFailed>>

Serialized(t) == Len(call[t].data)

\* to_dict() of the next object, as it is by now: no lock guards it.
Serialize(t) ==
  /\ At(t, "saving")
  /\ Serialized(t) < Len(call[t].list)
  /\ call' = [call EXCEPT ![t].data = Append(@, cfg[call[t].list[Serialized(t) + 1]])]
  /\ UNCHANGED <<dicts, svc, storage>>

\* os.replace(), and the request returns; or save() raises, and so does the request.
Replace(t) ==
  /\ At(t, "saving")
  /\ Serialized(t) = Len(call[t].list)
  /\ \/ /\ file' = call[t].data
        /\ lastFailed' = FALSE
     \/ lastFailed' = TRUE /\ UNCHANGED file
  /\ persistLock' = NoThread
  /\ call' = [call EXCEPT ![t] = NoCall]
  /\ UNCHANGED <<dicts, svc>>

---------------------------------------------------------------------------
\* Mutant: what the file says of capture is believed.
LoadedAsIs(f) == f

\* What load() makes of a file: the last entry that claims capture has it.  (A save
\* that read one object before and one after a change of capture leaves two.)
Loaded(f) ==
  [i \in DOMAIN f |->
     IF \E k \in DOMAIN f : k > i /\ f[k].capture THEN Uncaptured(f[i]) ELSE f[i]]

\* The server dies and starts again; load() builds and starts everything.
Restart ==
  /\ cfg' = Loaded(file)
  /\ configs' = [i \in DOMAIN file |-> i]
  /\ svc' = [i \in DOMAIN file |-> [Built(cfg'[i]) EXCEPT !.phase = "check"]]
  /\ serving' = [s \in Serials |->
       IF \E i \in DOMAIN file : file[i].serial = s
         THEN CHOOSE i \in DOMAIN file : file[i].serial = s ELSE 0]
  /\ call' = [t \in Threads |-> NoCall]
  /\ persistLock' = NoThread
  /\ lastFailed' = FALSE
  /\ UNCHANGED file

Request(t) ==
  \E s \in Serials :
    \/ \E capture \in BOOLEAN : Add(t, s, capture) \/ \E rebuild \in BOOLEAN : Update(t, s, rebuild, capture)
    \/ RemovePrinter(t, s)
    \/ Reconnect(t, s)

Proceed(t) ==
  \/ StopOld(t)
  \/ StartNew(t)
  \/ TakeConfigs(t)
  \/ Serialize(t)
  \/ Replace(t)

Next ==
  \/ \E t \in Threads : Request(t) \/ Proceed(t)
  \/ \E i \in 1..MaxServices : ConnectLoop(i)
  \/ Restart

Spec == Init /\ [][Next]_vars

---------------------------------------------------------------------------
Quiet == \A t \in Threads : At(t, "idle")

\* "the file always converges to the latest state": with no request in progress, a
\* restart would find the printers that are in memory, with their order and values,
\* unless the last save failed -- whatever a save read of objects that were being
\* changed.
FileConverges ==
  Quiet /\ ~lastFailed => Loaded(file) = [i \in DOMAIN configs |-> cfg[configs[i]]]

\* "One webcam -> at most one capture printer", and the service shown for a printer
\* agrees with its configuration at every moment ("Miss one and the config is right
\* while every summary keeps reporting the old value").
ServicesMatch ==
  /\ Cardinality({o \in ToSet(configs) : cfg[o].capture}) <= 1
  /\ \A o \in ToSet(configs) :
       LET i == serving[cfg[o].serial]
       IN i # 0 /\ svc[i].capture = cfg[o].capture

\* When no request is in progress, exactly the services in the dict are wanted:
\* each of them was started and none was stopped by another request, and every
\* other service was told to stop.
ServicesSettle ==
  Quiet => \A i \in DOMAIN svc :
    IF \E s \in Serials : serving[s] = i
      THEN ~svc[i].stopped /\ svc[i].phase # "new"
      ELSE svc[i].stopped

\* A service that was stopped opens no connection: only one that stop() found inside
\* connect() may still come up, as paho's loop then starts after the disconnect.
StoppedStaysDown ==
  \A i \in DOMAIN svc :
    svc[i].stopped /\ svc[i].phase \in {"connecting", "looping"} => svc[i].unlucky

===========================================================================
