---------------------------- MODULE PrintQueue ----------------------------
(***************************************************************************)
(* server/queue.py, class PrintQueue: the queues of all printers, changed  *)
(* under _lock and then written to queues.json under _persist_lock, by API *)
(* threads and the slice worker at once.  The save is atomic (a temporary  *)
(* file and os.replace), may fail, and may not happen because the server   *)
(* died first.                                                             *)
(***************************************************************************)
EXTENDS Naturals, Sequences, FiniteSets, Functions

CONSTANTS
  Printers,     \* serials
  Jobs,         \* job ids
  Threads,      \* threads that call add, remove and reorder
  NoThread,
  MaxChanges,   \* bound: changes between two restarts
  MaxOrder      \* bound: names in an order that a client sends

ASSUME QueueAssumption ==
  NoThread \notin Threads /\ MaxChanges \in Nat /\ MaxOrder \in Nat

VARIABLES
  jobs,          \* _jobs
  file,          \* queues.json
  persistLock,   \* the thread holding _persist_lock, or NoThread
  thread,        \* each thread's call
  log,           \* ghost: every value of _jobs since the server started
  stored,        \* ghost: the one in the file
  acked,         \* ghost: the newest one whose call returned
  lastFailed     \* ghost: the last save raised

ghosts == <<log, stored, acked, lastFailed>>
vars == <<jobs, file, persistLock, thread, ghosts>>

\* What a client may send: it may be out of date, leave jobs out or name one twice.
Orders == UNION {[1..n -> Jobs] : n \in 0..MaxOrder}
Queues == [Printers -> Seq(Jobs)]

\* made: the change of this call.  snap: the snapshot _persist() took.
Call == [pc : {"idle", "persist", "saving"}, made : Nat, snap : Nat]
NoCall == [pc |-> "idle", made |-> 0, snap |-> 0]

TypeOK ==
  /\ jobs \in Queues /\ file \in Queues
  /\ persistLock \in Threads \cup {NoThread}
  /\ thread \in [Threads -> Call]
  /\ log \in Seq(Queues) /\ Len(log) > 0
  /\ stored \in 1..Len(log) /\ acked \in Nat
  /\ lastFailed \in BOOLEAN

\* The server starts with what the file holds; a corrupt file counts as empty.
Init ==
  /\ jobs = [p \in Printers |-> <<>>]
  /\ file = jobs
  /\ persistLock = NoThread
  /\ thread = [t \in Threads |-> NoCall]
  /\ log = <<jobs>> /\ stored = 1 /\ acked = 0
  /\ lastFailed = FALSE

---------------------------------------------------------------------------
At(t, pc) == thread[t].pc = pc

\* The new value of _jobs, and the call that goes on to persist it.
Mutate(t, p, queue) ==
  /\ Len(log) <= MaxChanges
  /\ jobs' = [jobs EXCEPT ![p] = queue]
  /\ log' = Append(log, jobs')
  /\ thread' = [thread EXCEPT ![t] = [pc |-> "persist", made |-> Len(log) + 1, snap |-> 0]]
  /\ UNCHANGED <<file, persistLock, stored, acked, lastFailed>>

\* add(): job ids are fresh.
Add(t, p, j) ==
  /\ At(t, "idle")
  /\ \A q \in Printers : j \notin Range(jobs[q]) \cup Range(file[q])
  /\ Mutate(t, p, Append(jobs[p], j))

\* remove(): every entry with that id goes and the others keep their order; nothing is
\* saved when there is none.
Remove(t, p, j) ==
  LET others == {i \in 1..Len(jobs[p]) : jobs[p][i] # j}
  IN /\ At(t, "idle")
     /\ j \in Range(jobs[p])
     /\ \E at \in [1..Cardinality(others) -> others] :
          /\ \A m, n \in DOMAIN at : m < n => at[m] < at[n]
          /\ Mutate(t, p, [n \in DOMAIN at |-> jobs[p][at[n]]])

\* reorder(): jobs the caller does not name are dropped, one it names twice is then in
\* the queue twice.  A name of no job here
\* has no effect, so the inputs leave such names out.
Reorder(t, p, ids) ==
  /\ At(t, "idle")
  /\ jobs[p] # <<>>
  /\ Range(ids) \subseteq Range(jobs[p])
  /\ Mutate(t, p, ids)

\* The call of t, about to save the first n changes.
Saving(t, n) == [pc |-> "saving", made |-> thread[t].made, snap |-> n]

\* Mutant: snapshots are saved without _persist_lock.
TakeSnapshotUnlocked(t) ==
  /\ At(t, "persist")
  /\ persistLock' = t
  /\ thread' = [thread EXCEPT ![t] = Saving(t, Len(log))]
  /\ UNCHANGED <<jobs, file, ghosts>>

\* Mutant: what is saved is the value the caller's own change produced.
TakeSnapshotOfOwnChange(t) ==
  /\ At(t, "persist")
  /\ persistLock = NoThread
  /\ persistLock' = t
  /\ thread' = [thread EXCEPT ![t] = Saving(t, thread[t].made)]
  /\ UNCHANGED <<jobs, file, ghosts>>

\* _persist(): the snapshot is taken under both locks.
TakeSnapshot(t) ==
  /\ At(t, "persist")
  /\ persistLock = NoThread
  /\ persistLock' = t
  /\ thread' = [thread EXCEPT ![t] = Saving(t, Len(log))]
  /\ UNCHANGED <<jobs, file, ghosts>>

\* QueueStore.save() replaces the file, and the call returns.
Save(t) ==
  /\ At(t, "saving")
  /\ file' = log[thread[t].snap]
  /\ stored' = thread[t].snap
  /\ acked' = IF thread[t].made > acked THEN thread[t].made ELSE acked
  /\ lastFailed' = FALSE
  /\ persistLock' = NoThread
  /\ thread' = [thread EXCEPT ![t] = NoCall]
  /\ UNCHANGED <<jobs, log>>

\* save() raises: the file is as it was, the change stays in memory and the
\* caller gets the error.
SaveFails(t) ==
  /\ At(t, "saving")
  /\ lastFailed' = TRUE
  /\ persistLock' = NoThread
  /\ thread' = [thread EXCEPT ![t] = NoCall]
  /\ UNCHANGED <<jobs, file, log, stored, acked>>

\* The server dies and starts again from the file.
Restart ==
  /\ jobs' = file
  /\ persistLock' = NoThread
  /\ thread' = [t \in Threads |-> NoCall]
  /\ log' = SubSeq(log, 1, stored)
  /\ lastFailed' = FALSE
  /\ UNCHANGED <<file, stored, acked>>

Step(t) ==
  \/ \E p \in Printers :
       \/ \E j \in Jobs : Add(t, p, j) \/ Remove(t, p, j)
       \/ \E ids \in Orders : Reorder(t, p, ids)
  \/ TakeSnapshot(t)
  \/ Save(t)
  \/ SaveFails(t)

Next == Restart \/ \E t \in Threads : Step(t)

Spec == Init /\ [][Next]_vars

---------------------------------------------------------------------------
\* What a call acknowledged is on disk and survives a restart.
AckedIsStored == acked <= stored

\* When no call is in progress the file holds what memory holds, unless the last
\* save failed: no interleaving of two saves leaves an older snapshot behind.
FileCatchesUp ==
  (\A t \in Threads : At(t, "idle")) /\ ~lastFailed => file = jobs

\* The queues and queues.json together behave as a DurableLog.
Durable == INSTANCE DurableLog WITH Values <- Queues, durable <- stored

IsDurable == Durable!Spec

===========================================================================
