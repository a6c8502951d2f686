------------------------- MODULE PrintQueue_proofs -------------------------
(***************************************************************************)
(* The two-lock persistence of PrintQueue, for any printers, jobs, threads *)
(* and bound: its three invariants follow from one inductive invariant,    *)
(* and every step is a step of DurableLog or leaves it alone.              *)
(***************************************************************************)
EXTENDS PrintQueue, TLAPS, SequenceTheorems, FiniteSetTheorems

\* _persist_lock is held by the thread that is saving, and by no other.
LockHeld == \A t \in Threads : At(t, "saving") <=> persistLock = t

\* The lock makes snapshots reach the file in the order they were taken, and no
\* thread saves a snapshot older than its own change.
Snapshots ==
  \A t \in Threads :
    /\ At(t, "persist") => thread[t].made <= Len(log)
    /\ At(t, "saving") => /\ thread[t].snap \in stored..Len(log)
                          /\ thread[t].made <= thread[t].snap

Contents == jobs = log[Len(log)] /\ file = log[stored]

\* A file that lags behind has somebody about to write, or a failed save.
LagExplained ==
  \/ stored = Len(log)
  \/ \E t \in Threads : At(t, "persist")
  \/ \E t \in Threads : At(t, "saving") /\ thread[t].snap = Len(log)
  \/ lastFailed /\ persistLock = NoThread

IInv == TypeOK /\ LockHeld /\ Snapshots /\ Contents /\ LagExplained /\ AckedIsStored

USE QueueAssumption DEF At, Call, NoCall, Saving, ghosts

LEMMA OrdersAreSequences == Orders \subseteq Seq(Jobs)
  BY DEF Orders

LEMMA FunctionsAreSequences ==
  ASSUME NEW k \in Nat, NEW f \in [1..k -> Jobs]
  PROVE  f \in Seq(Jobs)
  OBVIOUS

\* What remove() leaves of a queue.
LEMMA RemovalLeavesQueue ==
  ASSUME NEW q \in Seq(Jobs), NEW j,
         NEW others, others = {i \in 1..Len(q) : q[i] # j},
         NEW at \in [1..Cardinality(others) -> others]
  PROVE  [n \in DOMAIN at |-> q[at[n]]] \in Seq(Jobs)
  <1>1. Cardinality(others) \in Nat
    <2>1. Len(q) \in Nat /\ others \subseteq 1..Len(q)
      OBVIOUS
    <2>2. IsFiniteSet(1..Len(q))
      BY <2>1, FS_Interval
    <2>3. IsFiniteSet(others)
      BY <2>1, <2>2, FS_Subset
    <2> QED
      BY <2>3, FS_CardinalityType
  <1>2. \A i \in others : q[i] \in Jobs
    OBVIOUS
  <1>3. [n \in DOMAIN at |-> q[at[n]]] \in [1..Cardinality(others) -> Jobs]
    BY <1>2
  <1> QED
    <2>1. PICK k \in Nat : k = Cardinality(others)
      BY <1>1
    <2>2. [n \in DOMAIN at |-> q[at[n]]] \in [1..k -> Jobs]
      BY <1>3, <2>1
    <2> QED
      BY <2>1, <2>2, FunctionsAreSequences

\* A call in progress, or none, is a Call.
LEMMA CallsAreCalls ==
  /\ NoCall \in Call
  /\ \A made \in Nat, snap \in Nat, pc \in {"persist", "saving"} :
       [pc |-> pc, made |-> made, snap |-> snap] \in Call
  OBVIOUS

LEMMA InitHolds == Init => IInv
  <1> SUFFICES ASSUME Init PROVE IInv
    OBVIOUS
  <1> USE DEF Init
  <1>1. jobs \in Queues
    BY DEF Queues
  <1>2. log \in Seq(Queues) /\ Len(log) = 1 /\ log[1] = jobs
    BY <1>1
  <1>3. thread \in [Threads -> Call]
    BY CallsAreCalls
  <1>4. TypeOK
    <2>1. stored \in 1..Len(log) /\ acked \in Nat /\ Len(log) > 0
      BY <1>2
    <2>2. lastFailed \in BOOLEAN
      OBVIOUS
    <2> QED
      BY <1>1, <1>2, <1>3, <2>1, <2>2, Zenon DEF TypeOK
  <1>5. LockHeld /\ Snapshots /\ AckedIsStored
    BY DEF LockHeld, Snapshots, AckedIsStored
  <1>6. Contents /\ LagExplained
    BY <1>2 DEF Contents, LagExplained
  <1> QED
    BY <1>4, <1>5, <1>6 DEF IInv

\* What every change of memory has in common.
LEMMA MutatePreserves ==
  ASSUME IInv, NEW t \in Threads, NEW p \in Printers, NEW queue \in Seq(Jobs),
         At(t, "idle"), Mutate(t, p, queue)
  PROVE  IInv'
  <1> USE DEF IInv, Mutate
  <1>1. jobs' \in Queues
    BY DEF TypeOK, Queues
  <1>2. /\ log' \in Seq(Queues) /\ Len(log') = Len(log) + 1
        /\ log'[Len(log')] = jobs'
        /\ \A i \in 1..Len(log) : log'[i] = log[i]
    BY <1>1 DEF TypeOK
  <1>3. TypeOK'
    BY <1>1, <1>2 DEF TypeOK
  <1>4. LockHeld'
    BY DEF LockHeld, TypeOK
  <1>5. Snapshots'
    BY <1>2 DEF Snapshots, TypeOK
  <1>6. Contents'
    BY <1>2 DEF Contents, TypeOK
  <1>7. LagExplained'
    BY DEF LagExplained, TypeOK
  <1>8. AckedIsStored'
    BY DEF AckedIsStored
  <1> QED
    BY <1>3, <1>4, <1>5, <1>6, <1>7, <1>8

LEMMA StepPreserves ==
  ASSUME IInv, NEW t \in Threads, Step(t)
  PROVE  IInv'
  <1> USE DEF IInv
  <1>1. CASE \E p \in Printers, j \in Jobs : Add(t, p, j)
    <2> PICK p \in Printers, j \in Jobs : Add(t, p, j)
      BY <1>1
    <2>1. Append(jobs[p], j) \in Seq(Jobs)
      BY DEF TypeOK, Queues
    <2> QED
      BY <2>1, MutatePreserves DEF Add
  <1>2. CASE \E p \in Printers, j \in Jobs : Remove(t, p, j)
    <2> PICK p \in Printers, j \in Jobs : Remove(t, p, j)
      BY <1>2
    <2>1. jobs[p] \in Seq(Jobs)
      BY DEF TypeOK, Queues
    <2>2. PICK queue \in Seq(Jobs) : Mutate(t, p, queue)
      BY <2>1, RemovalLeavesQueue DEF Remove
    <2> QED
      BY <2>2, MutatePreserves DEF Remove
  <1>3. CASE \E p \in Printers, ids \in Orders : Reorder(t, p, ids)
    BY <1>3, OrdersAreSequences, MutatePreserves DEF Reorder
  <1>4. CASE TakeSnapshot(t)
    <2> USE <1>4 DEF TakeSnapshot
    <2>0. thread' \in [Threads -> Call]
      BY CallsAreCalls DEF TypeOK
    <2>1. TypeOK'
      BY <2>0, Zenon DEF TypeOK
    <2>2. LockHeld'
      BY DEF LockHeld, TypeOK
    <2>3. Snapshots'
      BY DEF Snapshots, TypeOK
    <2>4. Contents' /\ AckedIsStored'
      BY DEF Contents, AckedIsStored
    <2>5. LagExplained'
      BY DEF LagExplained, TypeOK
    <2> QED
      BY <2>1, <2>2, <2>3, <2>4, <2>5
  <1>5. CASE Save(t)
    <2> USE <1>5 DEF Save
    <2>1. thread[t].snap \in stored..Len(log) /\ thread[t].made <= thread[t].snap
      BY DEF Snapshots
    <2>7. thread' \in [Threads -> Call]
      BY CallsAreCalls DEF TypeOK
    <2>8. file' \in Queues /\ acked' \in Nat
      BY <2>1 DEF TypeOK
    <2>9. stored' \in 1..Len(log')
      BY <2>1 DEF TypeOK
    <2>2. TypeOK'
      BY <2>7, <2>8, <2>9, Zenon DEF TypeOK
    <2>3. LockHeld'
      BY DEF LockHeld, TypeOK
    <2>4. Snapshots'
      BY <2>1 DEF Snapshots, TypeOK, LockHeld
    <2>5. Contents' /\ AckedIsStored'
      BY <2>1 DEF Contents, AckedIsStored, TypeOK
    <2>6. LagExplained'
      BY <2>1 DEF LagExplained, TypeOK, LockHeld
    <2> QED
      BY <2>2, <2>3, <2>4, <2>5, <2>6
  <1>6. CASE SaveFails(t)
    <2> USE <1>6 DEF SaveFails
    <2>1. TypeOK'
      BY DEF TypeOK
    <2>2. LockHeld' /\ Snapshots'
      BY DEF LockHeld, Snapshots, TypeOK
    <2>3. Contents' /\ AckedIsStored'
      BY DEF Contents, AckedIsStored
    <2>4. LagExplained'
      BY DEF LagExplained, TypeOK, LockHeld
    <2> QED
      BY <2>1, <2>2, <2>3, <2>4
  <1> QED
    BY <1>1, <1>2, <1>3, <1>4, <1>5, <1>6 DEF Step

LEMMA RestartPreserves ==
  ASSUME IInv, Restart
  PROVE  IInv'
  <1> USE DEF IInv, Restart
  <1>1. /\ log' \in Seq(Queues) /\ Len(log') = stored
        /\ \A i \in 1..stored : log'[i] = log[i]
    BY SubSeqProperties DEF TypeOK
  <1>2. TypeOK'
    <2>1. thread' \in [Threads -> Call]
      BY CallsAreCalls
    <2>2. stored' \in 1..Len(log') /\ Len(log') > 0
      BY <1>1 DEF TypeOK
    <2> QED
      BY <1>1, <2>1, <2>2, Zenon DEF TypeOK
  <1>3. LockHeld' /\ Snapshots'
    BY DEF LockHeld, Snapshots
  <1>4. Contents' /\ AckedIsStored' /\ LagExplained'
    BY <1>1 DEF Contents, AckedIsStored, LagExplained, TypeOK
  <1> QED
    BY <1>2, <1>3, <1>4

LEMMA NextPreserves == IInv /\ [Next]_vars => IInv'
  <1> SUFFICES ASSUME IInv, [Next]_vars PROVE IInv'
    OBVIOUS
  <1>1. CASE Next
    BY <1>1, StepPreserves, RestartPreserves DEF Next
  <1>2. CASE UNCHANGED vars
    BY <1>2 DEF vars, IInv, TypeOK, LockHeld, Snapshots, Contents, LagExplained,
                AckedIsStored
  <1> QED
    BY <1>1, <1>2

\* The inductive invariant holds in every reachable state.
THEOREM Invariance == Spec => []IInv
  BY InitHolds, NextPreserves, PTL DEF Spec

\* The queue module's variables keep their types.
THEOREM Typing == Spec => []TypeOK
  BY Invariance, PTL DEF IInv

\* A change whose call returned is on disk: a restart cannot lose it.
THEOREM Durability == Spec => []AckedIsStored
  BY Invariance, PTL DEF IInv

\* Once all calls are over the file holds what memory holds, whatever the order
\* in which the threads snapshotted and saved, unless the last save failed.
THEOREM Convergence == Spec => []FileCatchesUp
  <1>1. IInv => FileCatchesUp
    BY DEF IInv, TypeOK, LockHeld, Contents, LagExplained, FileCatchesUp
  <1> QED
    BY <1>1, Invariance, PTL

LEMMA MutateIsChange ==
  ASSUME IInv, IInv', NEW t \in Threads, NEW p \in Printers, NEW queue \in Seq(Jobs),
         Mutate(t, p, queue)
  PROVE  Durable!Change
  <1>1. log \in Seq(Queues) /\ jobs' \in Queues
    BY DEF IInv, TypeOK
  <1>2. /\ Len(log') = Len(log) + 1 /\ log' \in Seq(Queues)
        /\ log'[Len(log')] = jobs'
        /\ \A i \in 1..Len(log) : log'[i] = log[i]
    BY <1>1 DEF Mutate
  <1>3. SubSeq(log', 1, Len(log)) = log
    BY <1>1, <1>2
  <1> QED
    BY <1>1, <1>2, <1>3 DEF Durable!Change, Mutate

\* PrintQueue implements DurableLog: its two stores and its locks look like one
\* store whose disk copy only moves forward.
THEOREM Refinement == Spec => IsDurable
  <1>1. Init => Durable!Init
    BY DEF Init, Durable!Init, Queues
  <1>2. ASSUME IInv, IInv', [Next]_vars
        PROVE  [Durable!Next]_<<log, stored>>
    <2>1. ASSUME NEW t \in Threads, Step(t)
          PROVE  [Durable!Next]_<<log, stored>>
      <3>1. CASE \E p \in Printers, j \in Jobs : Add(t, p, j)
        <4> PICK p \in Printers, j \in Jobs : Add(t, p, j)
          BY <3>1
        <4>1. Append(jobs[p], j) \in Seq(Jobs)
          BY <1>2 DEF IInv, TypeOK, Queues
        <4> QED
          BY <1>2, <4>1, MutateIsChange DEF Add, Durable!Next
      <3>2. CASE \E p \in Printers, j \in Jobs : Remove(t, p, j)
        <4> PICK p \in Printers, j \in Jobs : Remove(t, p, j)
          BY <3>2
        <4>1. jobs[p] \in Seq(Jobs)
          BY <1>2 DEF IInv, TypeOK, Queues
        <4>2. PICK queue \in Seq(Jobs) : Mutate(t, p, queue)
          BY <4>1, RemovalLeavesQueue DEF Remove
        <4> QED
          BY <1>2, <4>2, MutateIsChange DEF Durable!Next
      <3>3. CASE \E p \in Printers, ids \in Orders : Reorder(t, p, ids)
        BY <1>2, <3>3, OrdersAreSequences, MutateIsChange DEF Reorder, Durable!Next
      <3>4. CASE TakeSnapshot(t) \/ SaveFails(t)
        BY <3>4 DEF TakeSnapshot, SaveFails
      <3>5. CASE Save(t)
        BY <1>2, <3>5 DEF Save, IInv, Snapshots, Durable!Next, Durable!Sync
      <3> QED
        BY <2>1, <3>1, <3>2, <3>3, <3>4, <3>5 DEF Step
    <2>2. CASE Restart
      BY <2>2 DEF Restart, Durable!Next, Durable!Restart
    <2>3. CASE UNCHANGED vars
      BY <2>3 DEF vars
    <2> QED
      BY <1>2, <2>1, <2>2, <2>3 DEF Next
  <1> QED
    BY <1>1, <1>2, Invariance, PTL DEF Spec, IsDurable, Durable!Spec

===========================================================================
