------------------------- MODULE SliceJobs_proofs -------------------------
(***************************************************************************)
(* SliceJobs for any jobs, names, cap and number of threads: there is one  *)
(* worker, and every job lives the life LifeOfAJob describes.  The second  *)
(* rests on the first: only because no other worker is alive does the      *)
(* state of the job a worker holds follow from where that worker is.  From *)
(* both follow the three things kept about jobs: the indexes agree, the    *)
(* history stays bounded, and what is queued has its file.                 *)
(***************************************************************************)
EXTENDS SliceJobs, TLAPS, SequenceTheorems, FiniteSetTheorems,
        NaturalsInduction

\* A worker that lives is the one start() and stop() know of.
HandleIsWorker == \A t \in Threads : Alive(t) => handle = t

States == {"new", "gone"} \cup LiveStates \cup TerminalStates

Typed ==
  /\ state \in [Jobs -> States]
  /\ pending \in Seq(Jobs)
  /\ worker \in [Threads -> Workers]

\* What a worker at  w.pc  knows of the state of its job.
Fits(w, st) ==
  /\ w.pc = "slice" => w.job \in Jobs /\ st[w.job] = "slicing"
  /\ w.pc \in {"upload", "queue"} => w.job \in Jobs /\ st[w.job] = "uploading"
  /\ w.pc = "finish" =>
       /\ w.job \in Jobs
       /\ st[w.job] \in {"slicing", "uploading"}
       /\ w.verdict = "done" => st[w.job] = "uploading"

Phases == \A t \in Threads : Fits(worker[t], state)

IInv == HandleIsWorker /\ Typed /\ Phases

USE SliceAssumption DEF At, Alive, Threads

LEMMA WorkersAreWorkers ==
  ASSUME NEW p \in {"none", "check", "take", "slice", "upload", "queue", "finish",
                    "evict", "exited"},
         NEW j \in Jobs \cup {NoJob}, NEW v \in {"done", "failed"}
  PROVE  /\ Worker(p, j, v) \in Workers
         /\ Worker(p, j, v).pc = p
         /\ Worker(p, j, v).job = j
         /\ Worker(p, j, v).verdict = v
  BY DEF Worker, Workers

LEMMA InitHolds == Init => IInv
  <1> SUFFICES ASSUME Init PROVE IInv
    OBVIOUS
  <1>1. \A t \in Threads : worker[t] \in Workers /\ worker[t].pc = "none"
    BY WorkersAreWorkers DEF Init
  <1>2. HandleIsWorker /\ Phases
    BY <1>1 DEF HandleIsWorker, Phases, Fits
  <1>3. Typed
    BY <1>1 DEF Init, Typed, States
  <1> QED
    BY <1>2, <1>3 DEF IInv

\* What a step of  Settle  does to the jobs' states.
LEMMA SettleStates ==
  ASSUME NEW st \in [Jobs -> States], Settle(st)
  PROVE  /\ state' \in [Jobs -> States]
         /\ \A k \in Jobs : state'[k] # st[k] =>
              state'[k] = "gone" /\ st[k] \in TerminalStates
  <1>1. \A j \in Jobs : j \in Evicted(st) => st[j] \in TerminalStates
    BY DEF Evicted
  <1> QED
    BY <1>1 DEF Settle, States

\* Steps of start(), stop() and the API leave the jobs that are being worked on.
LEMMA OthersPreservePhases ==
  ASSUME Phases, worker' = worker,
         \A j \in Jobs : state[j] \in {"slicing", "uploading"} => state'[j] = state[j]
  PROVE  Phases'
  BY DEF Phases, Fits

\* Without() keeps the order of what it keeps, and nothing twice.
LEMMA WithoutIs ==
  ASSUME NEW S, NEW list \in Seq(S), NEW old
  PROVE  LET r == Without(list, old)
         IN /\ r \in Seq(S)
            /\ ToSet(r) = ToSet(list) \ old
            /\ IsInjective(list) => IsInjective(r)
  <1> DEFINE kept == {i \in DOMAIN list : list[i] \notin old}
             upto(i) == {m \in kept : m <= i}
             rank == [i \in kept |-> Cardinality(upto(i))]
             n == Cardinality(kept)
             place(k) == CHOOSE i \in kept : Cardinality(upto(i)) = k
             r == [k \in 1..n |-> list[place(k)]]
  <1>1. /\ kept \subseteq 1..Len(list) /\ Len(list) \in Nat
        /\ \A i \in kept : list[i] \in S
    OBVIOUS
  <1>2. IsFiniteSet(kept) /\ n \in Nat
    <2>1. IsFiniteSet(1..Len(list)) /\ kept \in SUBSET (1..Len(list))
      BY <1>1, FS_Interval
    <2> HIDE DEF kept
    <2> QED
      BY <2>1, FS_Subset, FS_CardinalityType
  <1> HIDE DEF kept
  <1>3. \A i \in kept : IsFiniteSet(upto(i)) /\ Cardinality(upto(i)) \in 1..n
    <2> SUFFICES ASSUME NEW i \in kept
                 PROVE  IsFiniteSet(upto(i)) /\ Cardinality(upto(i)) \in 1..n
      OBVIOUS
    <2>1. upto(i) \in SUBSET kept /\ i \in upto(i)
      BY <1>1
    <2> HIDE DEF upto
    <2>2. IsFiniteSet(upto(i)) /\ Cardinality(upto(i)) <= n
      BY <1>2, <2>1, FS_Subset
    <2>3. Cardinality(upto(i)) \in Nat /\ Cardinality(upto(i)) # 0
      BY <2>1, <2>2, FS_CardinalityType, FS_EmptySet
    <2> QED
      BY <1>2, <2>2, <2>3
  <1>4. \A i, j \in kept : i < j => Cardinality(upto(i)) # Cardinality(upto(j))
    <2> SUFFICES ASSUME NEW i \in kept, NEW j \in kept, i < j,
                        Cardinality(upto(i)) = Cardinality(upto(j))
                 PROVE  FALSE
      OBVIOUS
    <2>1. i \in Nat /\ j \in Nat
      BY <1>1
    <2>2. upto(i) \in SUBSET upto(j) /\ j \in upto(j) /\ j \notin upto(i)
      <3>1. \A m \in kept : m \in Nat
        BY <1>1
      <3>2. \A m \in kept : m <= i => m <= j
        BY <2>1, <3>1
      <3>3. j <= j /\ ~(j <= i)
        BY <2>1
      <3> QED
        BY <3>2, <3>3
    <2> HIDE DEF upto
    <2>3. upto(i) = upto(j)
      <3>1. IsFiniteSet(upto(j))
        BY <1>3
      <3> QED
        BY <2>2, <3>1, FS_Subset
    <2> QED
      BY <2>2, <2>3
  <1>5. rank \in Surjection(kept, 1..n)
    <2>1. rank \in [kept -> 1..n]
      BY <1>3
    <2>2. ASSUME NEW i \in kept, NEW j \in kept, rank[i] = rank[j]
          PROVE  i = j
      <3>1. i \in Nat /\ j \in Nat
        BY <1>1
      <3>2. Cardinality(upto(i)) = Cardinality(upto(j))
        BY <2>2
      <3> HIDE DEF upto
      <3> QED
        BY <1>4, <3>1, <3>2
    <2> HIDE DEF rank
    <2>3. rank \in Injection(kept, 1..n)
      BY <2>1, <2>2 DEF Injection, IsInjective
    <2>4. IsFiniteSet(1..n) /\ Cardinality(1..n) = n
      BY <1>2, FS_Interval
    <2> QED
      BY <2>3, <2>4, FS_Injection
  <1>6. \A k \in 1..n : place(k) \in kept /\ Cardinality(upto(place(k))) = k
    <2> SUFFICES ASSUME NEW k \in 1..n
                 PROVE  place(k) \in kept /\ Cardinality(upto(place(k))) = k
      OBVIOUS
    <2>1. \E i \in kept : rank[i] = k
      BY <1>5 DEF Surjection
    <2>2. \E i \in kept : Cardinality(upto(i)) = k
      BY <2>1
    <2> HIDE DEF upto
    <2> QED
      BY <2>2
  <1>7. \A i \in kept : Cardinality(upto(i)) \in 1..n /\ place(Cardinality(upto(i))) = i
    <2> SUFFICES ASSUME NEW i \in kept
                 PROVE  place(Cardinality(upto(i))) = i
      BY <1>3
    <2>1. place(Cardinality(upto(i))) \in kept /\
          Cardinality(upto(place(Cardinality(upto(i))))) = Cardinality(upto(i))
      BY <1>3, <1>6
    <2> DEFINE j == place(Cardinality(upto(i)))
    <2>2. j \in kept /\ Cardinality(upto(j)) = Cardinality(upto(i))
      BY <2>1
    <2> HIDE DEF j, upto
    <2>3. j = i
      BY <1>1, <1>4, <2>2
    <2> QED
      BY <2>3 DEF j
  <1>8. Without(list, old) = r
    BY DEF Without, kept
  <1> HIDE DEF place, upto
  <1>9. /\ r \in Seq(S) /\ DOMAIN r = 1..n
        /\ \A k \in 1..n : r[k] = list[place(k)]
    <2>1. \A k \in 1..n : list[place(k)] \in S
      BY <1>1, <1>6
    <2> QED
      BY <1>2, <2>1
  <1> HIDE DEF r
  <1>10. ToSet(r) = {list[i] : i \in kept}
    BY <1>6, <1>7, <1>9 DEF ToSet
  <1>11. {list[i] : i \in kept} = ToSet(list) \ old
    BY DEF kept, ToSet
  <1>12. ASSUME IsInjective(list)
         PROVE  IsInjective(r)
    <2>1. \A i, j \in kept : list[i] = list[j] => i = j
      BY <1>12 DEF IsInjective, kept
    <2>2. \A k, m \in 1..n : r[k] = r[m] => k = m
      BY <1>6, <1>9, <2>1
    <2> QED
      BY <1>9, <2>2 DEF IsInjective
  <1> QED
    BY <1>8, <1>9, <1>10, <1>11, <1>12

\* A step of the worker t that takes it to w.
LEMMA WorkerStep ==
  ASSUME IInv, NEW t \in Threads, NEW w \in Workers, Alive(t), w.pc # "none",
         GoesTo(t, w), handle' = handle,
         state' \in [Jobs -> States], pending' \in Seq(Jobs), Fits(w, state')
  PROVE  IInv'
  <1> USE DEF IInv
  <1>1. /\ worker' \in [Threads -> Workers] /\ worker'[t] = w
        /\ \A u \in Threads \ {t} : worker'[u] = worker[u] /\ ~Alive(u)
    BY DEF GoesTo, Typed, HandleIsWorker
  <1>2. HandleIsWorker'
    BY <1>1 DEF HandleIsWorker
  <1>3. Typed'
    BY <1>1 DEF Typed
  <1>4. Phases'
    BY <1>1 DEF Phases, Fits
  <1> QED
    BY <1>2, <1>3, <1>4

\* The edges of Transitions, and the changes of several jobs at once.
Lives == \A j \in Jobs : state'[j] # state[j] => <<state[j], state'[j]>> \in Transitions

LEMMA WorkPreserves ==
  ASSUME IInv, NEW t \in Threads, Work(t)
  PROVE  IInv' /\ Lives
  <1> USE DEF IInv
  <1> DEFINE j == worker[t].job
             v == worker[t].verdict
  <1>1. /\ state \in [Jobs -> States] /\ pending \in Seq(Jobs)
        /\ j \in Jobs \cup {NoJob} /\ v \in {"done", "failed"}
        /\ Fits(worker[t], state)
    BY DEF Typed, Workers, Phases
  <1>2. CASE CheckStop(t)
    <2> PICK p \in {"exited", "take"} : GoesTo(t, Worker(p, j, v))
      BY <1>2 DEF CheckStop, Goto
    <2>1. state' = state /\ pending' = pending /\ handle' = handle /\ Alive(t)
      BY <1>2 DEF CheckStop, index, lifecycle
    <2>2. Fits(Worker(p, j, v), state')
      BY <1>1, WorkersAreWorkers DEF Fits
    <2> QED
      BY <1>1, <2>1, <2>2, WorkersAreWorkers, WorkerStep, SMTT(40) DEF Lives
  <1>3. CASE Take(t)
    <2>1. handle' = handle /\ Alive(t)
      BY <1>3 DEF Take, lifecycle
    <2>2. CASE Goto(t, "check") /\ state' = state /\ pending' \in Seq(Jobs)
      <3>1. Fits(Worker("check", j, v), state')
        BY <1>1, WorkersAreWorkers DEF Fits
      <3>2. GoesTo(t, Worker("check", j, v)) /\ Lives
        BY <2>2 DEF Goto, Lives
      <3>3. Worker("check", j, v) \in Workers /\ Worker("check", j, v).pc # "none"
        BY <1>1, WorkersAreWorkers
      <3> QED
        BY <1>1, <2>1, <2>2, <3>1, <3>2, <3>3, WorkerStep
    <2>3. CASE /\ pending # <<>> /\ pending' = Tail(pending)
               /\ state[Head(pending)] = "queued"
               /\ state' = [state EXCEPT ![Head(pending)] = "slicing"]
               /\ GoesTo(t, Worker("slice", Head(pending), "failed"))
      <3>1. Head(pending) \in Jobs /\ pending' \in Seq(Jobs)
        BY <1>1, <2>3
      <3>2. state' \in [Jobs -> States] /\ Lives
        BY <1>1, <2>3, <3>1 DEF States, LiveStates, Lives, Transitions
      <3>3. Fits(Worker("slice", Head(pending), "failed"), state')
        BY <1>1, <2>3, <3>1, WorkersAreWorkers DEF Fits
      <3>4. /\ Worker("slice", Head(pending), "failed") \in Workers
            /\ Worker("slice", Head(pending), "failed").pc # "none"
        BY <3>1, WorkersAreWorkers
      <3> QED
        BY <2>1, <2>3, <3>1, <3>2, <3>3, <3>4, WorkerStep
    <2>4. pending # <<>> => Tail(pending) \in Seq(Jobs)
      BY <1>1
    <2> QED
      BY <1>1, <1>3, <2>2, <2>3, <2>4 DEF Take
  <1>4. CASE Slice(t)
    <2>1. /\ handle' = handle /\ Alive(t) /\ pending' = pending
          /\ j \in Jobs /\ state[j] = "slicing"
      BY <1>1, <1>4 DEF Slice, lifecycle, index, Fits
    <2>2. CASE state' = [state EXCEPT ![j] = "uploading"] /\ Goto(t, "upload")
      <3>1. state' \in [Jobs -> States] /\ Lives
        BY <1>1, <2>1, <2>2 DEF States, LiveStates, Lives, Transitions
      <3>2. Fits(Worker("upload", j, v), state')
        BY <1>1, <2>1, <2>2, WorkersAreWorkers DEF Fits
      <3>3. GoesTo(t, Worker("upload", j, v))
        BY <2>2 DEF Goto
      <3>4. Worker("upload", j, v) \in Workers /\ Worker("upload", j, v).pc # "none"
        BY <1>1, WorkersAreWorkers
      <3> QED
        BY <1>1, <2>1, <3>1, <3>2, <3>3, <3>4, WorkerStep
    <2>3. CASE state' = state /\ Verdict(t, "failed")
      <3>1. Fits(Worker("finish", j, "failed"), state')
        BY <1>1, <2>1, <2>3, WorkersAreWorkers DEF Fits
      <3> QED
        BY <1>1, <2>1, <2>3, <3>1, WorkersAreWorkers, WorkerStep DEF Verdict, Lives
    <2> QED
      BY <1>4, <2>2, <2>3 DEF Slice
  <1>5. CASE Upload(t) \/ AddToQueue(t)
    <2>1. /\ handle' = handle /\ Alive(t) /\ pending' = pending /\ state' = state
          /\ j \in Jobs /\ state[j] = "uploading"
      BY <1>1, <1>5 DEF Upload, AddToQueue, lifecycle, index, Fits
    <2>2. PICK w \in {Worker("queue", j, v), Worker("finish", j, "failed"),
                     Worker("finish", j, "done")} : GoesTo(t, w)
      BY <1>5 DEF Upload, AddToQueue, Goto, Verdict
    <2>4. w \in Workers /\ w.pc # "none"
      BY <1>1, <2>2, WorkersAreWorkers
    <2>3. /\ Fits(Worker("queue", j, v), state')
          /\ Fits(Worker("finish", j, "failed"), state')
          /\ Fits(Worker("finish", j, "done"), state')
      BY <1>1, <2>1, WorkersAreWorkers DEF Fits
    <2> QED
      BY <1>1, <2>1, <2>2, <2>3, <2>4, WorkerStep DEF Lives
  <1>6. CASE Finish(t)
    <2>1. /\ handle' = handle /\ Alive(t) /\ pending' = pending
          /\ j \in Jobs /\ <<state[j], v>> \in Transitions
          /\ state' = [state EXCEPT ![j] = v]
          /\ GoesTo(t, Worker("evict", j, v))
      BY <1>1, <1>6 DEF Finish, lifecycle, index, Fits, Transitions, Goto
    <2>2. state' \in [Jobs -> States] /\ Lives
      BY <1>1, <2>1 DEF States, TerminalStates, Lives
    <2>3. Fits(Worker("evict", j, v), state')
      BY <1>1, WorkersAreWorkers DEF Fits
    <2>4. Worker("evict", j, v) \in Workers /\ Worker("evict", j, v).pc # "none"
      BY <1>1, WorkersAreWorkers
    <2> QED
      BY <1>1, <2>1, <2>2, <2>3, <2>4, WorkerStep
  <1>7. CASE Evict(t)
    <2>1. /\ handle' = handle /\ Alive(t) /\ pending' = pending
          /\ Settle(state) /\ GoesTo(t, Worker("check", NoJob, "failed"))
      BY <1>7 DEF Evict, lifecycle, Working
    <2>2. state' \in [Jobs -> States] /\ Lives
      BY <1>1, <2>1, SettleStates DEF Lives, Transitions
    <2>3. Fits(Worker("check", NoJob, "failed"), state')
      BY WorkersAreWorkers DEF Fits
    <2> QED
      BY <1>1, <2>1, <2>2, <2>3, WorkersAreWorkers, WorkerStep
  <1> QED
    BY <1>2, <1>3, <1>4, <1>5, <1>6, <1>7 DEF Work

LEMMA NextPreserves ==
  ASSUME IInv, [Next]_vars
  PROVE  IInv' /\ Lives
  <1> USE DEF IInv
  <1>1. CASE Start
    <2>1. /\ \A t \in Threads : ~Alive(t)
          /\ state' = state /\ pending' = pending
      BY <1>1 DEF Start, HandleIsWorker, index
    <2> PICK t \in Threads : handle' = t /\ worker' = [worker EXCEPT ![t] = Working]
      BY <1>1 DEF Start
    <2>2. Working \in Workers /\ Fits(Working, state')
      BY WorkersAreWorkers DEF Working, Fits
    <2>3. HandleIsWorker' /\ Typed'
      BY <2>1, <2>2 DEF HandleIsWorker, Typed
    <2>4. Phases'
      BY <2>1, <2>2 DEF Phases, Typed
    <2> QED
      BY <2>1, <2>3, <2>4 DEF Lives
  <1>2. CASE Stop \/ Joined
    <2>1. state' = state /\ pending' = pending /\ worker' = worker
      BY <1>2 DEF Stop, Joined, index
    <2>2. HandleIsWorker'
      BY <1>2 DEF Stop, Joined, HandleIsWorker
    <2> QED
      BY <2>1, <2>2, OthersPreservePhases DEF Typed, Lives
  <1>3. CASE \E j \in Jobs : Submit(j) \/ CancelQueued(j) \/ ClearFinished(j)
    <2> PICK j \in Jobs : Submit(j) \/ CancelQueued(j) \/ ClearFinished(j)
      BY <1>3
    <2>1. worker' = worker /\ handle' = handle
      BY DEF Submit, CancelQueued, ClearFinished, lifecycle
    <2>2. CASE Submit(j)
      <3>1. pending' \in Seq(Jobs) /\ state' \in [Jobs -> States] /\ Lives
        BY <2>2 DEF Typed, Submit, States, LiveStates, Lives, Transitions
      <3>2. \A k \in Jobs : state[k] \in {"slicing", "uploading"} => state'[k] = state[k]
        BY <2>2 DEF Typed, Submit
      <3> QED
        BY <2>1, <3>1, <3>2, OthersPreservePhases DEF HandleIsWorker, Typed
    <2>3. CASE CancelQueued(j)
      <3> DEFINE st == [state EXCEPT ![j] = "cancelled"]
      <3>1. st \in [Jobs -> States] /\ state[j] = "queued" /\ Settle(st)
        BY <2>3 DEF Typed, CancelQueued, States, TerminalStates
      <3>2. st[j] = "cancelled" /\ \A k \in Jobs \ {j} : st[k] = state[k]
        BY DEF Typed
      <3> HIDE DEF st
      <3>3. state' \in [Jobs -> States]
        BY <3>1, SettleStates
      <3>4. \A k \in Jobs : state'[k] # st[k] =>
              state'[k] = "gone" /\ st[k] \in TerminalStates
        BY <3>1, SettleStates
      <3>5. Lives
        BY <3>1, <3>2, <3>4 DEF Lives, Transitions, TerminalStates
      <3>6. \A k \in Jobs : state[k] \in {"slicing", "uploading"} => state'[k] = state[k]
        BY <3>1, <3>2, <3>4 DEF TerminalStates
      <3>7. pending' \in Seq(Jobs)
        BY <2>3, WithoutIs DEF Typed, CancelQueued
      <3> QED
        BY <2>1, <3>3, <3>5, <3>6, <3>7, OthersPreservePhases DEF HandleIsWorker, Typed
    <2>4. CASE ClearFinished(j)
      <3>1. pending' \in Seq(Jobs) /\ state' \in [Jobs -> States] /\ Lives
        BY <2>4 DEF Typed, ClearFinished, States, Lives, Transitions
      <3>2. \A k \in Jobs : state[k] \in {"slicing", "uploading"} => state'[k] = state[k]
        BY <2>4 DEF Typed, ClearFinished, TerminalStates
      <3> QED
        BY <2>1, <3>1, <3>2, OthersPreservePhases DEF HandleIsWorker, Typed
    <2> QED
      BY <2>2, <2>3, <2>4
  <1>4. CASE \E t \in Threads : Work(t)
    BY <1>4, WorkPreserves
  <1>5. CASE UNCHANGED vars
    <2>1. /\ state' = state /\ pending' = pending /\ worker' = worker /\ handle' = handle
      BY <1>5 DEF vars, index, lifecycle
    <2> QED
      BY <2>1, OthersPreservePhases DEF HandleIsWorker, Typed, Lives
  <1> QED
    BY <1>1, <1>2, <1>3, <1>4, <1>5 DEF Next

\* The inductive invariant holds in every reachable state.
THEOREM Invariance == Spec => []IInv
  BY InitHolds, NextPreserves, PTL DEF Spec

\* One worker, globally: no order of start() and stop(), joins that time out
\* included, leaves two workers alive.
THEOREM SingleWorker == Spec => []OneWorker
  <1>1. IInv => OneWorker
    BY DEF IInv, HandleIsWorker, OneWorker
  <1> QED
    BY <1>1, Invariance, PTL

\* Jobs only move forward, a verdict is final, live work is never evicted.
THEOREM Life == Spec => LifeOfAJob
  <1>1. IInv /\ [Next]_vars => [Lives]_vars
    BY NextPreserves
  <1> QED
    BY <1>1, Invariance, PTL DEF Spec, LifeOfAJob, Lives

---------------------------------------------------------------------------
(* The records: the indexes agree, history is bounded, and what the queue   *)
(* was given has its file.                                                 *)

Indexed == order \in Seq(Jobs) /\ IndexesAgree

\* The jobs whose record is kept, and those among them that have finished.
Recorded(st) == {j \in Jobs : st[j] \notin {"new", "gone"}}
Finished(st) == {j \in Jobs : st[j] \in TerminalStates}
Evicting == {t \in Threads : At(t, "evict")}

LEMMA EvictedAre ==
  ASSUME order \in Seq(Jobs), NEW st \in [Jobs -> States]
  PROVE  Evicted(st) \subseteq ToSet(order) \cap Finished(st)
  <1> SUFFICES ASSUME NEW j \in Evicted(st)
               PROVE  j \in ToSet(order) /\ j \in Finished(st)
    OBVIOUS
  <1>1. PICK i \in DOMAIN order : j = order[i] /\ st[order[i]] \in TerminalStates
    BY DEF Evicted
  <1>2. order[i] \in Jobs
    BY <1>1
  <1> QED
    BY <1>1, <1>2 DEF ToSet, Finished

\* _order and _jobs are of one length again when the eviction is over.
LEMMA SettleIndexes ==
  ASSUME order \in Seq(Jobs), IsInjective(order), NEW st \in [Jobs -> States],
         ToSet(order) = Recorded(st), Settle(st)
  PROVE  /\ order' \in Seq(Jobs) /\ IsInjective(order')
         /\ ToSet(order') = Recorded(state')
         /\ \A j \in Jobs : state'[j] = IF j \in Evicted(st) THEN "gone" ELSE st[j]
  <1>1. /\ order' = Without(order, Evicted(st))
        /\ \A j \in Jobs : state'[j] = IF j \in Evicted(st) THEN "gone" ELSE st[j]
    BY DEF Settle
  <1>2. Recorded(state') = Recorded(st) \ Evicted(st)
    BY <1>1, EvictedAre DEF Recorded
  <1> QED
    BY <1>1, <1>2, WithoutIs

\* A set of numbers that is not empty has a least one.
LEMMA Least ==
  ASSUME NEW K \in SUBSET Nat, K # {}
  PROVE  \E k \in K : \A m \in K : k <= m
  <1> DEFINE less == OpToRel(<, Nat)
  <1>1. IsWellFoundedOn(less, Nat)
    BY NatLessThanWellFounded
  <1>2. PICK k \in K : \A m \in K : <<m, k>> \notin less
    <2> HIDE DEF less
    <2> QED
      BY <1>1, WFMin
  <1>3. \A m \in K : ~(m < k)
    BY <1>2 DEF OpToRel
  <1> QED
    BY <1>3

\* Those left after an eviction are so few that the oldest one has fewer than
\* MaxFinished after it.
LEMMA SettleBounds ==
  ASSUME order \in Seq(Jobs), IsInjective(order), NEW st \in [Jobs -> States],
         ToSet(order) = Recorded(st), Settle(st)
  PROVE  /\ IsFiniteSet(Finished(state'))
         /\ Cardinality(Finished(state')) <= MaxFinished
  <1> DEFINE finished == {i \in DOMAIN order : st[order[i]] \in TerminalStates}
             newer(i) == {n \in finished : n > i}
             kept == {i \in finished : ~(Cardinality(newer(i)) >= MaxFinished)}
             f == [i \in kept |-> order[i]]
  <1>1. IsFiniteSet(finished) /\ finished \in SUBSET Nat
    <2>1. finished \in SUBSET (1..Len(order)) /\ Len(order) \in Nat
      OBVIOUS
    <2> HIDE DEF finished
    <2>2. IsFiniteSet(1..Len(order))
      BY <2>1, FS_Interval
    <2>3. finished \in SUBSET Nat
      BY <2>1
    <2> QED
      BY <2>1, <2>2, <2>3, FS_Subset
  <1>2. \A j \in Finished(state') : \E i \in kept : order[i] = j
    <2> SUFFICES ASSUME NEW j \in Finished(state')
                 PROVE  \E i \in kept : order[i] = j
      OBVIOUS
    <2>1. j \in Jobs /\ j \notin Evicted(st) /\ st[j] \in TerminalStates
      BY SettleIndexes DEF Finished, TerminalStates
    <2>2. PICK i \in DOMAIN order : order[i] = j
      BY <2>1 DEF Recorded, TerminalStates, ToSet
    <2>3. i \in finished
      BY <2>1, <2>2
    <2>4. ~(Cardinality(newer(i)) >= MaxFinished)
      BY <2>1, <2>2, <2>3 DEF Evicted
    <2> QED
      BY <2>2, <2>3, <2>4
  <1>3. \A i \in kept : order[i] \in Finished(state')
    <2> SUFFICES ASSUME NEW i \in kept
                 PROVE  order[i] \in Finished(state')
      OBVIOUS
    <2>1. order[i] \in Jobs /\ st[order[i]] \in TerminalStates /\ i \in DOMAIN order
      OBVIOUS
    <2>2. order[i] \notin Evicted(st)
      <3> SUFFICES ASSUME NEW k \in finished, Cardinality(newer(k)) >= MaxFinished,
                          order[k] = order[i]
                   PROVE  FALSE
        BY DEF Evicted
      <3>1. k = i
        BY <2>1 DEF IsInjective
      <3> QED
        BY <3>1
    <2> QED
      BY <2>1, <2>2, SettleIndexes DEF Finished
  <1> HIDE DEF finished
  <1>4. kept \in SUBSET finished /\ IsFiniteSet(kept)
    <2>1. kept \in SUBSET finished
      OBVIOUS
    <2> HIDE DEF kept
    <2> QED
      BY <1>1, <2>1, FS_Subset
  <1>5. Cardinality(kept) \in Nat /\ Cardinality(kept) <= MaxFinished
    <2>1. CASE kept = {}
      <3> HIDE DEF kept
      <3>1. Cardinality(kept) = 0
        BY <2>1, FS_EmptySet
      <3> QED
        BY <3>1
    <2>2. CASE kept # {}
      <3>1. PICK k \in kept : \A m \in kept : k <= m
        BY <1>1, <1>4, <2>2, Least
      <3>2. newer(k) \in SUBSET finished
        OBVIOUS
      <3>3. ~(Cardinality(newer(k)) >= MaxFinished)
        OBVIOUS
      <3>4. kept \ {k} \in SUBSET newer(k)
        <4> SUFFICES ASSUME NEW m \in kept, m # k
                     PROVE  m \in finished /\ m > k
          OBVIOUS
        <4>1. m \in finished /\ m \in Nat /\ k \in Nat /\ k <= m
          BY <1>1, <1>4, <3>1
        <4> QED
          BY <4>1
      <3> HIDE DEF newer, kept
      <3>5. IsFiniteSet(newer(k))
        BY <1>1, <3>2, FS_Subset
      <3>6. Cardinality(kept \ {k}) <= Cardinality(newer(k))
        BY <3>4, <3>5, FS_Subset
      <3>7. Cardinality(kept \ {k}) = Cardinality(kept) - 1
        BY <1>4, FS_RemoveElement
      <3>8. Cardinality(kept) \in Nat /\ Cardinality(newer(k)) \in Nat
        BY <1>4, <3>5, FS_CardinalityType
      <3> QED
        BY <3>3, <3>6, <3>7, <3>8
    <2> QED
      BY <2>1, <2>2
  <1> HIDE DEF kept
  <1>6. f \in Surjection(kept, Finished(state'))
    BY <1>2, <1>3 DEF Surjection
  <1>7. /\ IsFiniteSet(Finished(state'))
        /\ Cardinality(Finished(state')) <= Cardinality(kept)
    <2> HIDE DEF f
    <2> QED
      BY <1>4, <1>6, FS_Surjection
  <1> QED
    BY <1>5, <1>7, FS_CardinalityType

LEMMA SameIndexes ==
  ASSUME Indexed, order' = order, pending' = pending,
         \A j \in Jobs : /\ state'[j] = "queued" <=> state[j] = "queued"
                         /\ state'[j] \in {"new", "gone"} <=> state[j] \in {"new", "gone"}
  PROVE  Indexed'
  BY DEF Indexed, IndexesAgree

LEMMA AppendIs ==
  ASSUME NEW S, NEW list \in Seq(S), NEW e \in S, e \notin ToSet(list), IsInjective(list)
  PROVE  LET r == Append(list, e)
         IN r \in Seq(S) /\ ToSet(r) = ToSet(list) \cup {e} /\ IsInjective(r)
  <1> DEFINE r == Append(list, e)
  <1>1. /\ r \in Seq(S) /\ DOMAIN r = 1..(Len(list) + 1) /\ Len(list) \in Nat
        /\ \A i \in 1..Len(list) : r[i] = list[i] /\ list[i] # e
        /\ r[Len(list) + 1] = e
    BY DEF ToSet
  <1> HIDE DEF r
  <1>2. \A i \in DOMAIN r : i \in 1..Len(list) \/ i = Len(list) + 1
    BY <1>1
  <1>3. ToSet(r) = ToSet(list) \cup {e}
    BY <1>1, <1>2 DEF ToSet
  <1>4. IsInjective(r)
    BY <1>1, <1>2 DEF IsInjective
  <1> QED
    BY <1>1, <1>3, <1>4 DEF r

LEMMA TailIs ==
  ASSUME NEW S, NEW list \in Seq(S), list # <<>>, IsInjective(list)
  PROVE  /\ Head(list) \in ToSet(list)
         /\ Tail(list) \in Seq(S) /\ IsInjective(Tail(list))
         /\ ToSet(Tail(list)) = ToSet(list) \ {Head(list)}
  <1> DEFINE r == Tail(list)
             n == Len(list)
  <1>1. /\ r \in Seq(S) /\ DOMAIN r = 1..(n - 1) /\ n \in Nat \ {0}
        /\ \A i \in 1..(n - 1) : r[i] = list[i + 1]
        /\ Head(list) = list[1] /\ DOMAIN list = 1..n
    OBVIOUS
  <1> HIDE DEF r, n
  <1>2. \A i \in 1..n : i = 1 \/ i - 1 \in 1..(n - 1)
    <2>1. n \in Nat
      BY <1>1
    <2> QED
      BY <2>1
  <1>3. \A i, k \in 1..n : list[i] = list[k] => i = k
    BY <1>1 DEF IsInjective
  <1>4. \A i \in 1..(n - 1) : i + 1 \in 1..n /\ i + 1 # 1
    <2>1. n \in Nat
      BY <1>1
    <2> QED
      BY <2>1
  <1>5. ToSet(r) \subseteq ToSet(list) \ {Head(list)}
    <2> SUFFICES ASSUME NEW i \in 1..(n - 1)
                 PROVE  r[i] \in ToSet(list) /\ r[i] # Head(list)
      BY <1>1 DEF ToSet
    <2>1. i + 1 \in 1..n /\ i + 1 # 1 /\ 1 \in 1..n
      BY <1>1, <1>4
    <2> QED
      BY <1>1, <1>3, <2>1 DEF ToSet
  <1>6. ToSet(list) \ {Head(list)} \subseteq ToSet(r)
    <2>1. ASSUME NEW i \in 1..n, list[i] # list[1]
          PROVE  \E k \in 1..(n - 1) : r[k] = list[i]
      <3>1. i - 1 \in 1..(n - 1) /\ (i - 1) + 1 = i
        BY <1>1, <1>2, <2>1
      <3> QED
        BY <1>1, <3>1
    <2>2. /\ ToSet(list) = {list[i] : i \in 1..n}
          /\ ToSet(r) = {r[k] : k \in 1..(n - 1)}
      BY <1>1 DEF ToSet
    <2>3. Head(list) = list[1]
      BY <1>1
    <2> QED
      BY <2>1, <2>2, <2>3
  <1>7. IsInjective(r)
    <2> SUFFICES ASSUME NEW i \in 1..(n - 1), NEW k \in 1..(n - 1), r[i] = r[k]
                 PROVE  i = k
      BY <1>1 DEF IsInjective
    <2>1. i + 1 = k + 1
      BY <1>1, <1>3, <1>4
    <2> QED
      BY <2>1
  <1>8. Head(list) \in ToSet(list)
    BY <1>1 DEF ToSet
  <1> QED
    BY <1>1, <1>5, <1>6, <1>7, <1>8 DEF r

LEMMA WorkIndexes ==
  ASSUME IInv, Indexed, NEW t \in Threads, Work(t)
  PROVE  Indexed'
  <1> DEFINE j == worker[t].job
  <1>1. /\ state \in [Jobs -> States] /\ pending \in Seq(Jobs) /\ Fits(worker[t], state)
        /\ worker[t] \in Workers
    BY DEF IInv, Typed, Phases
  <1>2. CASE CheckStop(t) \/ Upload(t) \/ AddToQueue(t)
    BY <1>2, SameIndexes DEF CheckStop, Upload, AddToQueue, index
  <1>3. CASE Take(t)
    <2>1. CASE pending = <<>>
      BY <1>3, <2>1, SameIndexes DEF Take
    <2>2. CASE pending # <<>>
      <3> DEFINE h == Head(pending)
      <3>1. /\ h \in ToSet(pending) /\ Tail(pending) \in Seq(Jobs)
            /\ IsInjective(Tail(pending)) /\ ToSet(Tail(pending)) = ToSet(pending) \ {h}
        BY <1>1, <2>2, TailIs DEF Indexed, IndexesAgree
      <3>2. h \in Jobs /\ state[h] = "queued"
        BY <3>1 DEF Indexed, IndexesAgree
      <3>3. /\ pending' = Tail(pending) /\ order' = order
            /\ state' = [state EXCEPT ![h] = "slicing"]
        BY <1>3, <2>2, <3>2 DEF Take
      <3>4. \A k \in Jobs : state'[k] = IF k = h THEN "slicing" ELSE state[k]
        BY <1>1, <3>3
      <3> HIDE DEF h
      <3> QED
        BY <3>1, <3>2, <3>3, <3>4 DEF Indexed, IndexesAgree
    <2> QED
      BY <2>1, <2>2
  <1>4. CASE Slice(t)
    <2>1. /\ order' = order /\ pending' = pending /\ j \in Jobs /\ state[j] = "slicing"
          /\ state' = [state EXCEPT ![j] = "uploading"] \/ state' = state
      BY <1>1, <1>4 DEF Slice, index, Fits
    <2>2. \A k \in Jobs : \/ state'[k] = state[k]
                          \/ state[k] = "slicing" /\ state'[k] = "uploading"
      BY <1>1, <2>1
    <2> QED
      BY <2>1, <2>2, SameIndexes
  <1>5. CASE Finish(t)
    <2>1. /\ order' = order /\ pending' = pending /\ j \in Jobs
          /\ state[j] \in {"slicing", "uploading"} /\ worker[t].verdict \in {"done", "failed"}
          /\ state' = [state EXCEPT ![j] = worker[t].verdict]
      BY <1>1, <1>5 DEF Finish, index, Fits, Workers
    <2>2. \A k \in Jobs : \/ state'[k] = state[k]
                          \/ /\ state[k] \in {"slicing", "uploading"}
                             /\ state'[k] \in {"done", "failed"}
      BY <1>1, <2>1
    <2> QED
      BY <2>1, <2>2, SameIndexes
  <1>6. CASE Evict(t)
    <2>1. Settle(state) /\ pending' = pending
      BY <1>6 DEF Evict
    <2>2. order \in Seq(Jobs) /\ IsInjective(order) /\ ToSet(order) = Recorded(state)
      BY DEF Indexed, IndexesAgree, Recorded
    <2>3. \A k \in Jobs : state'[k] = "queued" <=> state[k] = "queued"
      BY <1>1, <2>1, SettleStates DEF TerminalStates
    <2>4. /\ order' \in Seq(Jobs) /\ IsInjective(order')
          /\ ToSet(order') = Recorded(state')
      BY <1>1, <2>1, <2>2, SettleIndexes
    <2> QED
      BY <2>1, <2>3, <2>4 DEF Indexed, IndexesAgree, Recorded
  <1> QED
    BY <1>2, <1>3, <1>4, <1>5, <1>6 DEF Work

LEMMA CancelIs ==
  ASSUME IInv, Indexed, NEW j \in Jobs, CancelQueued(j)
  PROVE  LET st == [state EXCEPT ![j] = "cancelled"]
         IN /\ st \in [Jobs -> States] /\ Settle(st)
            /\ \A k \in Jobs : st[k] = IF k = j THEN "cancelled" ELSE state[k]
            /\ order \in Seq(Jobs) /\ IsInjective(order) /\ ToSet(order) = Recorded(st)
  <1> DEFINE st == [state EXCEPT ![j] = "cancelled"]
  <1>1. st \in [Jobs -> States] /\ state[j] = "queued" /\ Settle(st)
    BY DEF IInv, Typed, CancelQueued, States, TerminalStates
  <1>2. \A k \in Jobs : st[k] = IF k = j THEN "cancelled" ELSE state[k]
    BY DEF IInv, Typed
  <1> HIDE DEF st
  <1>3. Recorded(st) = Recorded(state)
    BY <1>1, <1>2 DEF Recorded
  <1> QED
    BY <1>1, <1>2, <1>3 DEF Indexed, IndexesAgree, Recorded, st

LEMMA IndexesKept ==
  ASSUME IInv, Indexed, [Next]_vars
  PROVE  Indexed'
  <1>1. state \in [Jobs -> States] /\ pending \in Seq(Jobs)
    BY DEF IInv, Typed
  <1>2. /\ order \in Seq(Jobs) /\ IsInjective(order) /\ IsInjective(pending)
        /\ ToSet(pending) = {k \in Jobs : state[k] = "queued"}
        /\ ToSet(order) = {k \in Jobs : state[k] \notin {"new", "gone"}}
    BY DEF Indexed, IndexesAgree
  <1>3. CASE Start \/ Stop \/ Joined \/ UNCHANGED vars
    BY <1>3, SameIndexes DEF Start, Stop, Joined, vars, index
  <1>4. ASSUME NEW j \in Jobs, Submit(j)
        PROVE  Indexed'
    <2>1. /\ state[j] = "new" /\ order' = Append(order, j) /\ pending' = Append(pending, j)
          /\ \A k \in Jobs : state'[k] = IF k = j THEN "queued" ELSE state[k]
      BY <1>1, <1>4 DEF Submit
    <2>2. j \notin ToSet(order) /\ j \notin ToSet(pending)
      BY <1>2, <2>1
    <2>3. /\ order' \in Seq(Jobs) /\ IsInjective(order') /\ ToSet(order') = ToSet(order) \cup {j}
          /\ IsInjective(pending') /\ ToSet(pending') = ToSet(pending) \cup {j}
      BY <1>1, <1>2, <2>1, <2>2, AppendIs
    <2> QED
      BY <1>2, <2>1, <2>3 DEF Indexed, IndexesAgree
  <1>5. ASSUME NEW j \in Jobs, CancelQueued(j)
        PROVE  Indexed'
    <2> DEFINE st == [state EXCEPT ![j] = "cancelled"]
    <2>1. /\ st \in [Jobs -> States] /\ Settle(st)
          /\ \A k \in Jobs : st[k] = IF k = j THEN "cancelled" ELSE state[k]
          /\ ToSet(order) = Recorded(st)
      BY <1>5, CancelIs
    <2> HIDE DEF st
    <2>2. pending' = Without(pending, {j}) /\ state[j] = "queued"
      BY <1>5 DEF CancelQueued
    <2>3. /\ order' \in Seq(Jobs) /\ IsInjective(order') /\ ToSet(order') = Recorded(state')
      BY <1>2, <2>1, SettleIndexes
    <2>4. /\ IsInjective(pending') /\ ToSet(pending') = ToSet(pending) \ {j}
      BY <1>1, <1>2, <2>2, WithoutIs
    <2>5. \A k \in Jobs : state'[k] # st[k] => state'[k] = "gone" /\ st[k] \in TerminalStates
      BY <2>1, SettleStates
    <2>6. \A k \in Jobs : state'[k] = "queued" <=> state[k] = "queued" /\ k # j
      BY <2>1, <2>5 DEF TerminalStates
    <2> QED
      BY <1>2, <2>3, <2>4, <2>6 DEF Indexed, IndexesAgree, Recorded
  <1>6. ASSUME NEW j \in Jobs, ClearFinished(j)
        PROVE  Indexed'
    <2>1. /\ state[j] \in TerminalStates /\ order' = Without(order, {j}) /\ pending' = pending
          /\ \A k \in Jobs : state'[k] = IF k = j THEN "gone" ELSE state[k]
      BY <1>1, <1>6 DEF ClearFinished
    <2>2. order' \in Seq(Jobs) /\ IsInjective(order') /\ ToSet(order') = ToSet(order) \ {j}
      BY <1>2, <2>1, WithoutIs
    <2> QED
      BY <1>2, <2>1, <2>2 DEF Indexed, IndexesAgree, TerminalStates
  <1>7. ASSUME NEW t \in Threads, Work(t)
        PROVE  Indexed'
    BY <1>7, WorkIndexes
  <1> QED
    BY <1>3, <1>4, <1>5, <1>6, <1>7 DEF Next

\* As HistoryBounded has it; the number is one of a finite set.
Bounded == IsFiniteSet(Finished(state)) /\ HistoryBounded

LEMMA EvictingFinite == IsFiniteSet(Evicting) /\ Cardinality(Evicting) \in Nat
  <1>1. IsFiniteSet(Threads) /\ Evicting \in SUBSET Threads
    BY FS_Interval DEF Evicting
  <1> QED
    BY <1>1, FS_Subset, FS_CardinalityType

LEMMA SameBound ==
  ASSUME Bounded, Evicting' = Evicting,
         \A j \in Jobs : state'[j] \in TerminalStates <=> state[j] \in TerminalStates
  PROVE  Bounded'
  <1>1. Finished(state') = Finished(state)
    BY DEF Finished
  <1> QED
    BY <1>1 DEF Bounded, HistoryBounded, Finished, Evicting

LEMMA SettledBound ==
  ASSUME IsFiniteSet(Finished(state')), Cardinality(Finished(state')) <= MaxFinished
  PROVE  Bounded'
  <1>1. Cardinality(Evicting') \in Nat
    <2>1. IsFiniteSet(Threads) /\ Evicting' \in SUBSET Threads
      BY FS_Interval DEF Evicting
    <2> QED
      BY <2>1, FS_Subset, FS_CardinalityType
  <1>2. Cardinality(Finished(state')) \in Nat
    BY FS_CardinalityType
  <1>3. Cardinality(Finished(state')) <= MaxFinished + Cardinality(Evicting')
    BY <1>1, <1>2
  <1> QED
    BY <1>3 DEF Bounded, HistoryBounded, Finished, Evicting

\* The thread t comes to w, the others stay where they are.
LEMMA Goes ==
  ASSUME IInv, NEW t \in Threads, NEW w, GoesTo(t, w)
  PROVE  \A u \in Threads : worker'[u] = IF u = t THEN w ELSE worker[u]
  BY DEF IInv, Typed, GoesTo

LEMMA SameEvicting ==
  ASSUME IInv, NEW t \in Threads, NEW w, GoesTo(t, w), w.pc # "evict", ~At(t, "evict")
  PROVE  Evicting' = Evicting
  BY Goes DEF Evicting

LEMMA WorkBound ==
  ASSUME IInv, Indexed, Bounded, NEW t \in Threads, Work(t)
  PROVE  Bounded'
  <1> DEFINE j == worker[t].job
             v == worker[t].verdict
  <1>1. /\ state \in [Jobs -> States] /\ pending \in Seq(Jobs) /\ Fits(worker[t], state)
        /\ j \in Jobs \cup {NoJob} /\ v \in {"done", "failed"}
    BY DEF IInv, Typed, Phases, Workers
  <1>2. CASE CheckStop(t) \/ Upload(t) \/ AddToQueue(t)
    <2>1. state' = state /\ ~At(t, "evict")
      BY <1>2 DEF CheckStop, Upload, AddToQueue
    <2>2. PICK w \in {Worker("exited", j, v), Worker("take", j, v), Worker("queue", j, v),
                      Worker("finish", j, "failed"), Worker("finish", j, "done")} :
            GoesTo(t, w)
      BY <1>2 DEF CheckStop, Upload, AddToQueue, Goto, Verdict
    <2>3. w.pc # "evict"
      BY <1>1, <2>2, WorkersAreWorkers
    <2>4. Evicting' = Evicting
      BY <2>1, <2>2, <2>3, SameEvicting
    <2> QED
      BY <2>1, <2>4, SameBound
  <1>3. CASE Take(t)
    <2>1. ~At(t, "evict")
      BY <1>3 DEF Take
    <2>2. \A k \in Jobs : \/ state'[k] = state[k]
                          \/ state[k] = "queued" /\ state'[k] = "slicing"
      <3>1. pending # <<>> => Head(pending) \in Jobs
        BY <1>1
      <3> QED
        BY <1>1, <1>3, <3>1 DEF Take
    <2>3. PICK w \in {Worker("check", j, v), Worker("slice", Head(pending), "failed")} :
            GoesTo(t, w)
      BY <1>3 DEF Take, Goto
    <2>4. w.pc # "evict"
      BY <2>3 DEF Worker
    <2>5. Evicting' = Evicting
      BY <2>1, <2>3, <2>4, SameEvicting
    <2> QED
      BY <2>2, <2>5, SameBound DEF TerminalStates
  <1>4. CASE Slice(t)
    <2>1. ~At(t, "evict") /\ j \in Jobs /\ state[j] = "slicing"
      BY <1>1, <1>4 DEF Slice, Fits
    <2>2. \A k \in Jobs : \/ state'[k] = state[k]
                          \/ state[k] = "slicing" /\ state'[k] = "uploading"
      BY <1>1, <1>4, <2>1 DEF Slice
    <2>3. PICK w \in {Worker("upload", j, v), Worker("finish", j, "failed")} : GoesTo(t, w)
      BY <1>4 DEF Slice, Goto, Verdict
    <2>4. w.pc # "evict"
      BY <2>3 DEF Worker
    <2>5. Evicting' = Evicting
      BY <2>1, <2>3, <2>4, SameEvicting
    <2> QED
      BY <2>2, <2>5, SameBound DEF TerminalStates
  <1>5. CASE Finish(t)
    <2>1. /\ j \in Jobs /\ At(t, "finish") /\ GoesTo(t, Worker("evict", j, v))
          /\ state' = [state EXCEPT ![j] = v]
      BY <1>1, <1>5 DEF Finish, Fits, Goto
    <2>2. Finished(state') = Finished(state) \cup {j}
      BY <1>1, <2>1 DEF Finished, TerminalStates
    <2>3. Evicting' = Evicting \cup {t} /\ t \notin Evicting
      BY <2>1, Goes DEF Evicting, Worker
    <2>4. /\ IsFiniteSet(Finished(state')) /\ Cardinality(Finished(state)) \in Nat
          /\ Cardinality(Finished(state')) <= Cardinality(Finished(state)) + 1
      <3>1. IsFiniteSet(Finished(state)) /\ Cardinality(Finished(state)) \in Nat
        BY FS_CardinalityType DEF Bounded
      <3>2. /\ IsFiniteSet(Finished(state) \cup {j})
            /\ \/ Cardinality(Finished(state) \cup {j}) = Cardinality(Finished(state))
               \/ Cardinality(Finished(state) \cup {j}) = Cardinality(Finished(state)) + 1
        BY <3>1, FS_AddElement
      <3> QED
        BY <2>2, <3>1, <3>2
    <2>5. Cardinality(Evicting') = Cardinality(Evicting) + 1 /\ Cardinality(Evicting) \in Nat
      BY <2>3, EvictingFinite, FS_AddElement
    <2>6. Cardinality(Finished(state)) <= MaxFinished + Cardinality(Evicting)
      BY DEF Bounded, HistoryBounded, Finished, Evicting
    <2>7. Cardinality(Finished(state')) \in Nat
      BY <2>4, FS_CardinalityType
    <2>8. Cardinality(Finished(state')) <= MaxFinished + Cardinality(Evicting')
      BY <2>4, <2>5, <2>6, <2>7
    <2> QED
      BY <2>4, <2>8 DEF Bounded, HistoryBounded, Finished, Evicting
  <1>6. CASE Evict(t)
    <2>1. Settle(state)
      BY <1>6 DEF Evict
    <2>2. order \in Seq(Jobs) /\ IsInjective(order) /\ ToSet(order) = Recorded(state)
      BY DEF Indexed, IndexesAgree, Recorded
    <2>3. /\ IsFiniteSet(Finished(state')) /\ Cardinality(Finished(state')) <= MaxFinished
      BY <1>1, <2>1, <2>2, SettleBounds
    <2> QED
      BY <2>3, SettledBound
  <1> QED
    BY <1>2, <1>3, <1>4, <1>5, <1>6 DEF Work

LEMMA BoundKept ==
  ASSUME IInv, Indexed, Bounded, [Next]_vars
  PROVE  Bounded'
  <1>1. state \in [Jobs -> States]
    BY DEF IInv, Typed
  <1>2. CASE Stop \/ Joined \/ UNCHANGED vars
    <2>1. state' = state /\ worker' = worker
      BY <1>2 DEF Stop, Joined, vars
    <2> QED
      BY <2>1, SameBound DEF Evicting
  <1>3. CASE Start
    <2>1. state' = state
      BY <1>3 DEF Start
    <2>2. PICK t \in Threads : At(t, "none") /\ GoesTo(t, Working)
      BY <1>3 DEF Start, GoesTo
    <2>3. Evicting' = Evicting
      BY <2>2, SameEvicting DEF Working, Worker
    <2> QED
      BY <2>1, <2>3, SameBound
  <1>4. ASSUME NEW j \in Jobs, Submit(j)
        PROVE  Bounded'
    <2>1. \A k \in Jobs : \/ state'[k] = state[k]
                          \/ state[k] = "new" /\ state'[k] = "queued"
      BY <1>1, <1>4 DEF Submit
    <2>2. worker' = worker
      BY <1>4 DEF Submit
    <2> QED
      BY <2>1, <2>2, SameBound DEF Evicting, TerminalStates
  <1>5. ASSUME NEW j \in Jobs, CancelQueued(j)
        PROVE  Bounded'
    <2> DEFINE st == [state EXCEPT ![j] = "cancelled"]
    <2>1. /\ st \in [Jobs -> States] /\ Settle(st)
          /\ order \in Seq(Jobs) /\ IsInjective(order) /\ ToSet(order) = Recorded(st)
      BY <1>5, CancelIs
    <2> HIDE DEF st
    <2>2. /\ IsFiniteSet(Finished(state')) /\ Cardinality(Finished(state')) <= MaxFinished
      BY <2>1, SettleBounds
    <2> QED
      BY <2>2, SettledBound
  <1>6. ASSUME NEW j \in Jobs, ClearFinished(j)
        PROVE  Bounded'
    <2>1. /\ worker' = worker
          /\ \A k \in Jobs : state'[k] = IF k = j THEN "gone" ELSE state[k]
      BY <1>1, <1>6 DEF ClearFinished
    <2>2. Finished(state') \in SUBSET Finished(state) /\ Evicting' = Evicting
      BY <2>1 DEF Finished, TerminalStates, Evicting
    <2>3. /\ IsFiniteSet(Finished(state'))
          /\ Cardinality(Finished(state')) <= Cardinality(Finished(state))
      BY <2>2, FS_Subset DEF Bounded
    <2>4. Cardinality(Finished(state)) <= MaxFinished + Cardinality(Evicting)
      BY DEF Bounded, HistoryBounded, Finished, Evicting
    <2>5. /\ Cardinality(Finished(state')) \in Nat /\ Cardinality(Finished(state)) \in Nat
          /\ Cardinality(Evicting) \in Nat
      BY <2>3, EvictingFinite, FS_CardinalityType DEF Bounded
    <2>6. Cardinality(Finished(state')) <= MaxFinished + Cardinality(Evicting')
      BY <2>2, <2>3, <2>4, <2>5
    <2> QED
      BY <2>3, <2>6 DEF Bounded, HistoryBounded, Finished, Evicting
  <1>7. ASSUME NEW t \in Threads, Work(t)
        PROVE  Bounded'
    BY <1>7, WorkBound
  <1> QED
    BY <1>2, <1>3, <1>4, <1>5, <1>6, <1>7 DEF Next

HasFile(j, c, r) == c[NameOf[j]] = j \/ j \in r

\* What a worker that has come to w still owes its job, or has given it.
Owes(w, e, c, r) ==
  /\ w.pc \in {"upload", "queue"} => e[w.job] = 0
  /\ w.pc = "queue" => HasFile(w.job, c, r)
  /\ w.pc = "finish" /\ w.verdict = "done" => e[w.job] = 1

OutputsTyped ==
  /\ entries \in [Jobs -> 0..1]
  /\ card \in [Names -> Jobs \cup {NoJob}]
  /\ replaced \subseteq Jobs

Delivered ==
  /\ OutputsTyped
  /\ \A j \in Jobs : state[j] \in {"new", "queued", "slicing"} => entries[j] = 0
  /\ \A t \in Threads : Owes(worker[t], entries, card, replaced)
  /\ EntryHasFile

LEMMA SameEntries ==
  ASSUME EntryHasFile, outputs' = outputs,
         \A k \in Jobs : state'[k] = "done" => state[k] = "done"
  PROVE  EntryHasFile'
  BY DEF EntryHasFile, outputs

LEMMA OthersDeliver ==
  ASSUME Delivered, Lives, outputs' = outputs,
         \A u \in Threads : worker'[u] = worker[u] \/ worker'[u].pc = "check",
         \A k \in Jobs : state'[k] = "done" => state[k] = "done"
  PROVE  Delivered'
  <1>1. EntryHasFile'
    BY SameEntries DEF Delivered
  <1>2. \A k \in Jobs : state'[k] \in {"new", "queued", "slicing"} => entries'[k] = 0
    BY DEF Delivered, outputs, Lives, Transitions
  <1>3. \A u \in Threads : Owes(worker'[u], entries', card', replaced')
    BY DEF Delivered, outputs, Owes
  <1>4. OutputsTyped'
    BY DEF Delivered, OutputsTyped, outputs
  <1> QED
    BY <1>1, <1>2, <1>3, <1>4 DEF Delivered

LEMMA WorkerDelivers ==
  ASSUME IInv, Delivered, Lives, NEW t \in Threads, NEW w, GoesTo(t, w), Alive(t),
         Owes(w, entries', card', replaced'), OutputsTyped',
         \A k \in Jobs : state[k] \in {"new", "queued", "slicing"} => entries'[k] = entries[k],
         EntryHasFile'
  PROVE  Delivered'
  <1>1. \A u \in Threads : u # t => ~Alive(u)
    BY DEF IInv, HandleIsWorker
  <1>2. \A u \in Threads : Owes(worker'[u], entries', card', replaced')
    BY <1>1, Goes DEF Owes
  <1>3. \A k \in Jobs : state'[k] \in {"new", "queued", "slicing"} => entries'[k] = 0
    BY DEF Delivered, Lives, Transitions
  <1> QED
    BY <1>2, <1>3 DEF Delivered

LEMMA WorkDelivers ==
  ASSUME IInv, Delivered, Lives, NEW t \in Threads, Work(t)
  PROVE  Delivered'
  <1> DEFINE j == worker[t].job
             v == worker[t].verdict
  <1>1. /\ state \in [Jobs -> States] /\ pending \in Seq(Jobs) /\ Fits(worker[t], state)
        /\ j \in Jobs \cup {NoJob} /\ v \in {"done", "failed"}
    BY DEF IInv, Typed, Phases, Workers
  <1>2. /\ OutputsTyped /\ EntryHasFile /\ Owes(worker[t], entries, card, replaced)
        /\ \A k \in Jobs : state[k] \in {"new", "queued", "slicing"} => entries[k] = 0
    BY DEF Delivered
  <1>3. CASE CheckStop(t)
    <2>1. PICK w \in {Worker("exited", j, v), Worker("take", j, v)} : GoesTo(t, w)
      BY <1>3 DEF CheckStop, Goto
    <2>2. Owes(w, entries', card', replaced')
      BY <2>1 DEF Owes, Worker
    <2>3. state' = state /\ outputs' = outputs /\ Alive(t)
      BY <1>3 DEF CheckStop
    <2>4. EntryHasFile' /\ OutputsTyped'
      BY <1>2, <2>3, SameEntries DEF OutputsTyped, outputs
    <2> QED
      BY <2>1, <2>2, <2>3, <2>4, WorkerDelivers DEF outputs
  <1>4. CASE Take(t)
    <2>1. PICK w \in {Worker("check", j, v), Worker("slice", Head(pending), "failed")} :
            GoesTo(t, w)
      BY <1>4 DEF Take, Goto
    <2>2. Owes(w, entries', card', replaced')
      BY <2>1 DEF Owes, Worker
    <2>3. /\ outputs' = outputs /\ Alive(t)
          /\ \A k \in Jobs : state'[k] = "done" => state[k] = "done"
      <3>1. pending # <<>> => Head(pending) \in Jobs
        BY <1>1
      <3> QED
        BY <1>1, <1>4, <3>1 DEF Take
    <2>4. EntryHasFile' /\ OutputsTyped'
      BY <1>2, <2>3, SameEntries DEF OutputsTyped, outputs
    <2> QED
      BY <2>1, <2>2, <2>3, <2>4, WorkerDelivers DEF outputs
  <1>5. CASE Slice(t)
    <2>1. PICK w \in {Worker("upload", j, v), Worker("finish", j, "failed")} : GoesTo(t, w)
      BY <1>5 DEF Slice, Goto, Verdict
    <2>2. j \in Jobs /\ state[j] = "slicing" /\ entries[j] = 0
      BY <1>1, <1>2, <1>5 DEF Slice, Fits
    <2>3. /\ outputs' = outputs /\ Alive(t)
          /\ \A k \in Jobs : state'[k] = "done" => state[k] = "done"
      BY <1>1, <1>5, <2>2 DEF Slice
    <2>4. Owes(w, entries', card', replaced')
      BY <2>1, <2>2, <2>3 DEF Owes, Worker, outputs
    <2>5. EntryHasFile' /\ OutputsTyped'
      BY <1>2, <2>3, SameEntries DEF OutputsTyped, outputs
    <2> QED
      BY <2>1, <2>3, <2>4, <2>5, WorkerDelivers DEF outputs
  <1>6. CASE Upload(t)
    <2> DEFINE before == card[NameOf[j]]
    <2>1. /\ j \in Jobs /\ Alive(t) /\ state' = state /\ entries' = entries
          /\ entries[j] = 0 /\ NameOf[j] \in Names
      BY <1>1, <1>2, <1>6 DEF Upload, Fits, Owes
    <2>2. PICK w \in {Worker("queue", j, v), Worker("finish", j, "failed")} :
            /\ GoesTo(t, w)
            /\ w.pc = "queue" => /\ card' = [card EXCEPT ![NameOf[j]] = j]
                                 /\ replaced' = replaced \cup ({before} \cap Jobs)
      BY <1>6 DEF Upload, Goto, Verdict, Worker
    <2>3. \/ card' = card /\ replaced' = replaced
          \/ \E x \in {j, NoJob} : /\ card' = [card EXCEPT ![NameOf[j]] = x]
                                   /\ replaced' = replaced \cup ({before} \cap Jobs)
      BY <1>6 DEF Upload
    <2>4. OutputsTyped'
      BY <1>2, <2>1, <2>3 DEF OutputsTyped
    <2>5. \A k \in Jobs : HasFile(k, card, replaced) => HasFile(k, card', replaced')
      <3>1. CASE card' = card /\ replaced' = replaced
        BY <3>1
      <3>2. ASSUME NEW x \in {j, NoJob}, card' = [card EXCEPT ![NameOf[j]] = x],
                   replaced' = replaced \cup ({before} \cap Jobs)
            PROVE  \A k \in Jobs : HasFile(k, card, replaced) => HasFile(k, card', replaced')
        <4> SUFFICES ASSUME NEW k \in Jobs, card[NameOf[k]] = k, NameOf[k] # NameOf[j]
                     PROVE  card'[NameOf[k]] = k
          BY <3>2 DEF HasFile
        <4>1. NameOf[k] \in Names
          OBVIOUS
        <4> QED
          BY <1>2, <3>2, <4>1 DEF OutputsTyped
      <3> QED
        BY <2>3, <3>1, <3>2
    <2>6. EntryHasFile'
      BY <1>2, <2>1, <2>5 DEF EntryHasFile, HasFile
    <2>7. Owes(w, entries', card', replaced')
      <3>1. CASE w = Worker("finish", j, "failed")
        BY <3>1 DEF Owes, Worker
      <3>2. CASE w = Worker("queue", j, v)
        <4>1. w.pc = "queue" /\ w.job = j
          BY <3>2 DEF Worker
        <4>2. card'[NameOf[j]] = j
          BY <1>2, <2>1, <2>2, <4>1 DEF OutputsTyped
        <4> QED
          BY <2>1, <4>1, <4>2 DEF Owes, HasFile
      <3> QED
        BY <2>2, <3>1, <3>2
    <2> QED
      BY <2>1, <2>2, <2>4, <2>6, <2>7, WorkerDelivers
  <1>7. CASE AddToQueue(t)
    <2>1. /\ j \in Jobs /\ Alive(t) /\ state' = state /\ card' = card /\ replaced' = replaced
          /\ state[j] = "uploading" /\ entries[j] = 0 /\ HasFile(j, card, replaced)
      BY <1>1, <1>2, <1>7 DEF AddToQueue, Fits, Owes
    <2>2. \A k \in Jobs : entries'[k] = IF k = j THEN 1 ELSE entries[k]
      BY <1>2, <1>7, <2>1 DEF AddToQueue, OutputsTyped
    <2>3. OutputsTyped'
      <3>1. entries' = [entries EXCEPT ![j] = @ + 1]
        BY <1>7 DEF AddToQueue
      <3> QED
        BY <1>2, <2>1, <2>2, <3>1 DEF OutputsTyped
    <2>4. PICK w \in {Worker("finish", j, "done"), Worker("finish", j, "failed")} :
            GoesTo(t, w)
      BY <1>7 DEF AddToQueue, Verdict
    <2>5. Owes(w, entries', card', replaced')
      BY <2>1, <2>2, <2>4 DEF Owes, Worker
    <2>6. EntryHasFile'
      BY <1>2, <2>1, <2>2 DEF EntryHasFile, HasFile
    <2> QED
      BY <2>1, <2>2, <2>3, <2>4, <2>5, <2>6, WorkerDelivers
  <1>8. CASE Finish(t)
    <2>1. /\ j \in Jobs /\ Alive(t) /\ outputs' = outputs /\ GoesTo(t, Worker("evict", j, v))
          /\ state' = [state EXCEPT ![j] = v]
          /\ v = "done" => entries[j] = 1
      BY <1>1, <1>2, <1>8 DEF Finish, Goto, Fits, Owes
    <2>2. OutputsTyped' /\ entries' = entries
      BY <1>2, <2>1 DEF OutputsTyped, outputs
    <2>3. EntryHasFile'
      <3>1. \A k \in Jobs : state'[k] = IF k = j THEN v ELSE state[k]
        BY <1>1, <2>1
      <3>2. entries' = entries /\ card' = card /\ replaced' = replaced
        BY <2>1 DEF outputs
      <3>3. \A k \in Jobs : state'[k] = "done" => entries'[k] = 1
        BY <1>2, <2>1, <3>1, <3>2 DEF EntryHasFile
      <3> QED
        BY <1>2, <3>2, <3>3 DEF EntryHasFile
    <2>4. Owes(Worker("evict", j, v), entries', card', replaced')
      BY DEF Owes, Worker
    <2> QED
      BY <2>1, <2>2, <2>3, <2>4, WorkerDelivers
  <1>9. CASE Evict(t)
    <2>1. outputs' = outputs /\ Alive(t) /\ GoesTo(t, Working) /\ Settle(state)
      BY <1>9 DEF Evict
    <2>2. \A k \in Jobs : state'[k] = "done" => state[k] = "done"
      BY <1>1, <2>1, SettleStates
    <2>3. EntryHasFile' /\ OutputsTyped'
      BY <1>2, <2>1, <2>2, SameEntries DEF OutputsTyped, outputs
    <2>4. Owes(Working, entries', card', replaced')
      BY DEF Owes, Working, Worker
    <2> QED
      BY <2>1, <2>3, <2>4, WorkerDelivers DEF outputs
  <1> QED
    BY <1>3, <1>4, <1>5, <1>6, <1>7, <1>8, <1>9 DEF Work

LEMMA DeliveryKept ==
  ASSUME IInv, Delivered, Lives, [Next]_vars
  PROVE  Delivered'
  <1>1. state \in [Jobs -> States]
    BY DEF IInv, Typed
  <1>2. CASE Start \/ Stop \/ Joined \/ UNCHANGED vars
    <2>1. state' = state /\ outputs' = outputs
      BY <1>2 DEF Start, Stop, Joined, vars
    <2>2. worker' = worker \/ \E t \in Threads : GoesTo(t, Working)
      BY <1>2 DEF Start, Stop, Joined, vars, GoesTo
    <2>3. \A u \in Threads : worker'[u] = worker[u] \/ worker'[u].pc = "check"
      BY <2>2, Goes DEF Working, Worker
    <2> QED
      BY <2>1, <2>3, OthersDeliver
  <1>3. ASSUME NEW j \in Jobs, Submit(j) \/ CancelQueued(j) \/ ClearFinished(j)
        PROVE  Delivered'
    <2>1. worker' = worker /\ outputs' = outputs
      BY <1>3 DEF Submit, CancelQueued, ClearFinished
    <2>2. \A k \in Jobs : state'[k] = "done" => state[k] = "done"
      <3>1. CASE Submit(j) \/ ClearFinished(j)
        BY <1>1, <3>1 DEF Submit, ClearFinished
      <3>2. CASE CancelQueued(j)
        <4> DEFINE st == [state EXCEPT ![j] = "cancelled"]
        <4>1. st \in [Jobs -> States] /\ Settle(st)
          BY <1>1, <3>2 DEF CancelQueued, States, TerminalStates
        <4>2. \A k \in Jobs : st[k] = "done" => state[k] = "done"
          BY <1>1
        <4> HIDE DEF st
        <4> QED
          BY <4>1, <4>2, SettleStates
      <3> QED
        BY <1>3, <3>1, <3>2
    <2> QED
      BY <2>1, <2>2, OthersDeliver
  <1>4. ASSUME NEW t \in Threads, Work(t)
        PROVE  Delivered'
    BY <1>4, WorkDelivers
  <1> QED
    BY <1>2, <1>3, <1>4 DEF Next

---------------------------------------------------------------------------
Records == Indexed /\ Bounded /\ Delivered

LEMMA RecordsInit == Init => Records
  <1> SUFFICES ASSUME Init PROVE Records
    OBVIOUS
  <1>1. Indexed
    BY DEF Init, Indexed, IndexesAgree, ToSet, IsInjective
  <1>2. Bounded
    <2>1. Finished(state) = {}
      BY DEF Init, Finished, TerminalStates
    <2>2. IsFiniteSet(Finished(state)) /\ Cardinality(Finished(state)) = 0
      BY <2>1, FS_EmptySet
    <2> QED
      BY <2>2, EvictingFinite DEF Bounded, HistoryBounded, Finished, Evicting
  <1>3. Delivered
    <2>1. OutputsTyped
      BY DEF Init, OutputsTyped
    <2>3. \A k \in Jobs : entries[k] = 0 /\ state[k] = "new"
      BY DEF Init
    <2>4. EntryHasFile
      BY <2>3 DEF EntryHasFile
    <2>2. \A t \in Threads : worker[t].pc = "none"
      BY DEF Init, Worker
    <2> QED
      BY <2>1, <2>2, <2>3, <2>4 DEF Delivered, Owes
  <1> QED
    BY <1>1, <1>2, <1>3 DEF Records

\* The records are as they should be in every reachable state.
THEOREM RecordsKept == Spec => []Records
  <1>1. IInv /\ Records /\ [Next]_vars => Records'
    BY NextPreserves, IndexesKept, BoundKept, DeliveryKept DEF Records
  <1> QED
    BY <1>1, RecordsInit, Invariance, PTL DEF Spec

\* _jobs, _order and _pending agree whenever the lock is free: no eviction meets an
\* id without a record, and no job that waits is out of the worker's reach.
THEOREM Agreement == Spec => []IndexesAgree
  <1>1. Records => IndexesAgree
    BY DEF Records, Indexed
  <1> QED
    BY <1>1, RecordsKept, PTL

\* The history is bounded but for a job that has just finished, whatever the cap.
THEOREM Bound == Spec => []HistoryBounded
  <1>1. Records => HistoryBounded
    BY DEF Records, Bounded
  <1> QED
    BY <1>1, RecordsKept, PTL

\* A done job is in the queue once, and no entry is without a file of its own but for
\* a later upload of the same name.
THEOREM Delivery == Spec => []EntryHasFile
  <1>1. Records => EntryHasFile
    BY DEF Records, Delivered
  <1> QED
    BY <1>1, RecordsKept, PTL

---------------------------------------------------------------------------
(* No work is abandoned: the safety half of TakenJobsFinish and             *)
(* WaitingJobsMove.                                                         *)

Busy == {"slice", "upload", "queue", "finish"}
InProgress == {"slicing", "uploading"}

Held == \A j \in Jobs : state[j] \in InProgress =>
          \E t \in Threads : worker[t].pc \in Busy /\ worker[t].job = j

Staffed ==
  /\ handle \in 0..MaxThreads /\ stopping \in BOOLEAN /\ caller \in {"free", "joining"}
  /\ handle # 0 /\ ~stopping => Alive(handle)

\* A step of the worker t that takes it to w leaves no job in progress without it.
LEMMA HeldStep ==
  ASSUME IInv, Held, NEW t \in Threads, NEW w, GoesTo(t, w),
         \A k \in Jobs : state'[k] \in InProgress =>
           \/ w.pc \in Busy /\ w.job = k
           \/ state[k] \in InProgress /\ ~(worker[t].pc \in Busy /\ worker[t].job = k)
  PROVE  Held'
<1>1. worker'[t] = w /\ \A u \in Threads \ {t} : worker'[u] = worker[u]
  BY DEF GoesTo, IInv, Typed
<1> SUFFICES ASSUME NEW k \in Jobs, state'[k] \in InProgress
             PROVE  \E u \in Threads : worker'[u].pc \in Busy /\ worker'[u].job = k
  BY DEF Held
<1>2. CASE w.pc \in Busy /\ w.job = k
  BY <1>1, <1>2
<1>3. CASE state[k] \in InProgress /\ ~(worker[t].pc \in Busy /\ worker[t].job = k)
  <2> PICK u \in Threads : worker[u].pc \in Busy /\ worker[u].job = k
    BY <1>3 DEF Held
  <2> QED
    BY <1>1, <1>3
<1> QED
  BY <1>2, <1>3

LEMMA WorkHeld ==
  ASSUME IInv, Held, NEW t \in Threads, Work(t)
  PROVE  Held'
<1> DEFINE j == worker[t].job
           v == worker[t].verdict
<1>1. /\ state \in [Jobs -> States] /\ pending \in Seq(Jobs)
      /\ j \in Jobs \cup {NoJob} /\ v \in {"done", "failed"}
      /\ Fits(worker[t], state)
  BY DEF IInv, Typed, Workers, Phases
<1>2. CASE CheckStop(t)
  <2> PICK p : GoesTo(t, Worker(p, j, v))
    BY <1>2 DEF CheckStop, Goto
  <2>1. UNCHANGED state /\ worker[t].pc \notin Busy
    BY <1>2 DEF CheckStop, Busy
  <2> QED
    BY <2>1, HeldStep
<1>3. CASE Take(t)
  <2>1. worker[t].pc \notin Busy
    BY <1>3 DEF Take, Busy
  <2>2. CASE UNCHANGED state /\ Goto(t, "check")
    BY <2>1, <2>2, HeldStep DEF Goto
  <2>3. CASE /\ pending # <<>>
             /\ state' = [state EXCEPT ![Head(pending)] = "slicing"]
             /\ GoesTo(t, Worker("slice", Head(pending), "failed"))
    <3>1. Head(pending) \in Jobs
      BY <1>1, <2>3
    <3>2. /\ Worker("slice", Head(pending), "failed").pc \in Busy
          /\ Worker("slice", Head(pending), "failed").job = Head(pending)
      BY <3>1, WorkersAreWorkers DEF Busy
    <3>3. \A k \in Jobs \ {Head(pending)} : state'[k] = state[k]
      BY <1>1, <2>3, <3>1
    <3> QED
      BY <2>1, <2>3, <3>2, <3>3, HeldStep
  <2> QED
    BY <1>3, <2>2, <2>3 DEF Take
<1>4. CASE Slice(t)
  <2>1. j \in Jobs /\ state[j] = "slicing"
    BY <1>1, <1>4 DEF Slice, Fits
  <2>2. PICK w \in {Worker("upload", j, v), Worker("finish", j, "failed")} :
          GoesTo(t, w) /\ \A k \in Jobs \ {j} : state'[k] = state[k]
    BY <1>1, <1>4, <2>1 DEF Slice, Goto, Verdict
  <2>3. w.pc \in Busy /\ w.job = j
    BY <1>1, <2>2, WorkersAreWorkers DEF Busy
  <2> QED
    BY <2>2, <2>3, HeldStep
<1>5. CASE Upload(t) \/ AddToQueue(t)
  <2>1. UNCHANGED state
    BY <1>5 DEF Upload, AddToQueue
  <2>2. PICK w \in {Worker("queue", j, v), Worker("finish", j, "failed"),
                   Worker("finish", j, "done")} : GoesTo(t, w)
    BY <1>5 DEF Upload, AddToQueue, Goto, Verdict
  <2>3. w.pc \in Busy /\ w.job = j
    BY <1>1, <2>2, WorkersAreWorkers DEF Busy
  <2> QED
    BY <2>1, <2>2, <2>3, HeldStep
<1>6. CASE Finish(t)
  <2>1. /\ j \in Jobs /\ state' = [state EXCEPT ![j] = v]
        /\ GoesTo(t, Worker("evict", j, v))
    BY <1>1, <1>6 DEF Finish, Fits, Goto
  <2>2. state'[j] \notin InProgress /\ \A k \in Jobs \ {j} : state'[k] = state[k]
    BY <1>1, <2>1 DEF InProgress
  <2> QED
    BY <2>1, <2>2, HeldStep
<1>7. CASE Evict(t)
  <2>1. worker[t].pc \notin Busy /\ GoesTo(t, Working)
    BY <1>7 DEF Evict, Busy
  <2>2. \A k \in Jobs : state'[k] # state[k] => state'[k] = "gone"
    BY <1>1, <1>7, SettleStates DEF Evict
  <2>3. \A k \in Jobs : state'[k] \in InProgress => state[k] \in InProgress
    BY <2>2 DEF InProgress
  <2> QED
    BY <2>1, <2>3, HeldStep
<1> QED
  BY <1>2, <1>3, <1>4, <1>5, <1>6, <1>7 DEF Work

LEMMA HeldKept ==
  ASSUME IInv, Held, [Next]_vars
  PROVE  Held'
<1>1. CASE Start
  <2>1. UNCHANGED state /\ \A t \in Threads : ~Alive(t)
    BY <1>1 DEF Start, IInv, HandleIsWorker
  <2>2. \A j \in Jobs : state[j] \notin InProgress
    BY <2>1 DEF Held, Busy
  <2> QED
    BY <2>1, <2>2 DEF Held
<1>2. ASSUME NEW j \in Jobs, Submit(j) \/ CancelQueued(j) \/ ClearFinished(j)
      PROVE  Held'
  <2>1. UNCHANGED worker
    BY <1>2 DEF Submit, CancelQueued, ClearFinished
  <2>2. \A k \in Jobs : state'[k] \in InProgress => state[k] \in InProgress
    <3>1. CASE Submit(j) \/ ClearFinished(j)
      BY <3>1 DEF Submit, ClearFinished, IInv, Typed, InProgress
    <3>2. CASE CancelQueued(j)
      <4> DEFINE st == [state EXCEPT ![j] = "cancelled"]
      <4>1. st \in [Jobs -> States] /\ Settle(st)
        BY <3>2 DEF IInv, Typed, CancelQueued, States, TerminalStates
      <4>2. st[j] = "cancelled" /\ \A k \in Jobs \ {j} : st[k] = state[k]
        BY DEF IInv, Typed
      <4> HIDE DEF st
      <4>3. \A k \in Jobs : state'[k] # st[k] => state'[k] = "gone"
        BY <4>1, SettleStates
      <4> QED
        BY <4>2, <4>3 DEF InProgress
    <3> QED
      BY <1>2, <3>1, <3>2
  <2> QED
    BY <2>1, <2>2 DEF Held
<1>3. CASE Stop \/ Joined \/ UNCHANGED vars
  BY <1>3 DEF Stop, Joined, vars, Held
<1> QED
  BY <1>1, <1>2, <1>3, WorkHeld DEF Next

\* The worker exits only when it is told to.
LEMMA StaffedKept ==
  ASSUME IInv, Staffed, [Next]_vars
  PROVE  Staffed'
<1>1. CASE Start
  <2> PICK t \in Threads : handle' = t /\ worker' = [worker EXCEPT ![t] = Working]
    BY <1>1 DEF Start
  <2>1. worker'[t] = Working /\ Working.pc = "check"
    BY WorkersAreWorkers DEF IInv, Typed, Working
  <2>2. handle' \in 0..MaxThreads /\ Alive(handle)'
    BY <2>1
  <2>3. stopping' = FALSE /\ caller' = caller
    BY <1>1 DEF Start
  <2> QED
    BY <2>2, <2>3, Zenon DEF Staffed
<1>2. CASE Stop \/ Joined
  <2>1. handle' \in {handle, 0} /\ worker' = worker /\ caller' \in {"free", "joining"}
    BY <1>2 DEF Stop, Joined
  <2>2. stopping' = TRUE \/ stopping' = stopping
    BY <1>2, Zenon DEF Stop, Joined
  <2>3. handle' \in 0..MaxThreads
    BY <2>1 DEF Staffed
  <2> QED
    BY <2>1, <2>2, <2>3, Zenon DEF Staffed
<1>3. ASSUME NEW t \in Threads, Work(t)
      PROVE  Staffed'
  <2>1. UNCHANGED <<handle, stopping, caller>>
    BY <1>3 DEF Work, CheckStop, Take, Slice, Upload, AddToQueue, Finish, Evict, lifecycle
  <2>2. PICK w : GoesTo(t, w) /\ (~stopping => w.pc \notin {"none", "exited"})
    <3> DEFINE j == worker[t].job
               v == worker[t].verdict
    <3>1. j \in Jobs \cup {NoJob} /\ v \in {"done", "failed"} /\ Fits(worker[t], state)
      BY DEF IInv, Typed, Workers, Phases
    <3>2. CASE CheckStop(t)
      BY <3>1, <3>2, WorkersAreWorkers DEF CheckStop, Goto
    <3>3. CASE Take(t)
      <4>1. pending # <<>> => Head(pending) \in Jobs
        BY DEF IInv, Typed
      <4> QED
        BY <3>1, <3>3, <4>1, WorkersAreWorkers DEF Take, Goto
    <3>4. CASE Slice(t)
      BY <3>1, <3>4, WorkersAreWorkers DEF Slice, Goto, Verdict
    <3>5. CASE Upload(t) \/ AddToQueue(t) \/ Finish(t)
      BY <3>1, <3>5, WorkersAreWorkers DEF Upload, AddToQueue, Finish, Goto, Verdict
    <3>6. CASE Evict(t)
      BY <3>6, WorkersAreWorkers DEF Evict, Working
    <3> QED
      BY <1>3, <3>2, <3>3, <3>4, <3>5, <3>6 DEF Work
  <2>3. worker'[t] = w /\ \A u \in Threads \ {t} : worker'[u] = worker[u]
    BY <2>2 DEF GoesTo, IInv, Typed
  <2> QED
    BY <2>1, <2>2, <2>3 DEF Staffed
<1>4. CASE (\E j \in Jobs : Submit(j) \/ CancelQueued(j) \/ ClearFinished(j)) \/ UNCHANGED vars
  <2>1. UNCHANGED <<handle, stopping, caller, worker>>
    BY <1>4, Zenon DEF Submit, CancelQueued, ClearFinished, lifecycle, vars
  <2> QED
    BY <2>1, Zenon DEF Staffed
<1> QED
  BY <1>1, <1>2, <1>3, <1>4 DEF Next

LEMMA Manned == Spec => [](Held /\ Staffed)
<1>1. Init => Held /\ Staffed
  <2> SUFFICES ASSUME Init PROVE Held /\ Staffed
    OBVIOUS
  <2>1. Held
    BY DEF Init, Held, InProgress
  <2>2. handle = 0 /\ 0 \in 0..MaxThreads /\ stopping = FALSE /\ caller = "free"
    BY DEF Init
  <2>3. Staffed
    BY <2>2, Zenon DEF Staffed
  <2> QED
    BY <2>1, <2>3
<1>2. IInv /\ Held /\ Staffed /\ [Next]_vars => (Held /\ Staffed)'
  BY HeldKept, StaffedKept
<1> QED
  BY Invariance, <1>1, <1>2, PTL DEF Spec

\* A job in progress is in the hands of exactly one worker, and a worker that nobody
\* told to stop is alive, for any order of start(), stop(), time-outs and errors.
THEOREM NobodyAbandons == Spec => []WorkInHand
<1>1. IInv /\ Held /\ Staffed => WorkInHand
  <2> SUFFICES ASSUME IInv, Held, Staffed, NEW j \in Jobs, state[j] \in InProgress
               PROVE  \E t \in Threads : Holding(j) = {t}
    BY DEF WorkInHand, InProgress, Staffed
  <2> PICK t \in Threads : worker[t].pc \in Busy /\ worker[t].job = j
    BY DEF Held
  <2>1. \A u \in Threads : worker[u].pc \in Busy => u = t
    BY DEF IInv, HandleIsWorker, Busy
  <2>2. Holding(j) = {t}
    BY <2>1 DEF Holding, Busy
  <2> QED
    BY <2>2
<1> QED
  BY Invariance, Manned, <1>1, PTL

\* The coordinator's lists, its lifecycle and what it leaves behind keep their types.
THEOREM Typing == Spec => []TypeOK
<1>1. IInv /\ Records /\ Staffed => TypeOK
  <2> SUFFICES ASSUME IInv, Records, Staffed
               PROVE  TypeOK
    OBVIOUS
  <2>1. /\ state \in [Jobs -> {"new", "gone"} \cup LiveStates \cup TerminalStates]
        /\ pending \in Seq(Jobs) /\ worker \in [Threads -> Workers]
    BY DEF IInv, Typed, States
  <2>2. order \in Seq(Jobs) /\ entries \in [Jobs -> 0..1]
        /\ card \in [Names -> Jobs \cup {NoJob}] /\ replaced \subseteq Jobs
    BY DEF Records, Indexed, Delivered, OutputsTyped
  <2>3. handle \in 0..MaxThreads /\ stopping \in BOOLEAN /\ caller \in {"free", "joining"}
    BY Zenon DEF Staffed
  <2> QED
    BY <2>1, <2>2, <2>3, Zenon DEF TypeOK
<1> QED
  BY Invariance, RecordsKept, Manned, <1>1, PTL

===========================================================================
