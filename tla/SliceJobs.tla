----------------------------- MODULE SliceJobs -----------------------------
(***************************************************************************)
(* server/slicejobs.py, class SliceCoordinator: the slice jobs, the one    *)
(* worker thread that slices, uploads and queues them, and start()/stop(), *)
(* whose join may time out while the worker is inside a slice.             *)
(*                                                                         *)
(* A job is known by its uuid, and is new once.  The queue entry it        *)
(* becomes lives on in PrintQueue; here entries only counts them.  Jobs    *)
(* are not persisted, so a restart of the server is a new behavior.        *)
(***************************************************************************)
EXTENDS Naturals, Sequences, FiniteSets, SequencesExt

CONSTANTS
  Jobs,          \* job ids
  Names,         \* output names on the card
  NameOf,        \* output_name() of each job
  NoJob,
  MaxFinished,   \* MAX_FINISHED_JOBS
  MaxThreads     \* bound: worker threads start() may create

ASSUME SliceAssumption ==
  /\ NoJob \notin Jobs
  /\ NameOf \in [Jobs -> Names]
  /\ MaxFinished \in Nat /\ MaxThreads \in Nat

VARIABLES
  state,      \* _jobs[id]["state"]; "new" before submit(), "gone" once popped
  order,      \* _order
  pending,    \* _pending
  handle,     \* _thread: 0 for None
  stopping,   \* _stop is set
  caller,     \* the thread that calls start() and stop(): "free" or "joining"
  worker,     \* every worker thread made so far
  entries,    \* queue entries each job has added
  card,       \* the job whose upload each file on the card is, or NoJob
  replaced    \* ghost: jobs whose file another job's upload has touched since

index == <<order, pending>>
lifecycle == <<handle, stopping, caller>>
outputs == <<entries, card, replaced>>
vars == <<state, index, lifecycle, worker, outputs>>

TerminalStates == {"done", "failed", "cancelled"}
LiveStates == {"queued", "slicing", "uploading"}
Threads == 1..MaxThreads

\* Where a thread is, the job it has in hand and the verdict it came to.
Workers ==
  [pc : {"none", "check", "take", "slice", "upload", "queue", "finish", "evict",
         "exited"},
   job : Jobs \cup {NoJob}, verdict : {"done", "failed"}]

TypeOK ==
  /\ state \in [Jobs -> {"new", "gone"} \cup LiveStates \cup TerminalStates]
  /\ order \in Seq(Jobs) /\ pending \in Seq(Jobs)
  /\ handle \in 0..MaxThreads
  /\ stopping \in BOOLEAN /\ caller \in {"free", "joining"}
  /\ worker \in [Threads -> Workers]
  /\ entries \in [Jobs -> 0..1]
  /\ card \in [Names -> Jobs \cup {NoJob}]
  /\ replaced \subseteq Jobs

Worker(pc, j, v) == [pc |-> pc, job |-> j, verdict |-> v]
Working == Worker("check", NoJob, "failed")

Init ==
  /\ state = [j \in Jobs |-> "new"]
  /\ order = <<>> /\ pending = <<>>
  /\ handle = 0 /\ stopping = FALSE /\ caller = "free"
  /\ worker = [t \in Threads |-> Worker("none", NoJob, "failed")]
  /\ entries = [j \in Jobs |-> 0]
  /\ card = [n \in Names |-> NoJob]
  /\ replaced = {}

At(t, pc) == worker[t].pc = pc
Alive(t) == worker[t].pc \notin {"none", "exited"}

---------------------------------------------------------------------------
(* Lifecycle.                                                              *)

\* start(): nothing happens while the thread of the handle is alive.
Start ==
  /\ caller = "free"
  /\ handle # 0 => ~Alive(handle)
  /\ \E t \in Threads :
       /\ At(t, "none") /\ \A u \in 1..(t - 1) : ~At(u, "none")
       /\ handle' = t
       /\ worker' = [worker EXCEPT ![t] = Working]
  /\ stopping' = FALSE
  /\ UNCHANGED <<state, index, caller, outputs>>

\* stop(): the worker is told, and joined if there is one.
Stop ==
  /\ caller = "free"
  /\ stopping' = TRUE
  /\ caller' = IF handle = 0 THEN "free" ELSE "joining"
  /\ UNCHANGED <<state, index, handle, worker, outputs>>

\* Mutant: the handle is let go of whether or not the worker is gone.
JoinedLetsGo ==
  /\ caller = "joining"
  /\ caller' = "free"
  /\ handle' = 0
  /\ UNCHANGED <<state, index, stopping, worker, outputs>>

\* The join returns because the worker is gone, or times out.
Joined ==
  /\ caller = "joining"
  /\ caller' = "free"
  /\ handle' = IF Alive(handle) THEN handle ELSE 0
  /\ UNCHANGED <<state, index, stopping, worker, outputs>>

---------------------------------------------------------------------------
(* The job list, under _lock.                                              *)

\* The list without the entries of the jobs in  old.
Without(list, old) ==
  LET kept == {i \in DOMAIN list : list[i] \notin old}
      place(k) == CHOOSE i \in kept : Cardinality({m \in kept : m <= i}) = k
  IN [k \in 1..Cardinality(kept) |-> list[place(k)]]

\* Mutant: the oldest records go, whatever their state.
EvictedOldest(st) ==
  {order[i] : i \in {k \in DOMAIN order : Len(order) - k >= MaxFinished}}

\* _evict_excess_finished(): a terminal record goes when MaxFinished newer ones
\* exist.
Evicted(st) ==
  LET finished == {i \in DOMAIN order : st[order[i]] \in TerminalStates}
  IN {order[i] : i \in {k \in finished :
                          Cardinality({n \in finished : n > k}) >= MaxFinished}}

\* The records with the states  st, less those that are over the cap.
Settle(st) ==
  LET old == Evicted(st)
  IN /\ state' = [j \in Jobs |-> IF j \in old THEN "gone" ELSE st[j]]
     /\ order' = Without(order, old)

Submit(j) ==
  /\ state[j] = "new"
  /\ state' = [state EXCEPT ![j] = "queued"]
  /\ order' = Append(order, j)
  /\ pending' = Append(pending, j)
  /\ UNCHANGED <<lifecycle, worker, outputs>>

\* Mutant: the job's entry in _pending is left to the worker to skip.
CancelKeepsPending(j) ==
  /\ state[j] = "queued"
  /\ Settle([state EXCEPT ![j] = "cancelled"])
  /\ UNCHANGED <<pending, lifecycle, worker, outputs>>

\* Mutant: only the worker evicts.
CancelWithoutEviction(j) ==
  /\ state[j] = "queued"
  /\ state' = [state EXCEPT ![j] = "cancelled"]
  /\ pending' = Without(pending, {j})
  /\ UNCHANGED <<order, lifecycle, worker, outputs>>

\* cancel() of a job that waits.
CancelQueued(j) ==
  /\ state[j] = "queued"
  /\ Settle([state EXCEPT ![j] = "cancelled"])
  /\ pending' = Without(pending, {j})
  /\ UNCHANGED <<lifecycle, worker, outputs>>

\* cancel() of a finished job clears its record.
ClearFinished(j) ==
  /\ state[j] \in TerminalStates
  /\ state' = [state EXCEPT ![j] = "gone"]
  /\ order' = Without(order, {j})
  /\ UNCHANGED <<pending, lifecycle, worker, outputs>>

---------------------------------------------------------------------------
(* The worker: _loop(), run_once() and _do().                              *)

GoesTo(t, w) == worker' = [worker EXCEPT ![t] = w]
Goto(t, pc) == GoesTo(t, Worker(pc, worker[t].job, worker[t].verdict))
Verdict(t, v) == GoesTo(t, Worker("finish", worker[t].job, v))

\* while not self._stop.is_set()
CheckStop(t) ==
  /\ At(t, "check")
  /\ Goto(t, IF stopping THEN "exited" ELSE "take")
  /\ UNCHANGED <<state, index, lifecycle, outputs>>

\* Mutant: the worker ends when there is nothing left to do.
TakeOrLeave(t) ==
  /\ At(t, "take")
  /\ IF pending = <<>>
       THEN Goto(t, "exited") /\ UNCHANGED <<state, pending>>
       ELSE /\ pending' = Tail(pending)
            /\ state' = [state EXCEPT ![Head(pending)] = "slicing"]
            /\ GoesTo(t, Worker("slice", Head(pending), "failed"))
  /\ UNCHANGED <<order, lifecycle, outputs>>

\* The oldest pending job, if there is one that is still queued.
Take(t) ==
  /\ At(t, "take")
  /\ IF pending = <<>>
       THEN Goto(t, "check") /\ UNCHANGED <<state, pending>>
       ELSE LET j == Head(pending) IN
            /\ pending' = Tail(pending)
            /\ IF state[j] = "queued"
                 THEN /\ state' = [state EXCEPT ![j] = "slicing"]
                      /\ GoesTo(t, Worker("slice", j, "failed"))
                 ELSE Goto(t, "check") /\ UNCHANGED state
  /\ UNCHANGED <<order, lifecycle, outputs>>

\* Mutant: an exception run_once() does not expect is left to _loop().
SliceUncaught(t) ==
  /\ At(t, "slice")
  /\ \/ /\ state' = [state EXCEPT ![worker[t].job] = "uploading"]
        /\ Goto(t, "upload")
     \/ GoesTo(t, Working) /\ UNCHANGED state
  /\ UNCHANGED <<index, lifecycle, outputs>>

\* run_slice() in a directory of the job's own: a file, or any of its errors
\* (a profile, a time-out, a bad exit code, no output).
Slice(t) ==
  /\ At(t, "slice")
  /\ \/ /\ state' = [state EXCEPT ![worker[t].job] = "uploading"]
        /\ Goto(t, "upload")
     \/ Verdict(t, "failed") /\ UNCHANGED state
  /\ UNCHANGED <<index, lifecycle, outputs>>

\* Mutant: the entry is made before the file is on the card.
UploadAfterQueue(t) ==
  /\ At(t, "upload")
  /\ Goto(t, "queue")
  /\ UNCHANGED <<state, index, lifecycle, outputs>>

\* upload_sd_file(): STOR writes over a file of that name.  One that fails
\* before it reached the card leaves the file; one cut short has ruined it.
Upload(t) ==
  /\ At(t, "upload")
  /\ LET j == worker[t].job
         before == card[NameOf[j]]
     IN \/ /\ card' = [card EXCEPT ![NameOf[j]] = j]
           /\ replaced' = replaced \cup ({before} \cap Jobs)
           /\ Goto(t, "queue")
        \/ /\ card' = [card EXCEPT ![NameOf[j]] = NoJob]
           /\ replaced' = replaced \cup ({before} \cap Jobs)
           /\ Verdict(t, "failed")
        \/ /\ Verdict(t, "failed")
           /\ UNCHANGED <<card, replaced>>
  /\ UNCHANGED <<state, index, lifecycle, entries>>

\* PrintQueue.add(): the entry is in memory when its save raises.
AddToQueue(t) ==
  /\ At(t, "queue")
  /\ entries' = [entries EXCEPT ![worker[t].job] = @ + 1]
  /\ Verdict(t, "done") \/ Verdict(t, "failed")
  /\ UNCHANGED <<state, index, lifecycle, card, replaced>>

\* Mutant: a failed job goes back to the end of the line.
FinishOrRetry(t) ==
  /\ At(t, "finish")
  /\ LET j == worker[t].job
     IN IF worker[t].verdict = "failed"
          THEN /\ state' = [state EXCEPT ![j] = "queued"]
               /\ pending' = Append(pending, j)
          ELSE /\ state' = [state EXCEPT ![j] = "done"]
               /\ UNCHANGED pending
  /\ Goto(t, "evict")
  /\ UNCHANGED <<order, lifecycle, outputs>>

\* _finish(), first half: the verdict, under the lock.
Finish(t) ==
  /\ At(t, "finish")
  /\ state' = [state EXCEPT ![worker[t].job] = worker[t].verdict]
  /\ Goto(t, "evict")
  /\ UNCHANGED <<index, lifecycle, outputs>>

\* _finish(), second half: the lock is taken again to evict.
Evict(t) ==
  /\ At(t, "evict")
  /\ Settle(state)
  /\ GoesTo(t, Working)
  /\ UNCHANGED <<pending, lifecycle, outputs>>

Work(t) ==
  \/ CheckStop(t)
  \/ Take(t)
  \/ Slice(t)
  \/ Upload(t)
  \/ AddToQueue(t)
  \/ Finish(t)
  \/ Evict(t)

Next ==
  \/ Start
  \/ Stop
  \/ Joined
  \/ \E j \in Jobs : Submit(j) \/ CancelQueued(j) \/ ClearFinished(j)
  \/ \E t \in Threads : Work(t)

Spec == Init /\ [][Next]_vars

\* A thread keeps running: slices and uploads have time-outs of their own.
FairSpec == Spec /\ \A t \in Threads : WF_vars(Work(t))

---------------------------------------------------------------------------
\* "ONE WORKER, GLOBALLY": no sequence of start() and stop(), joins that time out
\* included, leaves two workers alive.
OneWorker == \A t, u \in Threads : Alive(t) /\ Alive(u) => t = u

\* The three indexes agree whenever the lock is free, so list() and the eviction
\* never meet an id they have no record for, and no queued job is unreachable.
IndexesAgree ==
  /\ ToSet(pending) = {j \in Jobs : state[j] = "queued"}
  /\ ToSet(order) = {j \in Jobs : state[j] \notin {"new", "gone"}}
  /\ IsInjective(pending) /\ IsInjective(order)

\* History is bounded, but for the job that has just finished.
HistoryBounded ==
  Cardinality({j \in Jobs : state[j] \in TerminalStates})
    <= MaxFinished + Cardinality({t \in Threads : At(t, "evict")})

\* The life of a job: only waiting jobs are cancelled, a verdict is final, and
\* only finished records disappear ("never live work").
Transitions ==
  {<<"new", "queued">>, <<"queued", "slicing">>, <<"slicing", "uploading">>,
   <<"slicing", "failed">>, <<"uploading", "failed">>, <<"uploading", "done">>,
   <<"queued", "cancelled">>, <<"queued", "gone">>} \cup (TerminalStates \X {"gone"})

LifeOfAJob ==
  [][\A j \in Jobs : state'[j] # state[j] => <<state[j], state'[j]>> \in Transitions]_vars

\* A job is queued at most once, a done one exactly once, and a queue entry never
\* points at a file that is not the job's own, unless another job of that name has
\* written over it since.
EntryHasFile ==
  \A j \in Jobs :
    /\ state[j] = "done" => entries[j] = 1
    /\ entries[j] > 0 => card[NameOf[j]] = j \/ j \in replaced

\* No work is abandoned: a job in progress is in the hands of one worker, whatever
\* stop() and its time-out do, and a worker that nobody told to stop is alive.
Holding(j) == {t \in Threads : worker[t].pc \in {"slice", "upload", "queue", "finish"}
                               /\ worker[t].job = j}

WorkInHand ==
  /\ \A j \in Jobs : state[j] \in {"slicing", "uploading"} => \E t \in Threads : Holding(j) = {t}
  /\ handle # 0 /\ ~stopping => Alive(handle)

\* A job that was taken gets its verdict, whatever the lifecycle calls do.
TakenJobsFinish ==
  \A j \in Jobs :
    state[j] \in {"slicing", "uploading"} ~> state[j] \in TerminalStates \cup {"gone"}

\* While a worker is not told to stop, a waiting job does not wait for ever.
WaitingJobsMove ==
  \A j \in Jobs : state[j] = "queued" ~> state[j] # "queued" \/ stopping \/ handle = 0

===========================================================================
