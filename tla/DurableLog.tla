---------------------------- MODULE DurableLog ----------------------------
(***************************************************************************)
(* What a persisted store promises: changes happen one after another, what *)
(* is on disk is the outcome of some first part of them and only moves     *)
(* forward, and a restart loses exactly the changes after that part.       *)
(***************************************************************************)
EXTENDS Naturals, Sequences

CONSTANT Values

VARIABLES
  log,       \* every value the store has had, oldest first
  durable    \* the one that is on disk

Init == /\ Len(log) = 1 /\ log[1] \in Values
        /\ durable = 1

Change == /\ Len(log') = Len(log) + 1
          /\ SubSeq(log', 1, Len(log)) = log
          /\ log'[Len(log')] \in Values
          /\ UNCHANGED durable

Sync == /\ durable' \in durable..Len(log)
        /\ UNCHANGED log

Restart == /\ log' = SubSeq(log, 1, durable)
           /\ UNCHANGED durable

Next == Change \/ Sync \/ Restart

Spec == Init /\ [][Next]_<<log, durable>>

===========================================================================
