---------------------------- MODULE MCSliceJobs ----------------------------
(* Jobs j1 and j3 slice to the same file name, j2 to another.               *)
EXTENDS SliceJobs, TLC

CONSTANTS j1, j2, j3, a, b

SameName == (j1 :> a) @@ (j2 :> b) @@ (j3 :> a)

===========================================================================
