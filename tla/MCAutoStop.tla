---------------------------- MODULE MCAutoStop ----------------------------
(* One controller, two classes, confidences 0..1.  Time is in units of     *)
(* 2.5 s: sustain_s = 10 s is 4 units and verify_s = 5 s is 2.             *)
EXTENDS AutoStop
===========================================================================
