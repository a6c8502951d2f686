-------------------------- MODULE MCDetectionLoop --------------------------
(* MCDetectionLoop.cfg counts in units of 5 s: sustain_s is 2 units,       *)
(* verify_s and TERMINATE_TIMEOUT_S are 1.  stale_after is                 *)
(* max(3, 2.5 * interval) s: 1 unit with --detect-interval 2.              *)
(* StaleStatus.cfg counts in units of 2.5 s and has the default interval,  *)
(* whose 12.5 s are 5 units.  In both the camera is on the one printer or  *)
(* on none; to a printer it makes no difference where else the camera is.  *)
EXTENDS DetectionLoop
===========================================================================
