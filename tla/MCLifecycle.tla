---------------------------- MODULE MCLifecycle ----------------------------
(* Small instances of Lifecycle: two commands to the timer, two codes. *)
EXTENDS Lifecycle
CONSTANTS t1, t2
MCTimers == {t1, t2}
=============================================================================
