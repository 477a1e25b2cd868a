-------------------------- MODULE MCInterruptQueue --------------------------
(* Small instances of InterruptQueue. *)
EXTENDS InterruptQueue
CONSTANTS v1, v2, d1, Cpu
MCVectors == {v1, v2}
MCDevices == {d1}
=============================================================================
