------------------------------ MODULE MCSerial ------------------------------
(* Small instances of Serial: a FIFO of three bytes. *)
EXTENDS Serial
CONSTANTS z, a
MCBytes == {z, a}
MCEnableSets == {{}, {"rdi"}, {"rls", "rdi"}, Enables}
=============================================================================
