------------------------- MODULE InterruptDelivery -------------------------
(***************************************************************************)
(* What Cpu::Interrupt promises to the devices (cpu-module/openxbox/cpu.h, *)
(* cpu.cpp): the vectors are handled one at a time, in the order in which  *)
(* they were raised, each exactly once, and none waits for ever unless the *)
(* emulation has stopped.                                                  *)
(***************************************************************************)
EXTENDS Naturals, Sequences

CONSTANTS Vectors,    \* interrupt vectors
          MaxRaised   \* bound: how many interrupts the devices raise

VARIABLES raised,     \* every vector raised, in order
          handled,    \* every vector taken off the queue, in order
          halted      \* the emulation loop has ended

vars == <<raised, handled, halted>>

Init == raised = <<>> /\ handled = <<>> /\ halted = FALSE

\* A device raises vector v.
Raise(v) ==
    /\ Len(raised) < MaxRaised
    /\ raised' = Append(raised, v)
    /\ UNCHANGED <<handled, halted>>

\* The CPU thread takes the oldest vector that it has not handled yet.
Handle ==
    /\ ~halted
    /\ Len(handled) < Len(raised)
    /\ handled' = Append(handled, raised[Len(handled) + 1])
    /\ UNCHANGED <<raised, halted>>

\* The emulation loop ends.
Halt == ~halted /\ halted' = TRUE /\ UNCHANGED <<raised, handled>>

Next == (\E v \in Vectors : Raise(v)) \/ Handle \/ Halt

SafeSpec == Init /\ [][Next]_vars

Spec == SafeSpec /\ WF_vars(Handle)
=============================================================================
