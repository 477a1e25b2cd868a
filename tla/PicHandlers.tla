---------------------------- MODULE PicHandlers ----------------------------
(***************************************************************************)
(* The controllers, the queue of the CPU and a guest that handles          *)
(* interrupts: it takes a vector, runs its handler, which another vector   *)
(* may interrupt, and ends it with a specific EOI to the controller of the *)
(* line, followed, for a line of the slave, by one for line 2 of the       *)
(* master.  It may mask and unmask lines at any time.  The queue between   *)
(* the controllers and the guest is the one of InterruptQueue, here in its *)
(* abstract form: first in, first out, nothing lost.                       *)
(***************************************************************************)
EXTENDS I8259

CONSTANTS Level,      \* Level[pic]: the lines programmed as level triggered
          MaxNesting, \* bound: handlers that interrupt one another
          MaxRaises   \* bound: how often each line is raised

ASSUME HandlerAssumption ==
    /\ Level \in [Pics -> SUBSET (Lines \ {Cascade})]
    /\ MaxNesting \in Nat /\ MaxRaises \in Nat
    \* The guest gives the controllers distinct vectors.
    /\ \A p, q \in Pics, k, l \in Lines :
         Base[p] + k = Base[q] + l => p = q /\ k = l

VARIABLES handling,  \* vectors whose handlers have started, innermost last
          eois,      \* EOIs that the handler that is ending has yet to send
          raises     \* raises[n]: how often line n was raised

guestVars == <<handling, eois, raises>>
allVars == <<vars, guestVars>>

Init == /\ ProgrammedState(Level)
        /\ handling = <<>> /\ eois = <<>>
        /\ raises = [n \in IRQs |-> 0]

Pic(n)  == IF n < NumLines THEN Master ELSE Slave
Line(n) == n % NumLines

Raise(n) ==
    /\ raises[n] < MaxRaises
    /\ HandleIRQ(n, TRUE)
    /\ raises' = [raises EXCEPT ![n] = @ + 1]
    /\ UNCHANGED <<handling, eois>>

Lower(n) == HandleIRQ(n, FALSE) /\ UNCHANGED guestVars

\* The CPU takes the oldest vector and enters its handler.
TakeInterrupt ==
    /\ eois = <<>> /\ Len(handling) < MaxNesting
    /\ TakeVector
    /\ handling' = Append(handling, Head(queue))
    /\ UNCHANGED <<eois, raises>>

\* The EOIs that end the handler of a vector.
EOIsOf(v) ==
    IF \E l \in Lines : v = Base[Master] + l
    THEN <<<<Master, v - Base[Master]>>>>
    ELSE <<<<Slave, v - Base[Slave]>>, <<Master, Cascade>>>>

EndHandler ==
    /\ eois = <<>> /\ handling # <<>>
    /\ LET last == Len(handling)
       IN  /\ eois' = EOIsOf(handling[last])
           /\ handling' = SubSeq(handling, 1, last - 1)
    /\ UNCHANGED <<vars, raises>>

SendEOI ==
    /\ eois # <<>>
    /\ SpecificEOI(Head(eois)[1], Head(eois)[2], FALSE)
    /\ eois' = Tail(eois)
    /\ UNCHANGED <<handling, raises>>

ChangeMask == /\ \E p \in Pics, m \in Masks : WriteMask(p, m)
              /\ UNCHANGED guestVars

Next == \/ \E n \in IRQs : Raise(n) \/ Lower(n)
        \/ TakeInterrupt \/ EndHandler \/ SendEOI \/ ChangeMask
        \/ PicStep /\ UNCHANGED guestVars

SafeSpec == Init /\ [][Next]_allVars

\* A call runs to its end; the guest takes vectors, ends handlers, sends EOIs.
Spec == /\ SafeSpec
        /\ WF_allVars(PicStep /\ UNCHANGED guestVars)
        /\ WF_allVars(TakeInterrupt) /\ WF_allVars(EndHandler)
        /\ SF_allVars(SendEOI)
-----------------------------------------------------------------------------
\* The vectors on their way from a controller to the end of their handlers.
Outstanding == stack \o queue \o handling

\* A line is handled once per request: while a vector is on its way or its
\* handler runs, the same vector is not sent again, in whatever order EOIs,
\* masking and new requests arrive.
NoDuplicateVector ==
    \A i, j \in DOMAIN Outstanding :
       Outstanding[i] = Outstanding[j] => i = j

\* The handler of a spurious interrupt is never run.
VectorInService(v) == \/ \E l \in isr[Master] : v = Base[Master] + l
                \/ \E l \in isr[Slave] : v = Base[Slave] + l

OutstandingInService ==
    \A i \in DOMAIN Outstanding : VectorInService(Outstanding[i])

\* One request, one handler: no vector comes twice, and none without a request.
HandledOnce == NoDuplicateVector /\ OutstandingInService

\* A request that stays unmasked is served, unless the device withdraws it.
RequestServed ==
    \A n \in IRQs :
       (Line(n) \in irr[Pic(n)])
         ~> \/ Line(n) \in isr[Pic(n)]
            \/ Line(n) \notin irr[Pic(n)]
            \/ Line(n) \in imr[Pic(n)]
=============================================================================
