---------------------------- MODULE PicCommands ----------------------------
(***************************************************************************)
(* The two controllers under a guest that writes any command to the ports  *)
(* at any time, while the devices raise and lower their lines.             *)
(***************************************************************************)
EXTENDS I8259

CONSTANTS Guests,      \* the guests considered, each a set of commands
          MaxQueue     \* bound: calls start with fewer vectors waiting

\* Every guest masks lines and ends interrupts.
ASSUME CommandAssumption ==
    /\ Guests \subseteq
         SUBSET {"rotate", "read", "poll", "special", "elcr", "init"}
    /\ MaxQueue \in Nat

VARIABLE guest     \* the commands of this guest, one of Guests

commandVars == <<vars, guest>>

\* A guest that initializes the controllers starts after Reset(), another one
\* after its initialization.
CommandsInit ==
    /\ guest \in Guests
    /\ IF "init" \in guest THEN ResetState ELSE ProgrammedState(Both({}))

Device == \E n \in IRQs, level \in BOOLEAN : HandleIRQ(n, level)

Rotates == IF "rotate" \in guest THEN BOOLEAN ELSE {FALSE}

Port(p) ==
    \/ \E m \in Masks : WriteMask(p, m)
    \/ \E r \in Rotates : NonSpecificEOI(p, r)
    \/ \E r \in Rotates, l \in Lines : SpecificEOI(p, l, r)
    \/ "rotate" \in guest /\ \E l \in Lines : SetPriority(p, l)
    \/ "rotate" \in guest /\ \E on \in BOOLEAN : SetRotateOnAutoEOI(p, on)
    \/ "read" \in guest /\ \E s \in {0, 1} : WriteOCW3(p, FALSE, <<s>>, <<>>)
    \/ "poll" \in guest /\ WriteOCW3(p, TRUE, <<>>, <<>>)
    \/ "special" \in guest
         /\ \E on \in BOOLEAN : WriteOCW3(p, FALSE, <<>>, <<on>>)
    \/ PollRead(p)
    \/ "elcr" \in guest /\ \E ls \in Masks : WriteELCR(p, ls)
    \/ "init" \in guest
         /\ \/ \E four \in BOOLEAN : WriteICW1(p, four)
            \/ WriteICW2(p) \/ WriteICW3(p)
            \/ \E nested, auto \in BOOLEAN : WriteICW4(p, nested, auto)

CommandsNext ==
    /\ \/ Len(queue) < MaxQueue /\ (Device \/ \E p \in Pics : Port(p))
       \/ PicStep
       \/ TakeVector
    /\ UNCHANGED guest

CommandsSpec == CommandsInit /\ [][CommandsNext]_commandVars
-----------------------------------------------------------------------------
\* The requests of a guest that neither reinitializes a controller nor uses
\* special mask mode, whose commands change priorities without UpdateIRQ.
NoRequestStranded == guest \cap {"init", "special"} = {} => NoStrandedRequest

\* Automatic EOI leaves nothing in service and a level triggered request stays
\* requested: a guest that has both on a line makes UpdateIRQ call itself for
\* ever, and is excepted.
RecursionEnds == ~({"init", "elcr"} \subseteq guest) => RecursionBounded

\* UpdateIRQ, whichever commands came before: its recursion ends, within the
\* registers, and leaves no request that it should have served.
UpdateServes == TypeOK /\ RecursionEnds /\ NoRequestStranded
=============================================================================
