------------------------------- MODULE I8259 -------------------------------
(***************************************************************************)
(* The pair of i8259 programmable interrupt controllers                    *)
(* (core/openxbox/hw/basic/i8259.cpp).  The slave's output is line 2 of    *)
(* the master; the master hands vectors to Cpu::Interrupt.                 *)
(*                                                                         *)
(* UpdateIRQ acknowledges the request it finds at once, inside the call,   *)
(* and the acknowledgement calls UpdateIRQ again BEFORE the vector of the  *)
(* outer call reaches the CPU.  That recursion is modelled step by step:   *)
(* "work" is the UpdateIRQ about to run and "stack" holds the vectors of   *)
(* the calls that have not returned.                                       *)
(*                                                                         *)
(* One call runs at a time: HandleIRQ is serialised by m_handleIRQMutex,   *)
(* and the port I/O of the CPU thread is assumed not to overlap it.        *)
(***************************************************************************)
EXTENDS Integers, Sequences

CONSTANTS
    NumLines,    \* lines per controller, 8 in the hardware
    IRQs,        \* the lines with a device, numbered 0 .. 2 * NumLines - 1
    Base,        \* Base[pic]: the vector base that the guest programs (ICW2)
    Masks        \* the sets of lines that the guest writes to IMR and ELCR

Master == "master"
Slave  == "slave"
Pics   == {Master, Slave}
Lines  == 0 .. NumLines - 1
Cascade == 2     \* the master line driven by the slave

ASSUME LineAssumption ==
    /\ NumLines \in Nat /\ NumLines > Cascade
    /\ IRQs \subseteq (0 .. 2 * NumLines - 1) \ {Cascade}
    /\ Base \in [Pics -> Nat]
    /\ Masks \subseteq SUBSET Lines

VARIABLES
    irr,       \* m_IRR: requested lines
    isr,       \* m_ISR: lines in service
    imr,       \* m_IMR: masked lines
    prev,      \* m_PreviousIRR: last level seen, for edge detection
    elcr,      \* m_ELCR: level triggered lines
    add,       \* m_PriorityAdd: the line of highest priority
    autoEOI,   \* m_AutoEOI
    rotate,    \* m_RotateOnAutoEOI
    special,   \* m_SpecialMask
    sfnm,      \* m_IsSpecialFullyNestedMode
    poll,      \* m_Poll
    select,    \* m_ReadRegisterSelect
    initState, \* m_InitState
    fourByte,  \* m_Is4ByteInit
    base,      \* m_Base
    work,      \* the UpdateIRQ to run, "unwind" (returning) or "idle"
    stack,     \* vectors of the calls in progress, innermost first
    queue      \* vectors given to Cpu::Interrupt and not yet taken

lineVars == <<irr, isr, prev>>
modeVars == <<elcr, autoEOI, rotate, special, sfnm>>
portVars == <<poll, select, initState, fourByte, base>>
vars == <<lineVars, imr, add, modeVars, portVars, work, stack, queue>>

TypeOK ==
    /\ irr \in [Pics -> SUBSET Lines] /\ isr \in [Pics -> SUBSET Lines]
    /\ imr \in [Pics -> SUBSET Lines] /\ prev \in [Pics -> SUBSET Lines]
    /\ elcr \in [Pics -> SUBSET Lines] /\ add \in [Pics -> Lines]
    /\ autoEOI \in [Pics -> BOOLEAN] /\ rotate \in [Pics -> BOOLEAN]
    /\ special \in [Pics -> BOOLEAN] /\ sfnm \in [Pics -> BOOLEAN]
    /\ poll \in [Pics -> BOOLEAN] /\ select \in [Pics -> {0, 1}]
    /\ initState \in [Pics -> 0 .. 3] /\ fourByte \in [Pics -> BOOLEAN]
    /\ base \in [Pics -> Nat]
    /\ work \in Pics \cup {"unwind", "idle"}
    /\ stack \in Seq(Nat) /\ queue \in Seq(Nat)

Both(x) == [p \in Pics |-> x]

\* After Reset(), before the guest has programmed the controllers.
ResetState ==
    /\ irr = Both({}) /\ isr = Both({}) /\ imr = Both({}) /\ prev = Both({})
    /\ elcr = Both({}) /\ add = Both(0)
    /\ autoEOI = Both(FALSE) /\ rotate = Both(FALSE)
    /\ special = Both(FALSE) /\ sfnm = Both(FALSE)
    /\ poll = Both(FALSE) /\ select = Both(0)
    /\ initState = Both(0) /\ fourByte = Both(FALSE) /\ base = Both(0)
    /\ work = "idle" /\ stack = <<>> /\ queue = <<>>

\* After ICW1-ICW4 and the writes of IMR and ELCR with which a guest sets up
\* both controllers.
ProgrammedState(levelLines) ==
    /\ irr = Both({}) /\ isr = Both({}) /\ prev = Both({})
    /\ imr \in [Pics -> Masks]
    /\ elcr = levelLines /\ add = Both(0)
    /\ autoEOI = Both(FALSE) /\ rotate = Both(FALSE)
    /\ special = Both(FALSE) /\ sfnm = Both(FALSE)
    /\ poll = Both(FALSE) /\ select = Both(0)
    /\ initState = Both(0) /\ fourByte = Both(TRUE) /\ base = Base
    /\ work = "idle" /\ stack = <<>> /\ queue = <<>>
-----------------------------------------------------------------------------
(* Priorities.                                                              *)

\* Distance from the line of highest priority: 0 is served first.
Rank(p, l) == (l - add[p]) % NumLines

\* The line that becomes the one of highest priority when l gets the lowest.
PastTheEnd(l) == l + 1     \* mutant: the sum is not reduced to a line
NextLine(l) == (l + 1) % NumLines

\* The lines in service that hold back a request of lower priority.
NothingBlocks(p) == {}     \* mutant: nesting is not controlled
Blocking(p) == { l \in isr[p] : /\ special[p] => l \notin imr[p]
                                /\ ~(sfnm[p] /\ p = Master /\ l = Cascade) }

\* GetIRQ: the line to serve next, as a set that is empty when there is none.
GetIRQ(p) ==
    LET requests == irr[p] \ imr[p]
    IN  { l \in requests :
            /\ \A r \in requests : Rank(p, l) <= Rank(p, r)
            /\ \A s \in Blocking(p) : Rank(p, l) < Rank(p, s) }
-----------------------------------------------------------------------------
(* The body of a call: SetIRQ, AcknowledgeIRQ and the recursion of UpdateIRQ. *)

\* SetIRQ(p, l, asserted) up to its call of UpdateIRQ.
SetIRQ(p, l, asserted) ==
    /\ irr' = [irr EXCEPT ![p] =
                 IF ~asserted THEN @ \ {l}
                 ELSE IF l \in elcr[p] \/ l \notin prev[p] THEN @ \cup {l}
                 ELSE @]
    /\ prev' = [prev EXCEPT ![p] = IF asserted THEN @ \cup {l} ELSE @ \ {l}]

NotMarked(p, l) == isr     \* mutant: the line is not put in service
InService(p, l) == [isr EXCEPT ![p] = IF autoEOI[p] THEN @ ELSE @ \cup {l}]

KeepRequest(p, l) == irr     \* mutant: an edge request is not consumed
Acknowledged(p, l) == [irr EXCEPT ![p] = IF l \in elcr[p] THEN @ ELSE @ \ {l}]

\* AcknowledgeIRQ(p, l) up to its call of UpdateIRQ.
Acknowledge(p, l) ==
    /\ isr' = InService(p, l)
    /\ irr' = Acknowledged(p, l)
    /\ add' = [add EXCEPT ![p] = IF autoEOI[p] /\ rotate[p]
                                 THEN NextLine(l) ELSE @]
    /\ work' = p

\* UpdateIRQ(Slave): the slave drives line 2 of the master.
UpdateSlave ==
    /\ work = Slave
    /\ SetIRQ(Master, Cascade, GetIRQ(Slave) # {})
    /\ work' = Master
    /\ UNCHANGED <<isr, imr, add, modeVars, portVars, stack, queue>>

\* UpdateIRQ(Master) with nothing to serve: the call returns.
UpdateMasterNone ==
    /\ work = Master
    /\ GetIRQ(Master) = {}
    /\ work' = "unwind"
    /\ UNCHANGED <<lineVars, imr, add, modeVars, portVars, stack, queue>>

\* GetCurrentIRQ acknowledges a line of the master ...
ServeMaster ==
    /\ work = Master
    /\ \E l \in GetIRQ(Master) \ {Cascade} :
         /\ Acknowledge(Master, l)
         /\ stack' = <<base[Master] + l>> \o stack
    /\ UNCHANGED <<prev, imr, modeVars, portVars, queue>>

\* ... or a line of the slave, in which case the master's line 2 is NOT put in
\* service ...
ServeSlave ==
    /\ work = Master
    /\ Cascade \in GetIRQ(Master)
    /\ \E l \in GetIRQ(Slave) :
         /\ Acknowledge(Slave, l)
         /\ stack' = <<base[Slave] + l>> \o stack
    /\ UNCHANGED <<prev, imr, modeVars, portVars, queue>>

\* ... or finds that the slave has withdrawn its request.
ServeSpurious ==
    /\ work = Master
    /\ Cascade \in GetIRQ(Master)
    /\ GetIRQ(Slave) = {}
    /\ stack' = <<base[Slave] + NumLines - 1>> \o stack
    /\ work' = "unwind"
    /\ UNCHANGED <<lineVars, imr, add, modeVars, portVars, queue>>

\* The calls return, innermost first, each giving its vector to the CPU.
Interrupt ==
    /\ work = "unwind" /\ stack # <<>>
    /\ queue' = Append(queue, Head(stack))
    /\ stack' = Tail(stack)
    /\ UNCHANGED <<lineVars, imr, add, modeVars, portVars, work>>

Return ==
    /\ work = "unwind" /\ stack = <<>>
    /\ work' = "idle"
    /\ UNCHANGED <<lineVars, imr, add, modeVars, portVars, stack, queue>>

PicStep == \/ UpdateSlave \/ UpdateMasterNone \/ ServeMaster \/ ServeSlave
           \/ ServeSpurious \/ Interrupt \/ Return
-----------------------------------------------------------------------------
(* The calls.                                                               *)

\* HandleIRQ(n, level), from a device.
HandleIRQ(n, level) ==
    LET p == IF n < NumLines THEN Master ELSE Slave
    IN  /\ work = "idle"
        /\ SetIRQ(p, n % NumLines, level)
        /\ work' = p
        /\ UNCHANGED <<isr, imr, add, modeVars, portVars, stack, queue>>

\* DataWrite outside an initialization sequence: OCW1, the mask.
NoUpdate(p) == work' = work     \* mutant: the mask is stored and that is all
UpdateAfterMask(p) == work' = p

WriteMask(p, m) ==
    /\ work = "idle" /\ initState[p] = 0
    /\ imr' = [imr EXCEPT ![p] = m]
    /\ UpdateAfterMask(p)
    /\ UNCHANGED <<lineVars, add, modeVars, portVars, stack, queue>>

\* CommandWrite, commands 1 and 5: end of interrupt of the line in service
\* that has the highest priority; nothing happens when none is in service.
NonSpecificEOI(p, rotates) ==
    /\ work = "idle"
    /\ \E l \in isr[p] :
         /\ \A s \in isr[p] : Rank(p, l) <= Rank(p, s)
         /\ isr' = [isr EXCEPT ![p] = @ \ {l}]
         /\ add' = [add EXCEPT ![p] = IF rotates THEN NextLine(l) ELSE @]
    /\ work' = p
    /\ UNCHANGED <<irr, prev, imr, modeVars, portVars, stack, queue>>

\* Commands 3 and 7: end of interrupt of line l.
SpecificEOI(p, l, rotates) ==
    /\ work = "idle"
    /\ isr' = [isr EXCEPT ![p] = @ \ {l}]
    /\ add' = [add EXCEPT ![p] = IF rotates THEN NextLine(l) ELSE @]
    /\ work' = p
    /\ UNCHANGED <<irr, prev, imr, modeVars, portVars, stack, queue>>

\* Command 6: line l gets the lowest priority.
SetPriority(p, l) ==
    /\ work = "idle"
    /\ add' = [add EXCEPT ![p] = NextLine(l)]
    /\ work' = p
    /\ UNCHANGED <<lineVars, imr, modeVars, portVars, stack, queue>>

\* Commands 0 and 4.
SetRotateOnAutoEOI(p, on) ==
    /\ work = "idle"
    /\ rotate' = [rotate EXCEPT ![p] = on]
    /\ UNCHANGED <<lineVars, imr, add, elcr, autoEOI, special, sfnm, portVars,
                   work, stack, queue>>

\* OCW3, each of whose three parts is optional (<<>>); no UpdateIRQ.
WriteOCW3(p, polls, reads, masks) ==
    /\ work = "idle"
    /\ poll' = [poll EXCEPT ![p] = @ \/ polls]
    /\ select' = [select EXCEPT ![p] = IF reads = <<>> THEN @ ELSE reads[1]]
    /\ special' = [special EXCEPT ![p] = IF masks = <<>> THEN @ ELSE masks[1]]
    /\ UNCHANGED <<lineVars, imr, add, elcr, autoEOI, rotate, sfnm, initState,
                   fourByte, base, work, stack, queue>>

\* CommandRead returns m_ISR whatever register was selected: the test of the
\* array m_ReadRegisterSelect, not of its element, is always true.
CommandRead(p) == isr[p]

\* A read of either port in poll mode acknowledges a request.
PollRead(p) ==
    /\ work = "idle" /\ poll[p]
    /\ poll' = [poll EXCEPT ![p] = FALSE]
    /\ \/ /\ GetIRQ(p) = {}
          /\ UNCHANGED <<lineVars, add, work>>
       \/ \E l \in GetIRQ(p) : Acknowledge(p, l) /\ UNCHANGED prev
    /\ UNCHANGED <<imr, modeVars, select, initState, fourByte, base, stack, queue>>

\* ICW1 resets the controller, its mask and its base included.
WriteICW1(p, needsICW4) ==
    /\ work = "idle"
    /\ irr' = [irr EXCEPT ![p] = {}] /\ isr' = [isr EXCEPT ![p] = {}]
    /\ imr' = [imr EXCEPT ![p] = {}] /\ prev' = [prev EXCEPT ![p] = {}]
    /\ add' = [add EXCEPT ![p] = 0]
    /\ autoEOI' = [autoEOI EXCEPT ![p] = FALSE]
    /\ rotate' = [rotate EXCEPT ![p] = FALSE]
    /\ special' = [special EXCEPT ![p] = FALSE]
    /\ sfnm' = [sfnm EXCEPT ![p] = FALSE]
    /\ poll' = [poll EXCEPT ![p] = FALSE]
    /\ select' = [select EXCEPT ![p] = 0]
    /\ base' = [base EXCEPT ![p] = 0]
    /\ initState' = [initState EXCEPT ![p] = 1]
    /\ fourByte' = [fourByte EXCEPT ![p] = needsICW4]
    /\ work' = p
    /\ UNCHANGED <<elcr, stack, queue>>

\* ICW2 sets the vector base; ICW3 is skipped over.
WriteICW2(p) ==
    /\ work = "idle" /\ initState[p] = 1
    /\ base' = [base EXCEPT ![p] = Base[p]]
    /\ initState' = [initState EXCEPT ![p] = 2]
    /\ UNCHANGED <<lineVars, imr, add, modeVars, poll, select, fourByte, work, stack, queue>>

WriteICW3(p) ==
    /\ work = "idle" /\ initState[p] = 2
    /\ initState' = [initState EXCEPT ![p] = IF fourByte[p] THEN 3 ELSE 0]
    /\ UNCHANGED <<lineVars, imr, add, modeVars, poll, select, fourByte, base,
                   work, stack, queue>>

WriteICW4(p, nested, auto) ==
    /\ work = "idle" /\ initState[p] = 3
    /\ sfnm' = [sfnm EXCEPT ![p] = nested]
    /\ autoEOI' = [autoEOI EXCEPT ![p] = auto]
    /\ initState' = [initState EXCEPT ![p] = 0]
    /\ UNCHANGED <<lineVars, imr, add, elcr, rotate, special, poll, select,
                   fourByte, base, work, stack, queue>>

\* The ELCR ports; m_ELCRMask keeps some lines edge triggered.
WriteELCR(p, ls) ==
    /\ work = "idle"
    /\ elcr' = [elcr EXCEPT ![p] = ls \ (IF p = Master THEN 0 .. 2 ELSE {0, 5})]
    /\ UNCHANGED <<lineVars, imr, add, autoEOI, rotate, special, sfnm,
                   portVars, work, stack, queue>>

\* The CPU takes the oldest vector (Cpu::InjectPendingInterrupt).
TakeVector ==
    /\ queue # <<>>
    /\ queue' = Tail(queue)
    /\ UNCHANGED <<lineVars, imr, add, modeVars, portVars, work, stack>>
-----------------------------------------------------------------------------
(* Properties of the controllers, whatever drives them.                     *)

\* The recursion of UpdateIRQ ends: every nested call consumes a request or
\* raises the priority in service, so it is no deeper than there are lines.
RecursionBounded == Len(stack) <= 2 * NumLines

\* UpdateIRQ is the only place that interrupts the CPU.  Between two calls no
\* request is left that it would have served, and the master sees the slave's
\* output: no path forgets to call UpdateIRQ on the controller it changed.
NoStrandedRequest ==
    work = "idle" => /\ GetIRQ(Master) = {}
                     /\ Cascade \in irr[Master] <=> GetIRQ(Slave) # {}
=============================================================================
