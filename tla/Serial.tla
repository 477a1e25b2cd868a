------------------------------- MODULE Serial -------------------------------
(***************************************************************************)
(* The 16550A serial port (core/openxbox/hw/basic/serial.cpp) between the  *)
(* guest, which uses its registers on the CPU thread, and the thread of    *)
(* the character driver, which asks CanReceive, sends as many bytes with   *)
(* Receive, and reports breaks.  The port has no lock: each call is one    *)
(* step here, but any call of the guest may come between CanReceive and    *)
(* the Receive that relies on it.                                          *)
(*                                                                         *)
(* Both character drivers accept every byte they are given, so a byte that *)
(* the guest transmits is sent within the call and LSR.THRE and LSR.TEMT   *)
(* are set again when it returns.  The two InvokeLater timers are ideal    *)
(* here: they fire some time after they were set.                          *)
(***************************************************************************)
EXTENDS Naturals, Sequences

CONSTANTS
    Bytes,       \* bytes on the line
    Zero,        \* the byte that a break puts in the FIFO
    FifoLength,  \* UART_FIFO_LENGTH
    Levels,      \* the interrupt trigger levels
    EnableSets   \* what the guest writes to IER, sets of Enables

Enables == {"rls", "rdi", "thri", "msi"}

ASSUME SerialAssumption ==
    /\ EnableSets \subseteq SUBSET Enables
    /\ Levels \subseteq 1 .. FifoLength - 1 /\ Levels # {}
    /\ FifoLength \in Nat
    /\ Zero \in Bytes

VARIABLES
    ier,        \* m_ier: enabled interrupts
    lsr,        \* m_lsr: those of "DR", "OE", "BI" that are set
    fifoMode,   \* m_fcr & UART_FCR_FE
    itl,        \* m_recvFifoITL
    recv,       \* m_recvFifo
    rbr,        \* m_rbr
    loop,       \* m_mcr & UART_MCR_LOOP
    rts,        \* the other bits of m_mcr
    dlab,       \* m_lcr & UART_LCR_DLAB
    thrPending, \* m_thr_ipending
    timeout,    \* m_timeoutIpending
    iir,        \* m_iir, the identification only
    line,       \* the level of the interrupt line
    pollMsl,    \* m_pollMsl, 2 for -1
    fifoTimer,  \* m_fifoTimeoutTimer is set
    modemTimer, \* m_modemStatusPoll is set
    reader,     \* the driver's thread: "idle", or with bytes: "ask" or "send"
    granted     \* what CanReceive returned to it

irqVars    == <<iir, line>>
modeVars   == <<fifoMode, itl, loop, rts, dlab>>
timerVars  == <<fifoTimer, modemTimer, pollMsl>>
readerVars == <<reader, granted>>
rxVars     == <<lsr, recv, rbr, timeout>>
vars == <<ier, rxVars, modeVars, thrPending, irqVars, timerVars, readerVars>>

\* After the constructor, Init() and Reset().
Init ==
    /\ ier = {} /\ lsr = {} /\ fifoMode = FALSE
    /\ itl \in Levels /\ recv = <<>> /\ rbr = Zero
    /\ loop = FALSE /\ rts = FALSE /\ dlab = FALSE
    /\ thrPending = FALSE /\ timeout = FALSE
    /\ iir = "none" /\ line = FALSE
    /\ pollMsl = 0 /\ fifoTimer = FALSE /\ modemTimer = FALSE
    /\ reader = "idle" /\ granted = 0
-----------------------------------------------------------------------------
(* Interrupts.                                                              *)

BeyondLevel(n) == n > itl     \* mutant: the trigger level is not enough
TriggerReached(n) == n >= itl

\* What UpdateIRQ finds; no modem status bit ever changes (UpdateMSL).
Identification ==
    IF "rls" \in ier /\ lsr \cap {"OE", "BI"} # {} THEN "rls"
    ELSE IF "rdi" \in ier /\ timeout THEN "cti"
    ELSE IF /\ "rdi" \in ier /\ "DR" \in lsr
            /\ ~fifoMode \/ TriggerReached(Len(recv)) THEN "rdi"
    ELSE IF "thri" \in ier /\ thrPending THEN "thri"
    ELSE "none"

UpdateIRQ == iir' = Identification' /\ line' = (Identification' # "none")

\* The fields of the receiver after bytes have arrived.
Overrun(bytes) == IF fifoMode THEN Len(recv) + Len(bytes) > FifoLength
                  ELSE "DR" \in lsr

DropOldest(bytes) ==     \* mutant: an overrun overwrites the FIFO
    LET all == recv \o bytes
        n == IF Len(all) > FifoLength THEN Len(all) - FifoLength ELSE 0
    IN  SubSeq(all, n + 1, Len(all))
FifoPut(bytes) == SubSeq(recv \o bytes, 1,
                    IF Len(recv) + Len(bytes) > FifoLength
                    THEN FifoLength ELSE Len(recv) + Len(bytes))

Accept(bytes) ==
    /\ lsr' = lsr \cup {"DR"} \cup (IF Overrun(bytes) THEN {"OE"} ELSE {})
    /\ recv' = IF fifoMode THEN FifoPut(bytes) ELSE recv
    /\ rbr' = IF fifoMode THEN rbr ELSE Head(bytes)
    /\ fifoTimer' = (fifoTimer \/ fifoMode)
-----------------------------------------------------------------------------
(* The registers, read and written by the guest.                            *)

\* Port 0 with DLAB clear.  In FIFO mode the byte leaves the FIFO.
ReadRBR ==
    /\ ~dlab
    /\ recv' = IF fifoMode /\ recv # <<>> THEN Tail(recv) ELSE recv
    /\ lsr' = IF fifoMode /\ recv' # <<>> THEN lsr ELSE lsr \ {"DR", "BI"}
    /\ fifoTimer' = (fifoTimer \/ (fifoMode /\ recv' # <<>>))
    /\ timeout' = (timeout /\ ~fifoMode)
    /\ UNCHANGED <<ier, rbr, modeVars, thrPending, modemTimer, pollMsl,
                   readerVars>>
    /\ UpdateIRQ

\* The transmitter: to the driver, or back to the receiver in loopback.
Transmit(b) ==
    /\ IF loop THEN Accept(<<b>>) ELSE UNCHANGED <<lsr, recv, rbr, fifoTimer>>
    /\ thrPending' = TRUE

WriteTHR(b) ==
    /\ ~dlab
    /\ Transmit(b)
    /\ UNCHANGED <<ier, timeout, modeVars, modemTimer, pollMsl, readerVars>>
    /\ UpdateIRQ

\* UpdateMSL: polling is given up for good.
StopPolling == pollMsl' = 2 /\ modemTimer' = FALSE

NotUpdated == UNCHANGED irqVars     \* mutant: IER is stored and that is all
UpdateAfterIER == UpdateIRQ

WriteIER(enabled) ==
    /\ ~dlab
    /\ ier' = enabled
    /\ IF pollMsl = 2 THEN UNCHANGED <<pollMsl, modemTimer>>
       ELSE IF "msi" \in enabled THEN StopPolling
       ELSE pollMsl' = 0 /\ modemTimer' = FALSE
    /\ thrPending' = TRUE
    /\ UNCHANGED <<rxVars, modeVars, fifoTimer, readerVars>>
    /\ UpdateAfterIER

\* Reading IIR clears a transmitter interrupt.
ReadIIR ==
    /\ thrPending' = (thrPending /\ iir # "thri")
    /\ UNCHANGED <<ier, rxVars, modeVars, timerVars, readerVars>>
    /\ IF iir = "thri" THEN UpdateIRQ ELSE UNCHANGED irqVars

\* FCR: fe is the FIFO enable bit, which clears both FIFOs when it changes,
\* rfr the receiver FIFO reset bit.
WriteFCR(fe, level, rfr) ==
    LET clears == rfr \/ fe # fifoMode
    IN  /\ fifoMode' = fe
        /\ itl' = IF fe THEN level ELSE itl
        /\ recv' = IF clears THEN <<>> ELSE recv
        /\ timeout' = (timeout /\ ~clears)
        /\ fifoTimer' = (fifoTimer /\ ~clears)
        /\ UNCHANGED <<ier, lsr, rbr, loop, rts, dlab, thrPending,
                       modemTimer, pollMsl, readerVars>>
        /\ UpdateIRQ

WriteLCR(d) ==
    /\ dlab' = d
    /\ UNCHANGED <<ier, rxVars, fifoMode, itl, loop, rts, thrPending, irqVars,
                   timerVars, readerVars>>

WriteMCR(l, r) ==
    /\ loop' = l /\ rts' = r
    /\ modemTimer' = (modemTimer \/ (/\ ~l /\ pollMsl # 2
                                     /\ <<l, r>> # <<loop, rts>>))
    /\ UNCHANGED <<ier, rxVars, fifoMode, itl, dlab, thrPending, irqVars,
                   fifoTimer, pollMsl, readerVars>>

\* Reading LSR clears break and overrun.
ReadLSR ==
    /\ lsr \cap {"BI", "OE"} # {}
    /\ lsr' = lsr \ {"BI", "OE"}
    /\ UNCHANGED <<ier, recv, rbr, timeout, modeVars, thrPending, timerVars,
                   readerVars>>
    /\ UpdateIRQ

ReadMSR ==
    /\ ~loop /\ pollMsl # 2
    /\ StopPolling
    /\ UNCHANGED <<ier, rxVars, modeVars, thrPending, irqVars, fifoTimer,
                   readerVars>>

Guest == \/ ReadRBR \/ ReadIIR \/ ReadLSR \/ ReadMSR
         \/ \E b \in Bytes : WriteTHR(b)
         \/ \E e \in EnableSets : WriteIER(e)
         \/ \E fe, rfr \in BOOLEAN, level \in Levels : WriteFCR(fe, level, rfr)
         \/ \E d \in BOOLEAN : WriteLCR(d)
         \/ \E l, r \in BOOLEAN : WriteMCR(l, r)
-----------------------------------------------------------------------------
(* The driver's thread (Win32SerialDriver::ReaderFunc) and the timers.      *)

CanReceive ==
    IF fifoMode THEN IF Len(recv) = FifoLength THEN 0
                     ELSE IF Len(recv) <= itl THEN itl - Len(recv) ELSE 1
    ELSE IF "DR" \in lsr THEN 0 ELSE 1

\* The thread has read bytes from the line.
BytesArrive ==
    /\ reader = "idle" /\ reader' = "ask"
    /\ UNCHANGED <<ier, rxVars, modeVars, thrPending, irqVars, timerVars,
                   granted>>

\* The thread asks again and again while the answer is 0.
AskCanReceive ==
    /\ reader = "ask" /\ CanReceive > 0
    /\ granted' = CanReceive /\ reader' = "send"
    /\ UNCHANGED <<ier, rxVars, modeVars, thrPending, irqVars, timerVars>>

Receive ==
    /\ reader = "send"
    /\ \E n \in 1 .. granted, b \in Bytes : Accept([i \in 1 .. n |-> b])
    /\ reader' \in {"idle", "ask"} /\ granted' = 0
    /\ UNCHANGED <<ier, timeout, modeVars, thrPending, modemTimer, pollMsl>>
    /\ UpdateIRQ

\* A break puts a zero in the FIFO, whatever the mode.
ReceiveBreak ==
    /\ reader = "idle"
    /\ rbr' = Zero
    /\ recv' = FifoPut(<<Zero>>)
    /\ lsr' = lsr \cup {"BI", "DR"}
                  \cup (IF Len(recv) = FifoLength THEN {"OE"} ELSE {})
    /\ UNCHANGED <<ier, timeout, modeVars, thrPending, timerVars, readerVars>>
    /\ UpdateIRQ

\* The callbacks of the two timers are those that the constructor gave them.
FifoTimeoutTimerFires ==
    /\ fifoTimer /\ fifoTimer' = FALSE
    /\ StopPolling
    /\ UNCHANGED <<ier, rxVars, modeVars, thrPending, irqVars, readerVars>>

ModemStatusPollFires ==
    /\ modemTimer /\ modemTimer' = FALSE
    /\ timeout' = (timeout \/ recv # <<>>)
    /\ UNCHANGED <<ier, lsr, recv, rbr, modeVars, thrPending, fifoTimer,
                   pollMsl, readerVars>>
    /\ IF recv # <<>> THEN UpdateIRQ ELSE UNCHANGED irqVars

Driver == BytesArrive \/ AskCanReceive \/ Receive \/ ReceiveBreak
TimerFires == FifoTimeoutTimerFires \/ ModemStatusPollFires

Next == Guest \/ Driver \/ TimerFires

SafeSpec == Init /\ [][Next]_vars

\* The guest's interrupt handler does what IIR tells it to do.
Serve == \/ iir = "rls" /\ ReadLSR
         \/ iir \in {"rdi", "cti"} /\ ReadRBR
         \/ iir = "thri" /\ ReadIIR
         \/ dlab /\ WriteLCR(FALSE)

\* The environment of the liveness properties: after any use of the registers
\* the guest keeps the receiver's interrupts enabled and only handles
\* interrupts, and the line carries no more breaks.
Settled == Serve \/ BytesArrive \/ AskCanReceive \/ Receive \/ TimerFires
Spec == /\ SafeSpec
        /\ WF_vars(Serve) /\ WF_vars(AskCanReceive) /\ WF_vars(Receive)
        /\ WF_vars(FifoTimeoutTimerFires) /\ WF_vars(ModemStatusPollFires)
        /\ <>[][Settled]_vars /\ <>[]({"rls", "rdi"} \subseteq ier)
-----------------------------------------------------------------------------
\* Between two calls the interrupt line and IIR are what the registers call
\* for: no path changes a condition and forgets to update them.
InterruptMatchesState == iir = Identification /\ line = (iir # "none")

\* serial.cpp:466, "Receive overruns do not overwrite FIFO contents": what is
\* in the FIFO leaves it from the front or by a reset, never by an arrival.
OverrunKeepsContents ==
    [][(Receive \/ ReceiveBreak) =>
         SubSeq(recv', 1, Len(recv)) = recv]_vars

\* Flow control does not deadlock: when the driver's thread is refused, the
\* guest is interrupted and makes room.  CanReceive answers 0 when the FIFO
\* holds exactly as many bytes as the trigger level; UpdateIRQ must not wait
\* for one more.
ReaderResumes == (reader = "ask") ~> (reader = "send")
=============================================================================
