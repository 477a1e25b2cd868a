--------------------------- MODULE Devices_proofs ---------------------------
(***************************************************************************)
(* The devices behind port I/O: the serial port and its one-shot timers,   *)
(* for any FIFO, trigger levels, bytes and callers; the ATA channels and   *)
(* the SMBus controller of the chipset, for any routines of the guest.     *)
(***************************************************************************)
EXTENDS Chipset, Serial, InvokeLater, TLAPS, SequenceTheorems

(* The one-shot timer of the serial ports.  Any number of threads may set, *)
(* cancel and stop it.                                                     *)

Steps == {"unprime", "notifySetup", "notifyTimed", "aim", "prime", "stop"}

Places == {"test", "setup", "waitSetup", "arm", "waitTimed", "check",
           "checkPrimed", "invoke", "exited"}

TimerTypes ==
    /\ thread \in Places
    /\ running \in BOOLEAN
    /\ call \in [Callers -> Seq(Steps)]
    /\ late \in Nat

\* The thread that was past both tests when m_running was cleared invokes the
\* callback and meets the loop test next: a notification cannot move it there.
LateInv == \/ late = 0
           \/ late = 1 /\ ~running /\ thread \in {"test", "exited"}

TimerInv == TimerTypes /\ LateInv
-----------------------------------------------------------------------------
\* The three calls are sequences of the steps Perform knows.
LEMMA CallsAreSteps ==
  /\ CancelSteps \in Seq(Steps)
  /\ SetSteps \in Seq(Steps)
  /\ StopSteps \in Seq(Steps)
BY DEF CancelSteps, SetSteps, StopSteps, Steps

\* A step of a call clears m_running or leaves it, and moves the thread only
\* where it waits.
LEMMA PerformMoves ==
  ASSUME NEW c, NEW step \in Steps, Perform(c, step), TimerTypes
  PROVE  /\ running' \in BOOLEAN /\ (running' => running)
         /\ thread' \in Places
         /\ thread \in {"test", "exited"} => thread' = thread
BY DEF Perform, Steps, Notify, objectVars, TimerTypes, Places

LEMMA CallerKeeps ==
  ASSUME TimerInv, NEW c \in Callers, Set(c) \/ Cancel(c) \/ Stop(c) \/ CallStep(c)
  PROVE  TimerInv'
<1>1. ASSUME NEW s \in Seq(Steps), Begin(c, s) PROVE TimerInv'
  <2>1. UNCHANGED <<thread, running, late>> /\ call' = [call EXCEPT ![c] = s]
    BY <1>1 DEF Begin, objectVars
  <2>2. call' \in [Callers -> Seq(Steps)]
    BY <1>1, <2>1 DEF TimerInv, TimerTypes
  <2> QED
    BY <2>1, <2>2 DEF TimerInv, TimerTypes, LateInv
<1>2. CASE Set(c) \/ Cancel(c) \/ Stop(c)
  BY <1>1, <1>2, CallsAreSteps DEF Set, Cancel, Stop
<1>3. CASE CallStep(c)
  <2>1. /\ call[c] \in Seq(Steps) /\ call[c] # <<>>
        /\ call' = [call EXCEPT ![c] = Tail(call[c])] /\ late' = late
        /\ Perform(c, Head(call[c]))
    BY <1>3 DEF CallStep, TimerInv, TimerTypes
  <2>2. Head(call[c]) \in Steps /\ Tail(call[c]) \in Seq(Steps)
    BY <2>1
  <2>3. /\ running' \in BOOLEAN /\ (running' => running)
        /\ thread' \in Places
        /\ thread \in {"test", "exited"} => thread' = thread
    BY <2>1, <2>2, PerformMoves DEF TimerInv
  <2>4. call' \in [Callers -> Seq(Steps)]
    BY <2>1, <2>2 DEF TimerInv, TimerTypes
  <2> QED
    BY <2>1, <2>3, <2>4 DEF TimerInv, TimerTypes, LateInv
<1> QED
  BY <1>2, <1>3

LEMMA ThreadKeeps ==
  TimerInv /\ (ThreadStep \/ SpuriousWakeup \/ Tick \/ UNCHANGED laterVars) => TimerInv'
<1> SUFFICES ASSUME TimerInv,
                    ThreadStep \/ SpuriousWakeup \/ Tick \/ UNCHANGED laterVars
             PROVE  TimerInv'
  OBVIOUS
<1>1. running' = running /\ call' = call
  BY DEF ThreadStep, SpuriousWakeup, Tick, TestRunning, WaitSetup, WaitTimed,
     Timeout, CheckRunning, CheckPrimed, Invoke, Goes, objectVars, callVars, laterVars
<1>2. CASE Invoke
  BY <1>1, <1>2 DEF Invoke, Goes, TimerInv, TimerTypes, LateInv, Places
<1>3. CASE TestRunning
  BY <1>1, <1>3 DEF TestRunning, KeepsRunning, Goes, TimerInv, TimerTypes, LateInv,
     Places
<1>4. CASE WaitSetup \/ WaitTimed \/ Timeout \/ CheckRunning \/ CheckPrimed
           \/ SpuriousWakeup
  <2>1. /\ late' = late /\ thread \notin {"test", "exited"}
        /\ thread' \in Places
    BY <1>4 DEF WaitSetup, WaitTimed, Timeout, CheckRunning, CheckPrimed,
       SpuriousWakeup, Goes, Places
  <2> QED
    BY <1>1, <2>1 DEF TimerInv, TimerTypes, LateInv
<1>5. CASE Tick \/ UNCHANGED laterVars
  BY <1>1, <1>5 DEF Tick, laterVars, TimerInv, TimerTypes, LateInv
<1> QED
  BY <1>2, <1>3, <1>4, <1>5 DEF ThreadStep

LEMMA TimerAlways == LaterSpec => []TimerInv
<1>1. LaterInit => TimerInv
  BY DEF LaterInit, TimerInv, TimerTypes, LateInv, Places
<1>2. TimerInv /\ [LaterNext]_laterVars => TimerInv'
  BY CallerKeeps, ThreadKeeps DEF LaterNext
<1> QED
  BY <1>1, <1>2, PTL DEF LaterSpec
-----------------------------------------------------------------------------
\* Whatever the other callers do, and however often a wait ends without a
\* notification, the callback is invoked at most once after Stop() cleared
\* m_running.
THEOREM OneInvocationAfterStop == LaterSpec => []OneLateInvocation
<1>1. TimerInv => OneLateInvocation
  BY DEF TimerInv, LateInv, OneLateInvocation
<1> QED
  BY <1>1, TimerAlways, PTL
-----------------------------------------------------------------------------
(* The serial port.                                                        *)

\* Between two calls the FIFO is never above its length, and the thread of
\* the driver holds what CanReceive granted it.
PortTypes ==
    /\ ier \subseteq Enables /\ lsr \subseteq {"DR", "OE", "BI"}
    /\ fifoMode \in BOOLEAN /\ itl \in Levels
    /\ thrPending \in BOOLEAN /\ timeout \in BOOLEAN
    /\ recv \in Seq(Bytes) /\ Len(recv) <= FifoLength
    /\ granted \in 0 .. FifoLength

PortInv == PortTypes /\ InterruptMatchesState
-----------------------------------------------------------------------------
LEMMA PortFacts ==
  /\ FifoLength \in Nat /\ Zero \in Bytes
  /\ \A level \in Levels : level \in 1 .. FifoLength - 1
  /\ \A e \in EnableSets : e \subseteq Enables
BY SerialAssumption

\* Putting bytes into the FIFO keeps what is there and its length.
LEMMA FifoPutKeeps ==
  ASSUME PortTypes, NEW bytes \in Seq(Bytes)
  PROVE  /\ FifoPut(bytes) \in Seq(Bytes) /\ Len(FifoPut(bytes)) <= FifoLength
         /\ SubSeq(FifoPut(bytes), 1, Len(recv)) = recv
<1>1. Len(recv) \in Nat /\ Len(bytes) \in Nat /\ FifoLength \in Nat /\ Len(recv) <= FifoLength
  BY PortFacts DEF PortTypes
<1>2. PICK n \in Nat : n = IF Len(recv) + Len(bytes) > FifoLength
                           THEN FifoLength ELSE Len(recv) + Len(bytes)
  BY <1>1
<1>3. PICK all \in Seq(Bytes) : all = recv \o bytes
  <2>1. recv \in Seq(Bytes)
    BY DEF PortTypes
  <2>2. recv \o bytes \in Seq(Bytes)
    BY <2>1, ConcatProperties
  <2> QED
    BY <2>2
<1>4. /\ Len(all) = Len(recv) + Len(bytes)
      /\ \A i \in 1 .. Len(recv) : all[i] = recv[i]
      /\ \A i \in 1 .. Len(all) : all[i] \in Bytes
  BY <1>3 DEF PortTypes
<1>5. Len(recv) <= n /\ n <= FifoLength /\ n <= Len(all)
  BY <1>1, <1>2, <1>4
<1>6. /\ SubSeq(all, 1, n) \in Seq(Bytes) /\ Len(SubSeq(all, 1, n)) = n
      /\ \A i \in 1 .. n : SubSeq(all, 1, n)[i] = all[i]
  BY <1>4, <1>5, SubSeqProperties
<1>7. PICK put \in Seq(Bytes) : put = SubSeq(all, 1, n)
  BY <1>6
<1>8. Len(put) = n /\ \A i \in 1 .. Len(recv) : put[i] = recv[i] /\ put[i] \in Bytes
  BY <1>1, <1>4, <1>5, <1>6, <1>7
<1>9. /\ SubSeq(put, 1, Len(recv)) \in Seq(Bytes) /\ Len(SubSeq(put, 1, Len(recv))) = Len(recv)
      /\ \A i \in 1 .. Len(recv) : SubSeq(put, 1, Len(recv))[i] = put[i]
  BY <1>1, <1>8, SubSeqProperties
<1>10. SubSeq(put, 1, Len(recv)) = recv
  BY <1>8, <1>9 DEF PortTypes
<1>11. FifoPut(bytes) = put
  BY <1>2, <1>3, <1>7 DEF FifoPut
<1> QED
  BY <1>5, <1>8, <1>10, <1>11

\* The receiver's fields after bytes have arrived.
LEMMA AcceptKeeps ==
  ASSUME PortTypes, NEW bytes \in Seq(Bytes), Accept(bytes)
  PROVE  /\ recv' \in Seq(Bytes) /\ Len(recv') <= FifoLength
         /\ SubSeq(recv', 1, Len(recv)) = recv
         /\ lsr' \subseteq {"DR", "OE", "BI"}
<1>1. lsr' \subseteq {"DR", "OE", "BI"}
  BY DEF Accept, PortTypes
<1>2. CASE fifoMode
  BY <1>1, <1>2, FifoPutKeeps DEF Accept
<1>3. CASE ~fifoMode
  <2>1. recv' = recv /\ SubSeq(recv, 1, Len(recv)) = recv
    BY <1>3, SubSeqFull DEF Accept, PortTypes
  <2> QED
    BY <1>1, <2>1 DEF PortTypes
<1> QED
  BY <1>2, <1>3

\* The bytes the driver's thread sends are as many as CanReceive granted, and
\* none of those that were in the FIFO is lost.
LEMMA ReceiveKeeps ==
  ASSUME PortTypes, Receive
  PROVE  /\ recv' \in Seq(Bytes) /\ Len(recv') <= FifoLength
         /\ SubSeq(recv', 1, Len(recv)) = recv
         /\ lsr' \subseteq {"DR", "OE", "BI"}
<1>1. PICK n \in 1 .. granted, b \in Bytes : Accept([i \in 1 .. n |-> b])
  BY DEF Receive
<1>2. n \in Nat
  BY DEF PortTypes
<1>3. [i \in 1 .. n |-> b] \in Seq(Bytes)
  BY <1>2
<1> QED
  BY <1>1, <1>3, AcceptKeeps

LEMMA BreakKeeps ==
  ASSUME PortTypes, ReceiveBreak
  PROVE  /\ recv' \in Seq(Bytes) /\ Len(recv') <= FifoLength
         /\ SubSeq(recv', 1, Len(recv)) = recv
         /\ lsr' \subseteq {"DR", "OE", "BI"}
<1>1. <<Zero>> \in Seq(Bytes)
  BY PortFacts
<1> QED
  BY <1>1, FifoPutKeeps DEF ReceiveBreak, PortTypes

LEMMA GrantFits ==
  ASSUME PortTypes
  PROVE  CanReceive \in 0 .. FifoLength
<1>1. Len(recv) \in Nat /\ itl \in 1 .. FifoLength - 1 /\ FifoLength \in Nat
  BY PortFacts DEF PortTypes
<1> QED
  BY <1>1 DEF CanReceive
-----------------------------------------------------------------------------
LEMMA GuestTypesKept ==
  ASSUME PortTypes, Guest
  PROVE  PortTypes'
<1> USE PortFacts
<1>1. CASE ReadRBR
  <2>1. recv' \in Seq(Bytes) /\ Len(recv') <= FifoLength
    BY <1>1 DEF ReadRBR, PortTypes
  <2>2. lsr' \subseteq lsr /\ timeout' \in BOOLEAN
    BY <1>1 DEF ReadRBR
  <2> QED
    BY <1>1, <2>1, <2>2 DEF ReadRBR, PortTypes, modeVars, readerVars
<1>2. ASSUME NEW b \in Bytes, WriteTHR(b) PROVE PortTypes'
  <2>1. CASE loop
    <3>1. <<b>> \in Seq(Bytes) /\ Accept(<<b>>)
      BY <1>2, <2>1 DEF WriteTHR, Transmit
    <3> QED
      BY <1>2, <3>1, AcceptKeeps DEF WriteTHR, Transmit, PortTypes, modeVars, readerVars
  <2>2. CASE ~loop
    BY <1>2, <2>2 DEF WriteTHR, Transmit, PortTypes, modeVars, readerVars
  <2> QED
    BY <2>1, <2>2
<1>3. ASSUME NEW e \in EnableSets, WriteIER(e) PROVE PortTypes'
  BY <1>3 DEF WriteIER, PortTypes, rxVars, modeVars, readerVars
<1>4. CASE ReadIIR
  BY <1>4 DEF ReadIIR, PortTypes, rxVars, modeVars, readerVars
<1>5. ASSUME NEW fe \in BOOLEAN, NEW rfr \in BOOLEAN, NEW level \in Levels, WriteFCR(fe, level, rfr)
      PROVE  PortTypes'
  <2>1. recv' \in Seq(Bytes) /\ Len(recv') <= FifoLength
    BY <1>5 DEF WriteFCR, PortTypes
  <2>2. timeout' \in BOOLEAN /\ fifoMode' \in BOOLEAN /\ itl' \in Levels
    BY <1>5 DEF WriteFCR, PortTypes
  <2> QED
    BY <1>5, <2>1, <2>2 DEF WriteFCR, PortTypes, readerVars
<1>6. CASE (\E d \in BOOLEAN : WriteLCR(d)) \/ (\E l, r \in BOOLEAN : WriteMCR(l, r)) \/ ReadMSR
  BY <1>6 DEF WriteLCR, WriteMCR, ReadMSR, PortTypes, rxVars, modeVars, readerVars
<1>7. CASE ReadLSR
  BY <1>7 DEF ReadLSR, PortTypes, modeVars, readerVars
<1> QED
  BY <1>1, <1>2, <1>3, <1>4, <1>5, <1>6, <1>7 DEF Guest

LEMMA TypesKept ==
  ASSUME PortTypes, [Next]_vars
  PROVE  PortTypes'
<1> USE PortFacts
<1>1. CASE Guest
  BY <1>1, GuestTypesKept
<1>2. CASE BytesArrive
  BY <1>2 DEF BytesArrive, PortTypes, rxVars, modeVars
<1>3. CASE AskCanReceive
  BY <1>3, GrantFits DEF AskCanReceive, PortTypes, rxVars, modeVars
<1>4. CASE Receive
  <2>1. /\ granted' = 0 /\ UNCHANGED <<ier, timeout, modeVars, thrPending>>
    BY <1>4 DEF Receive
  <2> QED
    BY <1>4, <2>1, ReceiveKeeps DEF PortTypes, modeVars
<1>5. CASE ReceiveBreak
  BY <1>5, BreakKeeps DEF ReceiveBreak, PortTypes, modeVars, readerVars
<1>6. CASE TimerFires
  BY <1>6 DEF TimerFires, FifoTimeoutTimerFires, ModemStatusPollFires, PortTypes, rxVars, modeVars, readerVars
<1>7. CASE UNCHANGED vars
  BY <1>7 DEF vars, PortTypes, rxVars, modeVars, readerVars
<1> QED
  BY <1>1, <1>2, <1>3, <1>4, <1>5, <1>6, <1>7 DEF Next, Driver

\* Every path either computes the interrupt again or leaves alone what it is
\* computed from.
LEMMA InterruptKept ==
  ASSUME PortTypes, PortTypes', InterruptMatchesState, [Next]_vars
  PROVE  InterruptMatchesState'
<1> DEFINE Inputs == <<ier, lsr, timeout, fifoMode, itl, recv, thrPending>>
           Same == UNCHANGED Inputs /\ UNCHANGED irqVars
<1>1. ASSUME UpdateIRQ PROVE InterruptMatchesState'
  BY <1>1 DEF UpdateIRQ, InterruptMatchesState
<1>2. ASSUME Same PROVE InterruptMatchesState'
  BY <1>2 DEF irqVars, InterruptMatchesState, Identification, TriggerReached
<1>3. CASE Guest
  <2>1. ASSUME ReadIIR, iir # "thri" PROVE Same
    BY <2>1 DEF ReadIIR, PortTypes, rxVars, modeVars
  <2>2. ASSUME (\E d \in BOOLEAN : WriteLCR(d)) \/ (\E l, r \in BOOLEAN : WriteMCR(l, r)) \/ ReadMSR
        PROVE  Same
    BY <2>2 DEF WriteLCR, WriteMCR, ReadMSR, rxVars, modeVars
  <2>3. \/ UpdateIRQ
        \/ ReadIIR /\ iir # "thri"
        \/ (\E d \in BOOLEAN : WriteLCR(d)) \/ (\E l, r \in BOOLEAN : WriteMCR(l, r)) \/ ReadMSR
    BY <1>3 DEF Guest, ReadRBR, WriteTHR, WriteIER, UpdateAfterIER, ReadIIR, WriteFCR, ReadLSR
  <2> QED
    BY <1>1, <1>2, <2>1, <2>2, <2>3
<1>4. CASE BytesArrive \/ AskCanReceive
  BY <1>2, <1>4 DEF BytesArrive, AskCanReceive, rxVars, modeVars
<1>5. CASE Receive \/ ReceiveBreak
  BY <1>1, <1>5 DEF Receive, ReceiveBreak
<1>6. CASE FifoTimeoutTimerFires
  BY <1>2, <1>6 DEF FifoTimeoutTimerFires, rxVars, modeVars
<1>7. CASE ModemStatusPollFires
  <2>1. CASE recv # <<>>
    BY <1>1, <1>7, <2>1 DEF ModemStatusPollFires
  <2>2. CASE recv = <<>>
    <3>1. Same
      BY <1>7, <2>2 DEF ModemStatusPollFires, PortTypes, modeVars
    <3> QED
      BY <1>2, <3>1
  <2> QED
    BY <2>1, <2>2
<1>8. CASE UNCHANGED vars
  BY <1>2, <1>8 DEF vars, rxVars, modeVars
<1> QED
  BY <1>3, <1>4, <1>5, <1>6, <1>7, <1>8 DEF Next, Driver, TimerFires

LEMMA PortStarts == Init => PortInv
<1>1. Init => PortTypes
  <2>1. <<>> \in Seq(Bytes) /\ Len(<<>>) = 0
    OBVIOUS
  <2> SUFFICES ASSUME Init PROVE PortTypes
    OBVIOUS
  <2>2. recv \in Seq(Bytes) /\ Len(recv) <= FifoLength
    BY <2>1, PortFacts DEF Init
  <2>3. granted \in 0 .. FifoLength
    BY PortFacts DEF Init
  <2>4. /\ ier \subseteq Enables /\ lsr \subseteq {"DR", "OE", "BI"} /\ fifoMode \in BOOLEAN
        /\ itl \in Levels /\ thrPending \in BOOLEAN /\ timeout \in BOOLEAN
    BY DEF Init
  <2> QED
    BY <2>2, <2>3, <2>4 DEF PortTypes
<1>2. Init => InterruptMatchesState
  BY DEF Init, InterruptMatchesState, Identification
<1> QED
  BY <1>1, <1>2 DEF PortInv

LEMMA PortKept == PortInv /\ [Next]_vars => PortInv'
BY TypesKept, InterruptKept DEF PortInv

LEMMA PortAlways == SafeSpec => []PortInv
BY PortStarts, PortKept, PTL DEF SafeSpec

\* Whichever registers the guest uses while bytes arrive, breaks arrive and
\* the timers fire (UpdateIRQ, serial.cpp): between two calls IIR and the
\* interrupt line are what the registers call for, whatever the FIFO's length
\* and trigger levels.
THEOREM LineFollowsRegisters == SafeSpec => []InterruptMatchesState
BY PortAlways, PTL DEF PortInv

\* Whatever the guest does to the port between CanReceive and the Receive that
\* relies on it, an arrival never takes a byte from the FIFO (Receive and
\* ReceiveBreak, serial.cpp).
THEOREM ArrivalsKeepTheFifo == SafeSpec => OverrunKeepsContents
<1>1. PortInv /\ [Next]_vars =>
        [(Receive \/ ReceiveBreak) => SubSeq(recv', 1, Len(recv)) = recv]_vars
  BY ReceiveKeeps, BreakKeeps DEF PortInv
<1> QED
  BY <1>1, PortAlways, PTL DEF SafeSpec, OverrunKeepsContents
-----------------------------------------------------------------------------
(* The ATA channels.                                                       *)

DeviceFields == {"size", "at", "filled", "pio", "dma"}
ChannelFields == {"error", "features", "sectorCount", "sectorNumber", "cylinderLow", "cylinderHigh",
                  "deviceHead", "status", "control", "interrupt", "dev"}

Shaped(c) == /\ DOMAIN c = ChannelFields /\ DOMAIN c.dev = 0 .. 1
             /\ \A n \in 0 .. 1 : DOMAIN c.dev[n] = DeviceFields

\* The devices stay ready, and an interrupt that is masked is not asserted.
Steady(c) == /\ Shaped(c) /\ DRDY \in c.status
             /\ nIEN \in c.control => c.interrupt = FALSE

\* The position of a buffer is the number of words that were read from it.
Counts(c, words) ==
    /\ DOMAIN words = 0 .. 1
    /\ \A n \in 0 .. 1 : c.dev[n].filled => c.dev[n].size = IdentifySize /\ c.dev[n].at = words[n]

AtaInv ==
    /\ DOMAIN ata = Channels /\ DOMAIN ataLine = Channels /\ DOMAIN taken = Channels
    /\ \A ch \in Channels : /\ Steady(ata[ch]) /\ Counts(ata[ch], taken[ch])
                            /\ ataLine[ch] = ata[ch].interrupt
-----------------------------------------------------------------------------
(* What the operations of a channel keep.                                  *)

\* The buffers of the devices are those of c.
SameBuffers(c, e) ==
    \A n \in 0 .. 1 : /\ e.dev[n].size = c.dev[n].size /\ e.dev[n].at = c.dev[n].at
                      /\ e.dev[n].filled = c.dev[n].filled

LEMMA OneSelected == ASSUME NEW c PROVE Selected(c) \in 0 .. 1
BY DEF Selected

LEMMA SetInterruptKeeps ==
  ASSUME NEW c, Steady(c), NEW on \in BOOLEAN
  PROVE  /\ Steady(SetInterrupt(c, on)) /\ SameBuffers(c, SetInterrupt(c, on))
         /\ nIEN \notin c.control => SetInterrupt(c, on).interrupt = on
         /\ nIEN \in c.control => SetInterrupt(c, on) = c
         /\ SetInterrupt(c, on).dev = c.dev /\ SetInterrupt(c, on).control = c.control
<1>1. CASE nIEN \in c.control
  BY <1>1 DEF SetInterrupt, InterruptsEnabled, SameBuffers
<1>2. CASE nIEN \notin c.control
  <2>1. PICK e : e = [c EXCEPT !.interrupt = on]
    OBVIOUS
  <2>2. /\ DOMAIN e = DOMAIN c /\ e.interrupt = on /\ e.dev = c.dev /\ e.status = c.status
        /\ e.control = c.control
    BY <2>1 DEF Steady, Shaped, ChannelFields
  <2>3. SetInterrupt(c, on) = e
    BY <1>2, <2>1 DEF SetInterrupt, InterruptsEnabled
  <2> QED
    BY <1>2, <2>2, <2>3 DEF Steady, Shaped, SameBuffers
<1> QED
  BY <1>1, <1>2

LEMMA StatusKeeps ==
  ASSUME NEW c, Steady(c), NEW status, DRDY \in status
  PROVE  /\ Steady([c EXCEPT !.status = status])
         /\ [c EXCEPT !.status = status].dev = c.dev
         /\ [c EXCEPT !.status = status].control = c.control
<1>1. PICK e : e = [c EXCEPT !.status = status]
  OBVIOUS
<1>2. /\ DOMAIN e = DOMAIN c /\ e.interrupt = c.interrupt /\ e.dev = c.dev /\ e.status = status
      /\ e.control = c.control
  BY <1>1 DEF Steady, Shaped, ChannelFields
<1> QED
  BY <1>1, <1>2 DEF Steady, Shaped

LEMMA Names2Keeps ==
  ASSUME NEW c, Steady(c), NEW n
  PROVE  /\ Steady(Names2(c, n)) /\ Names2(c, n).dev = c.dev
         /\ Names2(c, n).control = c.control /\ Names2(c, n).status = c.status
<1>1. PICK e : e = Names2(c, n)
  OBVIOUS
<1>2. /\ DOMAIN e = DOMAIN c /\ e.interrupt = c.interrupt /\ e.dev = c.dev /\ e.status = c.status
      /\ e.control = c.control
  BY <1>1 DEF Steady, Shaped, ChannelFields, Names2
<1> QED
  BY <1>1, <1>2 DEF Steady, Shaped

\* IDENTIFY DEVICE gives the selected device a full buffer, to be read from its
\* first word: the devices are always ready.
LEMMA IdentifyFills ==
  ASSUME NEW c, Steady(c)
  PROVE  /\ Steady(Identify(c))
         /\ \A n \in 0 .. 1 :
              IF n = Selected(c) THEN /\ Identify(c).dev[n].size = IdentifySize
                                      /\ Identify(c).dev[n].at = 0
              ELSE Identify(c).dev[n] = c.dev[n]
<1>1. PICK n : n = Selected(c) /\ n \in 0 .. 1
  BY OneSelected
<1>2. PICK m : m = Names2(c, n)
  OBVIOUS
<1>3. Steady(m) /\ m.dev = c.dev /\ m.control = c.control /\ m.status = c.status
  BY <1>2, Names2Keeps
<1>4. PICK r : r = [m EXCEPT !.dev[n] = Filled(@)]
  OBVIOUS
<1>5. /\ DOMAIN r = DOMAIN m /\ r.interrupt = m.interrupt /\ r.status = m.status /\ r.control = m.control
      /\ r.dev = [m.dev EXCEPT ![n] = Filled(m.dev[n])]
  BY <1>3, <1>4 DEF Steady, Shaped, ChannelFields
<1>6. /\ DOMAIN r.dev = 0 .. 1
      /\ \A k \in 0 .. 1 : k # n => r.dev[k] = m.dev[k]
      /\ r.dev[n] = Filled(m.dev[n])
  BY <1>1, <1>3, <1>5 DEF Steady, Shaped
<1>7. /\ DOMAIN Filled(m.dev[n]) = DeviceFields
      /\ Filled(m.dev[n]).size = IdentifySize /\ Filled(m.dev[n]).at = 0
  BY <1>1, <1>3 DEF Filled, Steady, Shaped, DeviceFields
<1>8. Steady(r)
  BY <1>1, <1>3, <1>5, <1>6, <1>7 DEF Steady, Shaped
<1>9. PICK status : status = ((r.status \cup {DRDY}) \ {BIT5, ERR}) \cup {DRQ} /\ DRDY \in status
  <2>1. DRDY \in ((r.status \cup {DRDY}) \ {BIT5, ERR}) \cup {DRQ}
    BY DEF DRDY, BIT5, ERR, DRQ
  <2> QED
    BY <2>1
<1>10. Identify(c) = [r EXCEPT !.status = status]
  BY <1>1, <1>2, <1>4, <1>8, <1>9 DEF Identify, Steady, Shaped, ChannelFields
<1>11. Steady(Identify(c)) /\ Identify(c).dev = r.dev
  BY <1>8, <1>9, <1>10, StatusKeeps
<1> QED
  BY <1>1, <1>3, <1>6, <1>7, <1>11

\* SET FEATURES changes a transfer mode or fails, and leaves the buffers.
LEMMA FeaturesKeep ==
  ASSUME NEW c, Steady(c)
  PROVE  Steady(SetFeatures(c)) /\ SameBuffers(c, SetFeatures(c))
<1>1. PICK n : n = Selected(c) /\ n \in 0 .. 1
  BY OneSelected
<1>2. CASE c.features = SetTransferMode /\ ModeFits(c)
  <2>1. PICK e : e = SetsMode(c, n)
    OBVIOUS
  <2>2. PICK d : /\ DOMAIN d = DeviceFields /\ d.size = c.dev[n].size /\ d.at = c.dev[n].at
                 /\ d.filled = c.dev[n].filled
                 /\ e = [c EXCEPT !.dev = [c.dev EXCEPT ![n] = d]]
    <3>1. CASE Type(c) \in {0, 1}
      <4>1. PICK d : d = [c.dev[n] EXCEPT !.pio = <<Type(c), Mode(c)>>]
        OBVIOUS
      <4>2. /\ DOMAIN d = DeviceFields /\ d.size = c.dev[n].size /\ d.at = c.dev[n].at
            /\ d.filled = c.dev[n].filled
        BY <1>1, <4>1 DEF Steady, Shaped, DeviceFields
      <4>3. e = [c EXCEPT !.dev = [c.dev EXCEPT ![n] = d]]
        BY <1>1, <2>1, <3>1, <4>1 DEF SetsMode, Steady, Shaped, ChannelFields
      <4> QED
        BY <4>2, <4>3
    <3>2. CASE Type(c) \notin {0, 1}
      <4>1. PICK d : d = [c.dev[n] EXCEPT !.dma = <<Type(c), Mode(c)>>]
        OBVIOUS
      <4>2. /\ DOMAIN d = DeviceFields /\ d.size = c.dev[n].size /\ d.at = c.dev[n].at
            /\ d.filled = c.dev[n].filled
        BY <1>1, <4>1 DEF Steady, Shaped, DeviceFields
      <4>3. e = [c EXCEPT !.dev = [c.dev EXCEPT ![n] = d]]
        BY <1>1, <2>1, <3>2, <4>1 DEF SetsMode, Steady, Shaped, ChannelFields
      <4> QED
        BY <4>2, <4>3
    <3> QED
      BY <3>1, <3>2
  <2>3. PICK dev : dev = [c.dev EXCEPT ![n] = d]
    OBVIOUS
  <2>4. DOMAIN dev = 0 .. 1 /\ dev[n] = d /\ \A k \in 0 .. 1 : k # n => dev[k] = c.dev[k]
    BY <1>1, <2>3 DEF Steady, Shaped
  <2>5. /\ DOMAIN e = DOMAIN c /\ e.interrupt = c.interrupt /\ e.status = c.status
        /\ e.control = c.control /\ e.dev = dev
    BY <2>2, <2>3 DEF Steady, Shaped, ChannelFields
  <2>6. Steady(e) /\ SameBuffers(c, e)
    BY <1>1, <2>2, <2>4, <2>5 DEF Steady, Shaped, SameBuffers
  <2> QED
    BY <1>1, <1>2, <2>1, <2>6 DEF SetFeatures
<1>3. CASE ~(c.features = SetTransferMode /\ ModeFits(c))
  <2>1. PICK m : m = Names2(c, n)
    OBVIOUS
  <2>2. Steady(m) /\ m.dev = c.dev
    BY <2>1, Names2Keeps
  <2>3. PICK e : e = SetFeatures(c)
    OBVIOUS
  <2>4. /\ DOMAIN e = DOMAIN m /\ e.dev = m.dev /\ e.control = m.control /\ e.interrupt = m.interrupt
        /\ e.status = ((m.status \cup {DRDY}) \ {DRQ}) \cup {ERR}
    BY <1>1, <1>3, <2>1, <2>2, <2>3 DEF SetFeatures, Steady, Shaped, ChannelFields
  <2>5. DRDY \in e.status
    BY <2>4 DEF DRDY, DRQ
  <2> QED
    BY <2>2, <2>3, <2>4, <2>5 DEF Steady, Shaped, SameBuffers
<1> QED
  BY <1>2, <1>3

LEMMA SameTrans ==
  ASSUME NEW c, NEW e, NEW f, SameBuffers(c, e), SameBuffers(e, f)
  PROVE  SameBuffers(c, f)
BY DEF SameBuffers

LEMMA CommandsDiffer ==
  CmdIdentify # CmdSetFeatures /\ CmdIdentify # CmdUnlock /\ CmdSetFeatures # CmdUnlock
<1>1. 0 \in CmdSetFeatures /\ 0 \notin CmdIdentify /\ 0 \notin CmdUnlock
  BY DEF CmdIdentify, CmdSetFeatures, CmdUnlock
<1>2. 2 \in CmdIdentify /\ 2 \notin CmdUnlock
  BY DEF CmdIdentify, CmdUnlock
<1> QED
  BY <1>1, <1>2

LEMMA CommandKeeps ==
  ASSUME NEW c, Steady(c), NEW value
  PROVE  /\ Steady(WriteCommand(c, value))
         /\ value # CmdIdentify => SameBuffers(c, WriteCommand(c, value))
         /\ value = CmdIdentify => SameBuffers(Identify(c), WriteCommand(c, value))
<1>1. PICK f : f = [c EXCEPT !.status = @ \cup {ERR}]
  OBVIOUS
<1>2. PICK status : status = c.status \cup {ERR} /\ DRDY \in status
  BY DEF Steady
<1>3. Steady(f) /\ SameBuffers(c, f)
  <2>1. f = [c EXCEPT !.status = status]
    BY <1>1, <1>2 DEF Steady, Shaped, ChannelFields
  <2>2. Steady(f) /\ f.dev = c.dev
    BY <1>2, <2>1, StatusKeeps
  <2> QED
    BY <2>2 DEF SameBuffers
<1>4. CASE value = CmdIdentify
  <2>1. WriteCommand(c, value) = SetInterrupt(Identify(c), TRUE)
    BY <1>4, CommandsDiffer DEF WriteCommand
  <2> QED
    BY <1>4, <2>1, IdentifyFills, SetInterruptKeeps
<1>5. CASE value # CmdIdentify /\ value = CmdSetFeatures
  <2>1. WriteCommand(c, value) = SetInterrupt(SetFeatures(c), TRUE)
    BY <1>5, CommandsDiffer DEF WriteCommand
  <2> QED
    BY <1>5, <2>1, FeaturesKeep, SetInterruptKeeps, SameTrans
<1>6. CASE value \notin {CmdIdentify, CmdSetFeatures} /\ value = CmdUnlock
  <2>1. WriteCommand(c, value) = SetInterrupt(f, TRUE)
    BY <1>1, <1>6 DEF WriteCommand
  <2> QED
    BY <1>3, <1>6, <2>1, SetInterruptKeeps, SameTrans
<1>7. CASE value \notin {CmdIdentify, CmdSetFeatures, CmdUnlock}
  <2>1. WriteCommand(c, value) = f
    BY <1>1, <1>7 DEF WriteCommand
  <2> QED
    BY <1>3, <1>7, <2>1
<1> QED
  BY <1>4, <1>5, <1>6, <1>7

\* Reading data moves the position of the selected device by the words read, as
\* far as its buffer goes.
LEMMA ReadDataKeeps ==
  ASSUME NEW c, Steady(c), NEW words
  PROVE  /\ Steady(ReadData(c, words))
         /\ \A n \in 0 .. 1 :
              /\ ReadData(c, words).dev[n].size = c.dev[n].size
              /\ ReadData(c, words).dev[n].filled = c.dev[n].filled
              /\ ReadData(c, words).dev[n].at =
                   IF n = Selected(c)
                   THEN IF c.dev[n].at + words > c.dev[n].size THEN c.dev[n].size ELSE c.dev[n].at + words
                   ELSE c.dev[n].at
<1>1. PICK n : n = Selected(c) /\ n \in 0 .. 1
  BY OneSelected
<1>2. PICK at : at = IF c.dev[n].at + words > c.dev[n].size THEN c.dev[n].size ELSE c.dev[n].at + words
  OBVIOUS
<1>3. PICK d : d = [c.dev[n] EXCEPT !.at = at]
  OBVIOUS
<1>4. /\ DOMAIN d = DeviceFields /\ d.size = c.dev[n].size /\ d.at = at
      /\ d.filled = c.dev[n].filled
  BY <1>1, <1>3 DEF Steady, Shaped, DeviceFields
<1>5. PICK dev : dev = [c.dev EXCEPT ![n] = d]
  OBVIOUS
<1>6. DOMAIN dev = 0 .. 1 /\ dev[n] = d /\ \A k \in 0 .. 1 : k # n => dev[k] = c.dev[k]
  BY <1>1, <1>5 DEF Steady, Shaped
<1>7. PICK status : status = c.status \ {DRQ} /\ DRDY \in status
  <2>1. DRDY \in c.status \ {DRQ}
    BY DEF Steady, DRDY, DRQ
  <2> QED
    BY <2>1
<1>8. PICK e : e = [c EXCEPT !.dev = dev, !.status = status]
  OBVIOUS
<1>9. ReadData(c, words) = e
  BY <1>1, <1>2, <1>3, <1>5, <1>7, <1>8 DEF ReadData, Steady, Shaped, ChannelFields, DeviceFields
<1>10. /\ DOMAIN e = DOMAIN c /\ e.interrupt = c.interrupt /\ e.status = status
       /\ e.control = c.control /\ e.dev = dev
  BY <1>8 DEF Steady, Shaped, ChannelFields
<1>11. Steady(e)
  BY <1>4, <1>6, <1>7, <1>10 DEF Steady, Shaped
<1> QED
  BY <1>1, <1>2, <1>4, <1>6, <1>9, <1>10, <1>11

\* The line is lowered before interrupts are disabled: a masked interrupt is
\* never left asserted.
LEMMA ControlKeeps ==
  ASSUME NEW c, Steady(c), NEW value
  PROVE  Steady(WriteControl(c, value)) /\ SameBuffers(c, WriteControl(c, value))
<1>1. PICK d : d = IF nIEN \in value THEN SetInterrupt(c, FALSE) ELSE c
  OBVIOUS
<1>2. /\ Steady(d) /\ d.dev = c.dev
      /\ nIEN \in value => d.interrupt = FALSE
  BY <1>1, SetInterruptKeeps DEF Steady
<1>3. PICK e : e = [d EXCEPT !.control = value]
  OBVIOUS
<1>4. /\ DOMAIN e = DOMAIN d /\ e.interrupt = d.interrupt /\ e.status = d.status
      /\ e.control = value /\ e.dev = d.dev
  BY <1>2, <1>3 DEF Steady, Shaped, ChannelFields
<1>5. Steady(e) /\ SameBuffers(c, e)
  BY <1>2, <1>4 DEF Steady, Shaped, SameBuffers
<1>6. WriteControl(c, value) = e
  BY <1>1, <1>3 DEF WriteControl
<1> QED
  BY <1>5, <1>6

LEMMA RegisterKeeps ==
  ASSUME NEW c, Steady(c), NEW r \in TaskFile \cup {"features"}, NEW value
  PROVE  Steady([c EXCEPT ![r] = value]) /\ SameBuffers(c, [c EXCEPT ![r] = value])
<1>1. PICK e : e = [c EXCEPT ![r] = value]
  OBVIOUS
<1>2. /\ DOMAIN e = DOMAIN c /\ e.interrupt = c.interrupt /\ e.status = c.status
      /\ e.control = c.control /\ e.dev = c.dev
  BY <1>1 DEF TaskFile, Steady, Shaped, ChannelFields
<1> QED
  BY <1>1, <1>2 DEF Steady, Shaped, SameBuffers
-----------------------------------------------------------------------------
(* The steps.                                                              *)

LEMMA BecomesKeeps ==
  ASSUME AtaInv, NEW ch, NEW c, Becomes(ch, c), DOMAIN taken' = Channels,
         \A other \in Channels \ {ch} : taken'[other] = taken[other],
         ch \in Channels => Steady(c) /\ Counts(c, taken'[ch])
  PROVE  AtaInv'
<1>1. /\ DOMAIN ata' = Channels /\ DOMAIN ataLine' = Channels
      /\ \A other \in Channels \ {ch} : ata'[other] = ata[other] /\ ataLine'[other] = ataLine[other]
      /\ ch \in Channels => ata'[ch] = c /\ ataLine'[ch] = c.interrupt
  BY DEF Becomes, AtaInv
<1> QED
  BY <1>1 DEF AtaInv

\* An operation that leaves the buffers leaves what was read from them.
LEMMA SameKeeps ==
  ASSUME AtaInv, NEW ch, NEW c, Becomes(ch, c), UNCHANGED taken,
         ch \in Channels => Steady(c) /\ SameBuffers(ata[ch], c)
  PROVE  AtaInv'
<1>1. ch \in Channels => Counts(c, taken[ch])
  BY DEF AtaInv, Counts, SameBuffers
<1> QED
  BY <1>1, BecomesKeeps DEF AtaInv

LEMMA AtaOutKeeps ==
  ASSUME AtaInv, AtaOut
  PROVE  AtaInv'
<1>1. PICK ch, r, value : /\ ch = WritesAt(Access.port)[1] /\ r = WritesAt(Access.port)[2]
                          /\ value = Access.value
  OBVIOUS
<1>2. /\ CASE r = "control" -> Becomes(ch, WriteControl(ata[ch], value))
            [] r = "status" -> Becomes(ch, WriteCommand(ata[ch], value))
            [] r = "error" -> Becomes(ch, [ata[ch] EXCEPT !.features = value])
            [] r \in TaskFile -> Becomes(ch, [ata[ch] EXCEPT ![r] = value])
            [] OTHER -> UNCHANGED ataVars
      /\ taken' = IF r = "status" /\ value = CmdIdentify
                  THEN [taken EXCEPT ![ch][Selected(ata[ch])] = 0] ELSE taken
  BY <1>1 DEF AtaOut, AtaWrite
<1>3. ch \in Channels => Steady(ata[ch]) /\ Counts(ata[ch], taken[ch])
  BY DEF AtaInv
<1>4. CASE r = "control"
  <2>1. Becomes(ch, WriteControl(ata[ch], value)) /\ taken' = taken
    BY <1>2, <1>4 DEF TaskFile
  <2> QED
    BY <1>3, <2>1, ControlKeeps, SameKeeps
<1>5. CASE r = "status" /\ value # CmdIdentify
  <2>1. Becomes(ch, WriteCommand(ata[ch], value)) /\ taken' = taken
    BY <1>2, <1>5 DEF TaskFile
  <2> QED
    BY <1>3, <1>5, <2>1, CommandKeeps, SameKeeps
<1>6. CASE r = "status" /\ value = CmdIdentify
  <2>1. PICK n \in 0 .. 1 : n = Selected(ata[ch])
    BY OneSelected
  <2>2. Becomes(ch, WriteCommand(ata[ch], value)) /\ taken' = [taken EXCEPT ![ch][n] = 0]
    BY <1>2, <1>6, <2>1 DEF TaskFile
  <2>3. ASSUME ch \in Channels PROVE Steady(WriteCommand(ata[ch], value)) /\ Counts(WriteCommand(ata[ch], value), taken'[ch])
    <3>1. PICK e : e = WriteCommand(ata[ch], value)
      OBVIOUS
    <3>2. Steady(e) /\ SameBuffers(Identify(ata[ch]), e)
      BY <1>3, <1>6, <2>3, <3>1, CommandKeeps
    <3>3. \A k \in 0 .. 1 : IF k = n THEN e.dev[k].size = IdentifySize /\ e.dev[k].at = 0
                           ELSE /\ e.dev[k].size = ata[ch].dev[k].size /\ e.dev[k].at = ata[ch].dev[k].at
                                /\ e.dev[k].filled = ata[ch].dev[k].filled
      BY <1>3, <2>1, <2>3, <3>2, IdentifyFills DEF SameBuffers
    <3>4. taken'[ch] = [taken[ch] EXCEPT ![n] = 0]
      BY <2>2, <2>3 DEF AtaInv
    <3>5. Counts(e, taken'[ch])
      BY <1>3, <2>3, <3>3, <3>4 DEF Counts
    <3> QED
      BY <3>1, <3>2, <3>5
  <2>4. DOMAIN taken' = Channels /\ \A other \in Channels \ {ch} : taken'[other] = taken[other]
    BY <2>2 DEF AtaInv
  <2> QED
    BY <2>2, <2>3, <2>4, BecomesKeeps
<1>7. CASE r = "error"
  <2>1. Becomes(ch, [ata[ch] EXCEPT !["features"] = value]) /\ taken' = taken
    BY <1>2, <1>7 DEF TaskFile
  <2> QED
    BY <1>3, <2>1, RegisterKeeps, SameKeeps
<1>8. CASE r \in TaskFile
  <2>1. Becomes(ch, [ata[ch] EXCEPT ![r] = value]) /\ taken' = taken
    BY <1>2, <1>8 DEF TaskFile
  <2> QED
    BY <1>3, <1>8, <2>1, RegisterKeeps, SameKeeps
<1>9. CASE r \notin TaskFile \cup {"control", "status", "error"}
  <2>1. UNCHANGED <<ata, ataLine, taken>>
    BY <1>2, <1>9 DEF ataVars
  <2> QED
    BY <2>1 DEF AtaInv
<1> QED
  BY <1>4, <1>5, <1>6, <1>7, <1>8, <1>9

LEMMA AtaInKeeps ==
  ASSUME AtaInv, AtaIn
  PROVE  AtaInv'
<1>1. PICK ch, r, words : /\ ch = ReadsAt(Access.port)[1] /\ r = ReadsAt(Access.port)[2]
                          /\ words = Access.size \div 2
  OBVIOUS
<1>2. /\ CASE r \in {"status", "alternate"} -> Becomes(ch, ReadStatus(ata[ch]))
            [] r = "data" -> Becomes(ch, ReadData(ata[ch], words))
            [] OTHER -> UNCHANGED ataVars
      /\ taken' = IF r = "data"
                  THEN [taken EXCEPT ![ch][Selected(ata[ch])] =
                          IF @ + words > IdentifySize THEN IdentifySize ELSE @ + words]
                  ELSE taken
  BY <1>1 DEF AtaIn, AtaRead, Attached
<1>3. ch \in Channels => Steady(ata[ch]) /\ Counts(ata[ch], taken[ch])
  BY DEF AtaInv
<1>4. CASE r \in {"status", "alternate"}
  <2>1. Becomes(ch, SetInterrupt(ata[ch], FALSE)) /\ taken' = taken
    BY <1>2, <1>4 DEF ReadStatus
  <2> QED
    BY <1>3, <2>1, SetInterruptKeeps, SameKeeps
<1>5. CASE r = "data"
  <2>1. PICK n \in 0 .. 1 : n = Selected(ata[ch])
    BY OneSelected
  <2>2. /\ Becomes(ch, ReadData(ata[ch], words))
        /\ taken' = [taken EXCEPT ![ch][n] =
                        IF @ + words > IdentifySize THEN IdentifySize ELSE @ + words]
    BY <1>2, <1>5, <2>1
  <2>3. ASSUME ch \in Channels PROVE Steady(ReadData(ata[ch], words)) /\ Counts(ReadData(ata[ch], words), taken'[ch])
    <3>1. PICK e : e = ReadData(ata[ch], words)
      OBVIOUS
    <3>2. /\ Steady(e)
          /\ \A k \in 0 .. 1 :
               /\ e.dev[k].size = ata[ch].dev[k].size /\ e.dev[k].filled = ata[ch].dev[k].filled
               /\ e.dev[k].at =
                    IF k = n
                    THEN IF ata[ch].dev[k].at + words > ata[ch].dev[k].size THEN ata[ch].dev[k].size
                         ELSE ata[ch].dev[k].at + words
                    ELSE ata[ch].dev[k].at
      BY <1>3, <2>1, <2>3, <3>1, ReadDataKeeps
    <3>3. taken'[ch] = [taken[ch] EXCEPT ![n] = IF taken[ch][n] + words > IdentifySize THEN IdentifySize
                                                ELSE taken[ch][n] + words]
      BY <1>3, <2>2, <2>3 DEF AtaInv, Counts
    <3>4. Counts(e, taken'[ch])
      BY <1>3, <2>3, <3>2, <3>3 DEF Counts
    <3> QED
      BY <3>1, <3>2, <3>4
  <2>4. DOMAIN taken' = Channels /\ \A other \in Channels \ {ch} : taken'[other] = taken[other]
    BY <2>2 DEF AtaInv
  <2> QED
    BY <2>2, <2>3, <2>4, BecomesKeeps
<1>6. CASE r \notin {"status", "alternate", "data"}
  <2>1. UNCHANGED <<ata, ataLine, taken>>
    BY <1>2, <1>6 DEF ataVars
  <2> QED
    BY <2>1 DEF AtaInv
<1> QED
  BY <1>4, <1>5, <1>6

LEMMA AtaStarts == ChipInit => AtaInv
<1> SUFFICES ASSUME ChipInit PROVE AtaInv
  OBVIOUS
<1>1. /\ DOMAIN ata = Channels /\ DOMAIN ataLine = Channels /\ DOMAIN taken = Channels
      /\ \A ch \in Channels : ataLine[ch] = FALSE /\ taken[ch] = [n \in 0 .. 1 |-> 0]
  BY DEF ChipInit, AtaInit
<1>2. ASSUME NEW ch \in Channels
      PROVE  /\ DOMAIN ata[ch] = ChannelFields /\ ata[ch].dev = [n \in 0 .. 1 |-> Device0]
             /\ ata[ch].status = {DRDY} /\ ata[ch].control = {} /\ ata[ch].interrupt = FALSE
  <2>1. ata[ch] = [error |-> {}, features |-> {}, sectorCount |-> {}, sectorNumber |-> {},
                   cylinderLow |-> {}, cylinderHigh |-> {}, deviceHead |-> {}, status |-> {DRDY},
                   control |-> {}, interrupt |-> FALSE, dev |-> [n \in 0 .. 1 |-> Device0]]
    BY DEF ChipInit, AtaInit
  <2> QED
    BY <2>1 DEF ChannelFields
<1>3. DOMAIN Device0 = DeviceFields /\ ~Device0.filled
  BY DEF Device0, DeviceFields
<1>4. ASSUME NEW ch \in Channels PROVE Steady(ata[ch])
  BY <1>2, <1>3 DEF Steady, Shaped
<1>5. ASSUME NEW ch \in Channels PROVE Counts(ata[ch], taken[ch])
  <2>1. DOMAIN taken[ch] = 0 .. 1 /\ \A n \in 0 .. 1 : ata[ch].dev[n] = Device0
    BY <1>1, <1>2, <1>5
  <2> QED
    BY <1>3, <2>1 DEF Counts
<1> QED
  BY <1>1, <1>2, <1>4, <1>5 DEF AtaInv

LEMMA AtaKept == AtaInv /\ [ChipNext]_chipsetVars => AtaInv'
<1> SUFFICES ASSUME AtaInv, [ChipNext]_chipsetVars PROVE AtaInv'
  OBVIOUS
<1>1. CASE UNCHANGED <<ata, ataLine, taken>>
  BY <1>1 DEF AtaInv
<1>2. ASSUME ~AtaOut, ~AtaIn PROVE UNCHANGED <<ata, ataLine, taken>>
  <2>1. CASE UNCHANGED chipsetVars \/ NewTask \/ Placed \/ ConfigRead
    BY <2>1 DEF NewTask, Placed, ConfigRead, chipsetVars, chipVars, ataVars, history
  <2>2. CASE ConfigAddress \/ ConfigWrite \/ SMBusOut \/ SMBusIn \/ SMBusAcknowledge
    BY <2>2 DEF ConfigAddress, ConfigWrite, SMBusOut, SMBusIn, SMBusAcknowledge, ataVars, history
  <2>3. CASE SuperIOOut \/ GraphBind \/ GraphMethod \/ GraphDraw
    BY <2>3 DEF SuperIOOut, GraphBind, GraphMethod, GraphDraw, ataVars, history
  <2> QED
    BY <1>2, <2>1, <2>2, <2>3 DEF ChipNext
<1> QED
  BY <1>1, <1>2, AtaOutKeeps, AtaInKeeps

LEMMA AtaAlways == ChipSpec => []AtaInv
BY AtaStarts, AtaKept, PTL DEF ChipSpec

\* Whatever the guest's routines do, to either channel in any order, each drive
\* gives the words of its identity in order (ReadBuffer, ata_device.cpp).
THEOREM IdentityInOrder == ChipSpec => []IdentifyInOrder
<1>1. AtaInv => IdentifyInOrder
  BY DEF AtaInv, Counts, IdentifyInOrder
<1> QED
  BY <1>1, AtaAlways, PTL
-----------------------------------------------------------------------------
(* The interrupt line of the SMBus controller.                             *)

SmbFields == {"status", "control", "command", "address", "data0", "data1", "block", "index"}

\* Only the line the SMBus is routed to is high, and only while a bit of its
\* status says why.
LineInv ==
    /\ DOMAIN smb = SmbFields /\ gsi \in [1 .. 15 -> BOOLEAN]
    /\ \A irq \in 1 .. 15 : gsi[irq] => irq = Routing(1) /\ smb.status # {}

\* A driver that writes the status only to acknowledge the bits it has read,
\* and that leaves the routing alone while the line is high.
CarefulDriver ==
    /\ SMBusOut => Offset # 0
    /\ (\E irq \in DOMAIN gsi : gsi[irq]) => Routing(1)' = Routing(1)
-----------------------------------------------------------------------------
\* A transaction adds to the status and removes nothing.
LEMMA TransactAdds ==
  ASSUME NEW s, DOMAIN s = SmbFields
  PROVE  DOMAIN Transact(s)[1] = SmbFields /\ s.status \subseteq Transact(s)[1].status
<1>1. PICK done, failed : /\ done = [s EXCEPT !.status = @ \cup {HCYC}]
                          /\ failed = [s EXCEPT !.status = @ \cup {PRERR}]
  OBVIOUS
<1>2. /\ DOMAIN done = SmbFields /\ done.status = s.status \cup {HCYC}
      /\ DOMAIN failed = SmbFields /\ failed.status = s.status \cup {PRERR}
  BY <1>1 DEF SmbFields
<1>3. ASSUME NEW e, e \in {done, failed}
      PROVE  DOMAIN e = SmbFields /\ s.status \subseteq e.status
  BY <1>2, <1>3
<1> DEFINE d == Target(s)
           c == s.command
           p == Protocol(s)
           known == d \in DOMAIN slaves.reg /\ p \in {0, 1, 2, 3, 5}
<1>6. CASE ~known
  <2>1. Transact(s) = <<failed, slaves>>
    BY <1>1, <1>6 DEF Transact
  <2> QED
    BY <1>3, <2>1
<1>7. CASE known /\ (p = 0 \/ (p \in {1, 2, 3, 5} /\ ~Reads(s)))
  <2>1. CASE p = 0 \/ p = 1
    <3>1. Transact(s) = <<done, slaves>>
      BY <1>1, <1>7, <2>1 DEF Transact
    <3> QED
      BY <1>3, <3>1
  <2>2. CASE p \in {2, 3, 5} /\ ~Reads(s)
    <3>1. \E x : Transact(s) = <<done, x>>
      BY <1>1, <1>7, <2>2 DEF Transact
    <3> QED
      BY <1>3, <3>1
  <2> QED
    BY <1>7, <2>1, <2>2
<1>8. CASE known /\ p \in {1, 2, 5} /\ Reads(s)
  <2>1. PICK v, x : Transact(s) = <<[done EXCEPT !.data0 = v], x>>
    <3>1. CASE p = 1
      <4>1. Transact(s) = <<[done EXCEPT !.data0 = {}], slaves>>
        BY <1>1, <1>8, <3>1 DEF Transact
      <4> QED
        BY <4>1
    <3>2. CASE p = 2
      <4>1. Transact(s) = <<[done EXCEPT !.data0 = ReadByte(d, c)], AfterReadByte(d, c)>>
        BY <1>1, <1>8, <3>2 DEF Transact
      <4> QED
        BY <4>1
    <3>3. CASE p = 5
      <4>1. Transact(s) = <<[done EXCEPT !.data0 = {}], slaves>>
        BY <1>1, <1>8, <3>3 DEF Transact
      <4> QED
        BY <4>1
    <3> QED
      BY <1>8, <3>1, <3>2, <3>3
  <2>2. PICK e : e = [done EXCEPT !.data0 = v]
    OBVIOUS
  <2>3. DOMAIN e = SmbFields /\ e.status = done.status
    BY <1>2, <2>2 DEF SmbFields
  <2>4. Transact(s)[1] = e
    BY <2>1, <2>2
  <2> QED
    BY <1>2, <2>3, <2>4
<1>9. CASE known /\ p = 3 /\ Reads(s)
  <2>1. PICK v, w : Transact(s) = <<[done EXCEPT !.data0 = v, !.data1 = w], slaves>>
    <3>1. Transact(s) = <<[done EXCEPT !.data0 = IF d = SMC THEN {} ELSE Reg(d, c),
                                       !.data1 = IF d = SMC THEN {} ELSE Reg(d, Next1(c))], slaves>>
      BY <1>1, <1>9 DEF Transact
    <3> QED
      BY <3>1
  <2>2. PICK e : e = [done EXCEPT !.data0 = v, !.data1 = w]
    OBVIOUS
  <2>3. DOMAIN e = SmbFields /\ e.status = done.status
    BY <1>2, <2>2 DEF SmbFields
  <2>4. Transact(s)[1] = e
    BY <2>1, <2>2
  <2> QED
    BY <1>2, <2>3, <2>4
<1>10. \/ ~known
       \/ known /\ (p = 0 \/ (p \in {1, 2, 3, 5} /\ ~Reads(s)))
       \/ known /\ p \in {1, 2, 5} /\ Reads(s)
       \/ known /\ p = 3 /\ Reads(s)
  OBVIOUS
<1> HIDE DEF known, p
<1> QED
  BY <1>6, <1>7, <1>8, <1>9, <1>10, Zenon

\* The routing comes from the configuration of the LPC bridge.
LEMMA RoutingKept ==
  ASSUME UNCHANGED pci
  PROVE  Routing(1)' = Routing(1)
BY DEF Routing, ReadConfig

LEMMA AcknowledgeLowers ==
  ASSUME LineInv, SMBusAcknowledge
  PROVE  LineInv'
<1>1. SmbValue(0, 1) = smb.status
  BY DEF SmbValue
<1>2. CASE smb.status = {}
  <2>1. UNCHANGED <<pci, gsi, smb>>
    BY <1>1, <1>2 DEF SMBusAcknowledge, pciVars, smbVars
  <2> QED
    BY <2>1, RoutingKept DEF LineInv
<1>3. CASE smb.status # {}
  <2>1. WriteStatus(smb.status)
    BY <1>1, <1>3 DEF SMBusAcknowledge, SmbWrite
  <2>2. (smb.status \cap Clearable) \ smb.status = {}
    OBVIOUS
  <2>3. HandleIRQ(1, FALSE) /\ pci' = pci
    BY <2>1, <2>2 DEF WriteStatus
  <2>4. PICK status : smb' = [smb EXCEPT !.status = status, !.index = 0]
    BY <2>1 DEF WriteStatus
  <2>5. DOMAIN smb' = SmbFields
    BY <2>4 DEF LineInv
  <2>6. gsi' \in [1 .. 15 -> BOOLEAN] /\ \A irq \in 1 .. 15 : ~gsi'[irq]
    BY <2>3 DEF HandleIRQ, LineInv
  <2> QED
    BY <2>5, <2>6 DEF LineInv
<1> QED
  BY <1>2, <1>3

LEMMA WriteKeepsLine ==
  ASSUME LineInv, SMBusOut, Offset # 0
  PROVE  LineInv'
<1>1. PICK offset, value, size : /\ offset = Offset /\ value = Access.value /\ size = Access.size
  OBVIOUS
<1>2. SmbWrite(offset, value, size) /\ offset # 0
  BY <1>1 DEF SMBusOut
<1>3. CASE offset = 2
  <2>1. WriteEnable(value)
    BY <1>2, <1>3 DEF SmbWrite
  <2>2. PICK s : s = [smb EXCEPT !.control = value,
                                 !.status = IF Abort \in value THEN @ \cup {ABRT} ELSE @]
    OBVIOUS
  <2>3. DOMAIN s = SmbFields /\ smb.status \subseteq s.status
    BY <2>2 DEF LineInv, SmbFields
  <2>4. PICK r : r = IF Start \in value THEN Transact(s) ELSE <<s, slaves>>
    OBVIOUS
  <2>5. DOMAIN r[1] = SmbFields /\ smb.status \subseteq r[1].status
    BY <2>3, <2>4, TransactAdds
  <2>6. /\ smb' = r[1] /\ pci' = pci
        /\ IF Start \in value /\ EnableHCYC \in value /\ r[1].status \cap Clearable # {}
           THEN HandleIRQ(1, TRUE) ELSE UNCHANGED gsi
    BY <2>1, <2>2, <2>4 DEF WriteEnable
  <2>7. CASE gsi' = gsi
    BY <2>5, <2>6, <2>7, RoutingKept DEF LineInv
  <2>8. CASE r[1].status # {} /\ HandleIRQ(1, TRUE)
    BY <2>5, <2>6, <2>8, RoutingKept DEF LineInv, HandleIRQ
  <2> QED
    BY <2>6, <2>7, <2>8
<1>4. CASE offset # 2
  <2>1. WriteRegister(offset, value, size)
    BY <1>2, <1>4 DEF SmbWrite
  <2>2. gsi' = gsi /\ pci' = pci
    BY <2>1 DEF WriteRegister
  <2>3. DOMAIN smb' = SmbFields /\ smb'.status = smb.status
    <3>1. CASE offset \in {4, 6, 7, 8}
      <4>1. ASSUME NEW v PROVE \A name \in {"address", "data0", "data1", "command"} :
                                  /\ DOMAIN [smb EXCEPT ![name] = v] = SmbFields
                                  /\ [smb EXCEPT ![name] = v].status = smb.status
        BY DEF LineInv, SmbFields
      <4>2. ASSUME NEW v, NEW w
            PROVE  /\ DOMAIN [smb EXCEPT !.data0 = v, !.data1 = w] = SmbFields
                   /\ [smb EXCEPT !.data0 = v, !.data1 = w].status = smb.status
        BY DEF LineInv, SmbFields
      <4>3. CASE offset = 6 /\ size = 2
        <5>1. smb' = [smb EXCEPT !.data0 = value \cap 0 .. 7, !.data1 = Take(value, 1, 1)]
          BY <2>1, <4>3 DEF WriteRegister
        <5> QED
          BY <4>2, <5>1
      <4>4. CASE ~(offset = 6 /\ size = 2)
        <5>1. \E name \in {"address", "data0", "data1", "command"} : smb' = Register8(name, value)
          BY <2>1, <3>1, <4>4 DEF WriteRegister
        <5> QED
          BY <4>1, <5>1 DEF Register8
      <4> QED
        BY <4>3, <4>4
    <3>2. CASE offset = 9
      <4>1. PICK b : b = [smb EXCEPT !.block[smb.index] = value \cap 0 .. 7]
        OBVIOUS
      <4>2. DOMAIN b = SmbFields /\ b.status = smb.status
        BY <4>1 DEF LineInv, SmbFields
      <4>3. smb' = Advance(b)
        BY <2>1, <3>2, <4>1 DEF WriteRegister
      <4> QED
        BY <4>2, <4>3 DEF Advance, SmbFields
    <3>3. CASE offset \notin {4, 6, 7, 8, 9}
      <4>1. smb' = smb
        BY <2>1, <3>3 DEF WriteRegister
      <4> QED
        BY <4>1 DEF LineInv
    <3> QED
      BY <3>1, <3>2, <3>3
  <2> QED
    BY <2>2, <2>3, RoutingKept DEF LineInv
<1> QED
  BY <1>3, <1>4

LEMMA LineStarts == ChipInit => LineInv
BY DEF ChipInit, PciInit, SmbInit, LineInv, SmbFields

LEMMA LineKept == LineInv /\ [ChipNext]_chipsetVars /\ [CarefulDriver]_chipsetVars => LineInv'
<1> SUFFICES ASSUME LineInv, [ChipNext]_chipsetVars, [CarefulDriver]_chipsetVars PROVE LineInv'
  OBVIOUS
<1>1. ASSUME UNCHANGED <<gsi, smb>>, Routing(1)' = Routing(1) PROVE LineInv'
  BY <1>1 DEF LineInv
<1>2. CASE UNCHANGED <<gsi, smb, pci>>
  BY <1>1, <1>2, RoutingKept
<1>3. CASE UNCHANGED chipsetVars
  BY <1>2, <1>3 DEF chipsetVars, chipVars, pciVars, smbVars
<1>4. CASE CarefulDriver /\ (ConfigAddress \/ ConfigWrite)
  <2>1. UNCHANGED <<gsi, smb>>
    BY <1>4 DEF ConfigAddress, ConfigWrite, WriteConfigAddress, WriteConfigData, smbVars
  <2>2. CASE \E irq \in DOMAIN gsi : gsi[irq]
    BY <1>1, <1>4, <2>1, <2>2 DEF CarefulDriver
  <2>3. CASE \A irq \in DOMAIN gsi : ~gsi[irq]
    BY <2>1, <2>3 DEF LineInv
  <2> QED
    BY <2>2, <2>3
<1>5. CASE CarefulDriver /\ SMBusOut
  BY <1>5, WriteKeepsLine DEF CarefulDriver
<1>6. CASE SMBusIn
  <2>1. UNCHANGED <<gsi, pci>> /\ DOMAIN smb' = SmbFields /\ smb'.status = smb.status
    BY <1>6 DEF SMBusIn, SmbRead, Advance, LineInv, SmbFields
  <2> QED
    BY <2>1, RoutingKept DEF LineInv
<1>7. CASE SMBusAcknowledge
  BY <1>7, AcknowledgeLowers
<1>8. CASE \/ NewTask \/ Placed \/ ConfigRead \/ AtaOut \/ AtaIn \/ SuperIOOut
           \/ GraphBind \/ GraphMethod \/ GraphDraw
  BY <1>2, <1>8 DEF NewTask, Placed, ConfigRead, AtaOut, AtaIn, SuperIOOut, GraphBind, GraphMethod,
     GraphDraw, chipVars, pciVars, smbVars
<1> QED
  BY <1>3, <1>4, <1>5, <1>6, <1>7, <1>8 DEF ChipNext

\* The line of the SMBus is high only while its status says why, if the driver
\* acknowledges what it read and does not route the interrupt elsewhere while
\* it is pending (smbus.cpp), and a channel whose interrupts are disabled holds
\* its line low whatever the guest does (ata_channel.cpp).
THEOREM LinesHaveReasons ==
  ChipSpec /\ [][CarefulDriver]_chipsetVars => []LinesJustified
<1>1. LineInv => LineMeansStatus
  BY DEF LineInv, LineMeansStatus
<1>2. AtaInv => MaskedIsLow
  BY DEF AtaInv, Steady, MaskedIsLow
<1>3. LineMeansStatus /\ MaskedIsLow => LinesJustified
  BY DEF LinesJustified
<1> QED
  BY <1>1, <1>2, <1>3, LineStarts, LineKept, AtaAlways, PTL DEF ChipSpec
=============================================================================
