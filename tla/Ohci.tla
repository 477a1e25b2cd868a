-------------------------------- MODULE Ohci --------------------------------
(***************************************************************************)
(* A USB 1.1 host controller (core/openxbox/hw/ohci/ohci.cpp).  The guest  *)
(* writes its registers on the CPU thread; a timer (common/openxbox/       *)
(* cxbxtimer.cpp), one thread each, calls the frame worker, which goes     *)
(* through the lists of endpoint descriptors (ED) and transfer descriptors *)
(* (TD) in guest memory and hands finished TDs back by the done queue.     *)
(*                                                                         *)
(* Everything the worker does to one TD is a step; HcInterruptStatus is a  *)
(* plain integer that both threads change by load, operation and store,    *)
(* so that those are steps of their own.  No device class of the program   *)
(* answers USB_RET_ASYNC: m_AsyncTD is always 0 and what depends on it is  *)
(* left out.  The HCCA is memory the guest shares, as the comments of      *)
(* OHCI_ReadHCCA assume.  The root hub's ports are in UsbTree.             *)
(***************************************************************************)
EXTENDS Integers, FiniteSets

CONSTANTS
    MaxTimers,    \* frame timers that may be created
    NumEDs,       \* EDs are 1 .. NumEDs, a list is in this order
    NumTDs,       \* TDs are 1 .. NumTDs, linked in this order by the guest
    Delays,       \* DelayInterrupt of the TDs, functions from TDs to 0 .. 7
    Starts,       \* StartingFrame of the isochronous TDs
    FrameCount,   \* their FrameCount
    FlagSets,     \* what ED.Flags may hold: records of skip, iso, direction
    Responses,    \* how a device may answer: "ok", "error", "nak"
    Transitions,  \* the changes of HCFS the guest makes, pairs of States
    Enables,      \* the sets of lists it enables in HcControl
    Setups,       \* what it sets up before it starts the bus: records of hccaReg,
                  \* head and mask
    Masks,        \* what it writes to HcInterruptStatus
    FrameModulo,  \* 2^16, the range of HcFmNumber
    MaxFrames,    \* frames in a behaviour
    MaxWrites     \* register writes in a behaviour

States == {"reset", "resume", "operational", "suspend"}
EDs    == 1 .. NumEDs
TDs    == 1 .. NumTDs
Timers == 1 .. MaxTimers
Events == {"WD", "SF", "UE"}
Lists  == {"periodic", "control", "bulk"}

ASSUME OhciAssumption ==
    /\ {MaxTimers, NumEDs, MaxFrames, MaxWrites} \subseteq Nat
    /\ NumTDs \in Nat \ {0}
    /\ Delays \subseteq [TDs -> 0 .. 7]
    /\ FlagSets \subseteq [skip : BOOLEAN, iso : BOOLEAN, direction : BOOLEAN]
    /\ Responses \subseteq {"ok", "error", "nak"}
    /\ Transitions \subseteq States \X States
    /\ Enables \subseteq SUBSET Lists
    /\ Setups \subseteq [hccaReg : BOOLEAN, head : [Lists -> 0 .. NumEDs], mask : SUBSET Events]
    /\ Masks \subseteq SUBSET Events
    /\ FrameModulo \in Nat \ {0}

VARIABLES
    state,      \* HCFS of HcControl
    enabled,    \* the lists enabled in HcControl: PLE, CLE, BLE
    filled,     \* CLF and BLF of HcCommandStatus
    status,     \* HcInterruptStatus
    mask,       \* HcInterrupt
    hccaReg,    \* HcHCCA is not zero
    head,       \* HccaInterruptTable, HcControlHeadED, HcBulkHeadED
    doneHead,   \* HcDoneHead, a TD or 0
    number,     \* HcFmNumber
    toggles,    \* FIT of HcFmInterval, FRT of HcFmRemaining
    doneCount,  \* m_DoneCount
    frameTime,  \* m_bFrameTime
    eofTimer,   \* m_pEOFtimer, 0 for nullptr
    exit,       \* TimerObject::Exit
    thread,     \* where each timer's thread is
    worker,     \* the local variables of a frame
    guestWas,   \* HcInterruptStatus as the CPU thread loaded it, or none
    ed, td,     \* descriptors in guest memory
    hcca,       \* HccaFrameNumber, HccaDoneHead and its lowest bit
    crashed,    \* the null m_pEOFtimer was used
    frames, writes,  \* counters for the bounds
    age, held   \* record: frames each TD waits in the done queue, and
                \* whether WD kept the last frame from writing it back

registers == <<state, enabled, filled, mask, hccaReg, head, toggles>>
memory    == <<ed, td, hcca>>
timing    == <<eofTimer, exit>>
counters  == <<frames, writes>>
record    == <<age, held>>
vars == <<registers, status, doneHead, number, doneCount, frameTime, timing,
          thread, worker, guestWas, memory, crashed, counters, record>>

None == {"none"}
NoFrame == [list |-> "none", current |-> 0, active |-> FALSE, was |-> {},
            ed |-> [head |-> 0, iso |-> FALSE, direction |-> TRUE],
            frame |-> 0, done |-> 0, more |-> FALSE]

Init ==
    /\ state = "reset" /\ enabled = {} /\ filled = {} /\ status = {}
    /\ mask = {} /\ hccaReg = FALSE /\ doneHead = 0 /\ number = 0
    /\ head = [l \in Lists |-> 0]
    /\ toggles = [fit |-> FALSE, frt |-> FALSE]
    /\ doneCount = 7 /\ frameTime = FALSE /\ eofTimer = 0
    /\ exit = [t \in Timers |-> FALSE]
    /\ thread = [t \in Timers |-> "none"]
    /\ worker = [t \in Timers |-> NoFrame]
    /\ guestWas = None /\ crashed = FALSE /\ frames = 0 /\ writes = 0
    /\ age = [x \in TDs |-> -1] /\ held = FALSE
    /\ hcca = [frame |-> 0, done |-> 0, more |-> FALSE]
    /\ \E f \in [EDs -> FlagSets], d \in Delays, s \in Starts :
          /\ \E last \in {1, NumTDs} :
                ed = [e \in EDs |-> [flags |-> f[e], head |-> 1, tail |-> last,
                                     next |-> (e + 1) % (NumEDs + 1)]]
          /\ td = [x \in TDs |-> [next |-> (x + 1) % (NumTDs + 1),
                                  delay |-> d[x], start |-> s]]
-----------------------------------------------------------------------------
(* Timers.                                                                 *)

\* Mutant of BusStop: the timer is forgotten but not told to end.
ForgetTimer == eofTimer' = 0 /\ UNCHANGED exit

\* OHCI_BusStop: the thread of the timer ends when it next looks at Exit.
BusStop == /\ exit' = IF eofTimer = 0 THEN exit ELSE [exit EXCEPT ![eofTimer] = TRUE]
           /\ eofTimer' = 0

\* OHCI_BusStart: a new timer, whatever the old one does, and a first SOF.
BusStart ==
    \E t \in Timers :
        /\ thread[t] = "none"
        /\ \A o \in 1 .. t - 1 : thread[o] # "none"
        /\ thread' = [thread EXCEPT ![t] = "wait"]
        /\ eofTimer' = t
        /\ status' = status \cup {"SF"}
        /\ UNCHANGED exit

\* OHCI_FatalError
FatalError == status' = status \cup {"UE"} /\ BusStop

Goto(t, pc) == thread' = [thread EXCEPT ![t] = pc]

\* ClockThread: a stopped timer notices Exit when its time is over; a timer
\* created later runs for a full period first, in which an older thread has
\* noticed Exit or entered its frame.
Expire(t) ==
    /\ thread[t] = "wait"
    /\ \A o \in 1 .. t - 1 : /\ thread[o] = "wait" => ~exit[o]
                             /\ thread[o] \notin {"spin", "take"}
    /\ frames < MaxFrames
    /\ IF exit[t] THEN Goto(t, "dead") /\ UNCHANGED frames
                  ELSE Goto(t, "spin") /\ frames' = frames + 1
    /\ UNCHANGED <<registers, status, doneHead, number, doneCount, frameTime,
                   timing, worker, guestWas, memory, crashed, writes, record>>

\* ClockThread, after the callback.
Return(t) ==
    /\ thread[t] = "after"
    /\ Goto(t, IF exit[t] THEN "dead" ELSE "wait")
    /\ worker' = [worker EXCEPT ![t] = NoFrame]
    /\ UNCHANGED <<registers, status, doneHead, number, doneCount, frameTime,
                   timing, guestWas, memory, crashed, counters, record>>
-----------------------------------------------------------------------------
(* OHCI_FrameBoundaryWorker.                                               *)

\* while (m_bFrameTime) {} and m_bFrameTime = true, two accesses.
TestFrameTime(t) ==
    /\ thread[t] = "spin" /\ ~frameTime
    /\ Goto(t, "take")
    /\ UNCHANGED <<registers, status, doneHead, number, doneCount, frameTime,
                   timing, worker, guestWas, memory, crashed, counters, record>>

TakeFrameTime(t) ==
    /\ thread[t] = "take"
    /\ frameTime' = TRUE
    /\ Goto(t, "read")
    /\ UNCHANGED <<registers, status, doneHead, number, doneCount, timing,
                   worker, guestWas, memory, crashed, counters, record>>

ReadHCCA(t) ==
    /\ thread[t] = "read"
    /\ IF hccaReg
       THEN /\ worker' = [worker EXCEPT ![t].done = hcca.done, ![t].more = hcca.more]
            /\ Goto(t, "periodic")
            /\ UNCHANGED <<status, timing, frameTime>>
       ELSE /\ FatalError
            /\ frameTime' = FALSE
            /\ Goto(t, "after")
            /\ UNCHANGED worker
    /\ UNCHANGED <<registers, doneHead, number, doneCount, guestWas, memory,
                   crashed, counters, record>>

After(list) == CASE list = "periodic" -> "control"
                 [] list = "control"  -> "bulk"
                 [] list = "bulk"     -> "check"

\* The periodic list runs when enabled, the other two also need CLF or BLF.
Runs(list) == list \in enabled /\ (list # "periodic" => list \in filled)

\* ServiceEDlist(Head), for the three lists in turn.
StartList(t) ==
    \E l \in Lists :
        /\ thread[t] = l
        /\ IF Runs(l)
           THEN /\ worker' = [worker EXCEPT ![t].list = l, ![t].current = head[l],
                                            ![t].active = FALSE]
                /\ Goto(t, "ed")
           ELSE Goto(t, After(l)) /\ UNCHANGED worker
        /\ UNCHANGED <<registers, status, doneHead, number, doneCount, frameTime,
                       timing, guestWas, memory, crashed, counters, record>>

\* The list is over: CLF or BLF is cleared when nothing was active.
EndList(t) ==
    /\ thread[t] = "ed" /\ worker[t].current = 0
    /\ filled' = IF worker[t].active THEN filled ELSE filled \ {worker[t].list}
    /\ Goto(t, After(worker[t].list))
    /\ UNCHANGED <<state, enabled, mask, hccaReg, head, toggles, status, doneHead,
                   number, doneCount, frameTime, timing, worker, guestWas, memory,
                   crashed, counters, record>>

\* ReadED: a skipped or halted ED is passed over.  OHCI_WriteED never writes
\* HeadP, so the halted bit stays in the local copy.
LoadED(t) ==
    LET e == ed[worker[t].current] IN
    /\ thread[t] = "ed" /\ worker[t].current # 0
    /\ IF e.flags.skip
       THEN worker' = [worker EXCEPT ![t].current = e.next] /\ UNCHANGED thread
       ELSE /\ worker' = [worker EXCEPT ![t].ed = [head |-> e.head, iso |-> e.flags.iso,
                                                   direction |-> e.flags.direction]]
            /\ Goto(t, "td")
    /\ UNCHANGED <<registers, status, doneHead, number, doneCount, frameTime,
                   timing, guestWas, memory, crashed, counters, record>>

Minimum(i, j) == IF i < j THEN i ELSE j

\* Retire TD x: it becomes the head of the done queue, and the next write-back
\* is after its delay at the latest, or with this frame after an error.
Retire(t, x, count) ==
    /\ td' = [td EXCEPT ![x].next = doneHead]
    /\ doneHead' = x
    /\ doneCount' = count
    /\ worker' = [worker EXCEPT ![t].ed.head = td[x].next, ![t].active = TRUE]
    /\ age' = [age EXCEPT ![x] = 0]

\* Mutant of Delayed: the last TD decides, also when another one is due earlier.
DelayOfLast(x) == td[x].delay

Delayed(x) == Minimum(td[x].delay, doneCount)

\* The packet stays with the device, or the descriptor is not usable now.
Postpone(t) ==
    /\ worker' = [worker EXCEPT ![t].active = TRUE]
    /\ Goto(t, "write ed")
    /\ UNCHANGED <<td, doneHead, doneCount, age, status, timing>>

\* The direction of the ED, or that of the TD if the ED leaves it open, is IN,
\* OUT or SETUP.
HasDirection(t) == worker[t].ed.direction

\* OHCI_ReadTD, OHCI_WriteTD and those for isochronous TDs: only address 0 fails.
Unreadable(x) == x = 0

\* ServiceTD, for control, bulk and interrupt endpoints.
ServiceTD(t, x) ==
    \/ ~HasDirection(t) /\ Postpone(t)
    \/ /\ HasDirection(t)
       /\ \E r \in Responses :
             \/ r = "nak" /\ Postpone(t)
             \/ r = "ok" /\ Retire(t, x, Delayed(x)) /\ UNCHANGED <<thread, status, timing>>
             \/ r = "error" /\ Retire(t, x, 0) /\ Goto(t, "write ed") /\ UNCHANGED <<status, timing>>

\* HcFmNumber minus StartingFrame as a signed number.
Relative(x) ==
    LET r == (number - td[x].start) % FrameModulo IN
    IF r >= FrameModulo \div 2 THEN r - FrameModulo ELSE r

\* ServiceIsoTD: too early, expired, or a packet of the frame; the last packet
\* retires the TD, whatever became of the packets.
ServiceIsoTD(t, x) ==
    \/ Relative(x) < 0 /\ Postpone(t)
    \/ /\ Relative(x) > FrameCount
       /\ Retire(t, x, Delayed(x))
       /\ UNCHANGED <<thread, status, timing>>
    \/ /\ Relative(x) \in 0 .. FrameCount
       /\ IF worker[t].ed.direction /\ Relative(x) = FrameCount
          THEN Retire(t, x, Delayed(x)) /\ Goto(t, "write ed") /\ UNCHANGED <<status, timing>>
          ELSE Postpone(t)

\* The loop of ServiceEDlist over the TDs of one endpoint.  Address 0 cannot
\* be read: the error is reported and the loop goes on with the same address.
ServiceEndpoint(t) ==
    LET e == worker[t].ed
        x == e.head
    IN
    /\ thread[t] = "td"
    /\ IF x = ed[worker[t].current].tail
       THEN Goto(t, "write ed") /\ UNCHANGED <<worker, td, doneHead, doneCount, age, status, timing>>
       ELSE IF Unreadable(x)
       THEN /\ FatalError
            /\ worker' = [worker EXCEPT ![t].active = TRUE]
            /\ UNCHANGED <<thread, td, doneHead, doneCount, age>>
       ELSE \/ ~e.iso /\ ServiceTD(t, x)
            \/ e.iso /\ ServiceIsoTD(t, x)
    /\ UNCHANGED <<registers, number, frameTime, guestWas, ed, hcca, crashed,
                   counters, held>>

\* OHCI_WriteED: Ed + OffsetOfHeadP points past the local ED, and the word
\* there is written over ED.Flags.
WriteED(t) ==
    /\ thread[t] = "write ed"
    /\ \E f \in FlagSets : ed' = [ed EXCEPT ![worker[t].current].flags = f]
    /\ worker' = [worker EXCEPT ![t].current = ed[worker[t].current].next]
    /\ Goto(t, "ed")
    /\ UNCHANGED <<registers, status, doneHead, number, doneCount, frameTime, timing,
                   guestWas, td, hcca, crashed, counters, record>>

\* After an unrecoverable error there is no SOF.
CheckError(t) ==
    /\ thread[t] = "check"
    /\ IF "UE" \in status THEN frameTime' = FALSE /\ Goto(t, "after")
                          ELSE Goto(t, "update") /\ UNCHANGED frameTime
    /\ UNCHANGED <<registers, status, doneHead, number, doneCount, timing, worker,
                   guestWas, memory, crashed, counters, record>>

WritesDone == doneCount = 0 /\ "WD" \notin status
CountDown  == IF doneCount \in 1 .. 6 THEN doneCount - 1 ELSE doneCount

\* The frame number, and the done queue once its delay is over and the guest
\* has acknowledged the one before.
UpdateFrame(t) ==
    /\ thread[t] = "update"
    /\ toggles' = [toggles EXCEPT !.frt = toggles.fit]
    /\ number' = (number + 1) % FrameModulo
    /\ IF WritesDone
       THEN /\ worker' = [worker EXCEPT ![t].frame = number', ![t].done = doneHead,
                                        ![t].more = (mask \cap status # {}), ![t].was = status]
            /\ doneHead' = 0 /\ doneCount' = 7
            /\ Goto(t, "wd")
            /\ age' = [x \in TDs |-> -1]
       ELSE /\ worker' = [worker EXCEPT ![t].frame = number']
            /\ doneCount' = CountDown
            /\ Goto(t, "sof")
            /\ age' = [x \in TDs |-> IF age[x] \in 0 .. 7 THEN age[x] + 1 ELSE age[x]]
            /\ UNCHANGED doneHead
    /\ held' = ("WD" \in status)
    /\ UNCHANGED <<state, enabled, filled, mask, hccaReg, head, status, frameTime,
                   timing, guestWas, memory, crashed, counters>>

\* SetInterrupt(OHCI_INTR_WD), the store.
StoreWD(t) ==
    /\ thread[t] = "wd"
    /\ status' = worker[t].was \cup {"WD"}
    /\ Goto(t, "sof")
    /\ UNCHANGED <<registers, doneHead, number, doneCount, frameTime, timing, worker,
                   guestWas, memory, crashed, counters, record>>

\* OHCI_SOF(false) reads the time of m_pEOFtimer.
StartOfFrame(t) ==
    /\ thread[t] = "sof"
    /\ IF eofTimer = 0
       THEN crashed' = TRUE /\ UNCHANGED <<thread, worker>>
       ELSE /\ worker' = [worker EXCEPT ![t].was = status]
            /\ Goto(t, "sf")
            /\ UNCHANGED crashed
    /\ UNCHANGED <<registers, status, doneHead, number, doneCount, frameTime, timing,
                   guestWas, memory, counters, record>>

StoreSF(t) ==
    /\ thread[t] = "sf"
    /\ status' = worker[t].was \cup {"SF"}
    /\ Goto(t, "write")
    /\ UNCHANGED <<registers, doneHead, number, doneCount, frameTime, timing, worker,
                   guestWas, memory, crashed, counters, record>>

\* OHCI_WriteHCCA: number and done head of the local copy, new or not.
WriteHCCA(t) ==
    /\ thread[t] = "write"
    /\ IF hccaReg
       THEN /\ hcca' = [frame |-> worker[t].frame, done |-> worker[t].done,
                        more |-> worker[t].more]
            /\ UNCHANGED <<status, timing>>
       ELSE FatalError /\ UNCHANGED hcca
    /\ frameTime' = FALSE
    /\ Goto(t, "after")
    /\ UNCHANGED <<registers, doneHead, number, doneCount, worker, guestWas, ed, td,
                   crashed, counters, record>>

Frame(t) ==
    \/ Expire(t) \/ TestFrameTime(t) \/ TakeFrameTime(t) \/ ReadHCCA(t)
    \/ StartList(t) \/ LoadED(t) \/ ServiceEndpoint(t) \/ WriteED(t) \/ EndList(t)
    \/ CheckError(t) \/ UpdateFrame(t) \/ StoreWD(t) \/ StartOfFrame(t) \/ StoreSF(t)
    \/ WriteHCCA(t) \/ Return(t)
-----------------------------------------------------------------------------
(* Registers, on the CPU thread.                                           *)

\* OHCI_StateReset
StateReset ==
    /\ BusStop
    /\ state' = "reset" /\ enabled' = {} /\ filled' = {} /\ status' = {} /\ mask' = {}
    /\ hccaReg' = FALSE /\ head' = [head EXCEPT !["control"] = 0, !["bulk"] = 0]
    /\ doneHead' = 0 /\ number' = 0 /\ toggles' = [fit |-> FALSE, frt |-> FALSE]
    /\ doneCount' = 7
    /\ age' = [x \in TDs |-> -1]
    /\ UNCHANGED thread

\* HcControl: OHCI_ChangeState
WriteControl ==
    \E s \in States, e \in Enables :
        /\ s = state \/ <<state, s>> \in Transitions
        /\ IF s # state /\ s = "reset" THEN StateReset
           ELSE /\ state' = s /\ enabled' = e
                /\ CASE s = "operational" /\ s # state -> BusStart
                     [] s = "suspend" /\ s # state -> BusStop /\ UNCHANGED <<thread, status>>
                     [] OTHER -> UNCHANGED <<thread, status, timing>>
                /\ UNCHANGED <<filled, mask, hccaReg, head, doneHead, number, toggles,
                               doneCount, age>>

\* HcCommandStatus: bits are only ever set, and HCR resets.
WriteCommand ==
    \/ StateReset
    \/ \E f \in (SUBSET {"control", "bulk"}) \ {{}} :
          /\ filled' = filled \cup f
          /\ UNCHANGED <<state, enabled, mask, hccaReg, head, toggles, status, doneHead,
                         number, doneCount, timing, thread, age>>

\* HcInterruptEnable and Disable, HcHCCA, HcControlHeadED, HcBulkHeadED,
\* HcFmInterval and the table in the HCCA: the guest writes them one after the
\* other while no frame runs, which is one step here.
WriteRegisters ==
    /\ state # "operational"
    /\ \A t \in Timers : thread[t] \in {"none", "wait", "dead"}
    /\ \E s \in Setups : hccaReg' = s.hccaReg /\ head' = s.head /\ mask' = s.mask
    /\ toggles' = [toggles EXCEPT !.fit = ~@]
    /\ UNCHANGED <<state, enabled, filled, status, doneHead, number, doneCount, timing,
                   thread, age>>

Write ==
    /\ guestWas = None /\ writes < MaxWrites
    /\ writes' = writes + 1
    /\ WriteControl \/ WriteCommand \/ WriteRegisters
    /\ UNCHANGED <<frameTime, worker, guestWas, memory, crashed, frames, held>>

\* HcInterruptStatus, a one clears: the load, then the store.
LoadStatus ==
    /\ guestWas = None /\ status # {} /\ writes < MaxWrites
    /\ writes' = writes + 1
    /\ guestWas' = status
    /\ UNCHANGED <<registers, status, doneHead, number, doneCount, frameTime, timing,
                   thread, worker, memory, crashed, frames, record>>

StoreStatus ==
    /\ guestWas # None
    /\ \E m \in Masks : status' = guestWas \ m
    /\ guestWas' = None
    /\ UNCHANGED <<registers, doneHead, number, doneCount, frameTime, timing, thread,
                   worker, memory, crashed, counters, record>>

\* HcFmRemaining: OHCI_GetFrameRemaining reads the time of m_pEOFtimer.
ReadRemaining ==
    /\ state = "operational" /\ eofTimer = 0
    /\ crashed' = TRUE
    /\ UNCHANGED <<registers, status, doneHead, number, doneCount, frameTime, timing,
                   thread, worker, guestWas, memory, counters, record>>

\* The guest's driver, external: it queues a TD by advancing TailP.
Enqueue ==
    /\ writes < MaxWrites /\ writes' = writes + 1
    /\ \E e \in EDs : /\ ed[e].tail < NumTDs
                      /\ ed' = [ed EXCEPT ![e].tail = @ + 1]
    /\ UNCHANGED <<registers, status, doneHead, number, doneCount, frameTime, timing,
                   thread, worker, guestWas, td, hcca, crashed, frames, record>>

Guest == Write \/ LoadStatus \/ StoreStatus \/ ReadRemaining \/ Enqueue

Next == ~crashed /\ (Guest \/ \E t \in Timers : Frame(t))

Spec == Init /\ [][Next]_vars
-----------------------------------------------------------------------------
InFrame(t) == thread[t] \notin {"none", "wait", "spin", "take", "after", "dead"}

\* Frames never overlap, although m_bFrameTime is tested and set in two steps
\* and a stopped timer's thread goes on until it looks at Exit: two workers
\* would share the lists, the packet and the done queue.
FrameSerialised == \A t, u \in Timers : InFrame(t) /\ InFrame(u) => t = u

\* A TD in the done queue is handed to the guest after as many frames as its
\* DelayInterrupt says, unless the guest has not acknowledged the queue before.
WritebackInTime == \A x \in TDs : td[x].delay < 7 /\ age[x] > td[x].delay => held
=============================================================================
