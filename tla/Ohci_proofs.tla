----------------------------- MODULE Ohci_proofs -----------------------------
(***************************************************************************)
(* The host controller, for any number of timers, descriptors, frames and  *)
(* register writes: the frames of different timers do not overlap, and the *)
(* done queue is written back in time.  The devices on its ports, for any  *)
(* addresses and whatever the user plugs: a packet reaches the device the  *)
(* guest gave the address to, or nobody, a transfer of packets gives and   *)
(* does what was asked, once, and the guest comes to know what the user    *)
(* has plugged.                                                            *)
(***************************************************************************)
EXTENDS Ohci, Usb, TLAPS

\* Where a worker that holds m_bFrameTime may be, and where a timer's thread is
\* otherwise.
FramePlaces == {"read", "periodic", "control", "bulk", "ed", "td", "write ed",
                "check", "update", "wd", "sof", "sf", "write"}
Places == FramePlaces \cup {"none", "wait", "spin", "take", "after", "dead"}

Workers == [list : Lists \cup {"none"}, current : 0 .. NumEDs, active : BOOLEAN,
            was : SUBSET Events,
            ed : [head : 0 .. NumTDs, iso : BOOLEAN, direction : BOOLEAN],
            frame : 0 .. FrameModulo - 1, done : 0 .. NumTDs, more : BOOLEAN]

RegisterTypes ==
    /\ state \in States /\ enabled \subseteq Lists /\ filled \subseteq Lists
    /\ status \subseteq Events /\ mask \subseteq Events /\ hccaReg \in BOOLEAN
    /\ head \in [Lists -> 0 .. NumEDs]
    /\ doneHead \in 0 .. NumTDs /\ doneCount \in 0 .. 7
    /\ number \in 0 .. FrameModulo - 1
    /\ toggles \in [fit : BOOLEAN, frt : BOOLEAN]
    /\ guestWas \in (SUBSET Events) \cup {None}

ThreadTypes ==
    /\ frameTime \in BOOLEAN /\ eofTimer \in 0 .. MaxTimers
    /\ exit \in [Timers -> BOOLEAN] /\ thread \in [Timers -> Places]

\* A worker that services an endpoint knows the list it came from.
WorkerTypes ==
    /\ worker \in [Timers -> Workers]
    /\ \A t \in Timers :
         /\ thread[t] \in {"ed", "td", "write ed"} => worker[t].list \in Lists
         /\ thread[t] \in {"td", "write ed"} => worker[t].current # 0

MemoryTypes ==
    /\ ed \in [EDs -> [flags : [skip : BOOLEAN, iso : BOOLEAN, direction : BOOLEAN],
                       head : 0 .. NumTDs, tail : 0 .. NumTDs, next : 0 .. NumEDs]]
    /\ td \in [TDs -> [next : 0 .. NumTDs, delay : 0 .. 7, start : Starts]]
    /\ hcca \in [frame : 0 .. FrameModulo - 1, done : 0 .. NumTDs, more : BOOLEAN]

RecordTypes == age \in [TDs -> -1 .. 8] /\ held \in BOOLEAN

TypeOK == RegisterTypes /\ ThreadTypes /\ WorkerTypes /\ MemoryTypes /\ RecordTypes

\* Timers are created in order, and a timer is created only when all the ones
\* before it have been told to end.
InOrder == \A t, u \in Timers : t < u /\ thread[u] # "none" => thread[t] # "none" /\ exit[t]

\* The bus keeps the only timer that has not been told to end, and only while
\* it is operational.
BusTimer ==
    /\ \A t \in Timers : thread[t] # "none" /\ t # eofTimer => exit[t]
    /\ state # "operational" => eofTimer = 0

\* One thread at a time waits for m_bFrameTime, so that its test and its store
\* have no rival; whoever is in a frame holds the flag.
OneContender == \A t, u \in Timers :
    thread[t] \in {"spin", "take"} /\ thread[u] \in {"spin", "take"} => t = u
FlagHeld == \A t \in Timers : /\ InFrame(t) => frameTime
                              /\ thread[t] = "take" => ~frameTime

SerialInv == InOrder /\ BusTimer /\ OneContender /\ FlagHeld /\ FrameSerialised

\* A TD in the done queue has the frames of doneCount left, at most; once they
\* are over, only an unacknowledged interrupt keeps it there.
QueueInv == \A x \in TDs : td[x].delay < 7 /\ age[x] >= 0 =>
               \/ doneCount > 0 /\ age[x] + doneCount <= td[x].delay
               \/ doneCount = 0 /\ (age[x] <= td[x].delay \/ held)
-----------------------------------------------------------------------------
LEMMA Modulo ==
  ASSUME NEW n \in Nat, NEW m \in Nat \ {0}
  PROVE  n % m \in 0 .. m - 1
OBVIOUS

LEMMA Numbers ==
  /\ MaxTimers \in Nat /\ NumEDs \in Nat /\ NumTDs \in Nat \ {0}
  /\ FrameModulo \in Nat \ {0}
BY OhciAssumption

LEMMA InitTypes == Init => TypeOK
<1> SUFFICES ASSUME Init PROVE TypeOK
  OBVIOUS
<1>1. RegisterTypes
  <2>1. /\ state = "reset" /\ enabled = {} /\ filled = {} /\ status = {} /\ mask = {}
        /\ hccaReg = FALSE /\ doneHead = 0 /\ number = 0 /\ doneCount = 7
        /\ guestWas = None
    BY DEF Init
  <2>2. head = [l \in Lists |-> 0] /\ toggles = [fit |-> FALSE, frt |-> FALSE]
    BY DEF Init
  <2>3. head \in [Lists -> 0 .. NumEDs] /\ toggles \in [fit : BOOLEAN, frt : BOOLEAN]
    BY <2>2, Numbers
  <2>4. doneHead \in 0 .. NumTDs /\ doneCount \in 0 .. 7 /\ number \in 0 .. FrameModulo - 1
    BY <2>1, Numbers
  <2>5. state \in States
    BY <2>1 DEF States
  <2>6. hccaReg \in BOOLEAN
    BY <2>1, Zenon
  <2>7. guestWas \in (SUBSET Events) \cup {None}
    BY <2>1, Zenon
  <2>8. enabled \subseteq Lists /\ filled \subseteq Lists /\ status \subseteq Events /\ mask \subseteq Events
    BY <2>1, Zenon
  <2> QED
    BY <2>3, <2>4, <2>5, <2>6, <2>7, <2>8, Zenon DEF RegisterTypes
<1>2. ThreadTypes
  <2>1. /\ frameTime = FALSE /\ eofTimer = 0 /\ exit = [t \in Timers |-> FALSE]
        /\ thread = [t \in Timers |-> "none"]
    BY DEF Init
  <2>2. "none" \in Places
    BY DEF Places
  <2>3. eofTimer \in 0 .. MaxTimers
    BY <2>1, Numbers
  <2> QED
    BY <2>1, <2>2, <2>3 DEF ThreadTypes
<1>3. WorkerTypes
  <2>1. NoFrame \in Workers
    BY Numbers DEF NoFrame, Workers
  <2>2. worker = [t \in Timers |-> NoFrame] /\ thread = [t \in Timers |-> "none"]
    BY DEF Init
  <2> QED
    BY <2>1, <2>2 DEF WorkerTypes
<1>4. MemoryTypes
  <2>1. PICK f \in [EDs -> FlagSets], d \in Delays, s \in Starts :
          /\ \E last \in {1, NumTDs} :
                ed = [e \in EDs |-> [flags |-> f[e], head |-> 1, tail |-> last,
                                     next |-> (e + 1) % (NumEDs + 1)]]
          /\ td = [x \in TDs |-> [next |-> (x + 1) % (NumTDs + 1),
                                  delay |-> d[x], start |-> s]]
    BY DEF Init
  <2>2. PICK last \in {1, NumTDs} :
          ed = [e \in EDs |-> [flags |-> f[e], head |-> 1, tail |-> last,
                               next |-> (e + 1) % (NumEDs + 1)]]
    BY <2>1
  <2>3. /\ \A e \in EDs : (e + 1) % (NumEDs + 1) \in 0 .. NumEDs
        /\ \A x \in TDs : (x + 1) % (NumTDs + 1) \in 0 .. NumTDs
    <3>1. ASSUME NEW n \in Nat, NEW m \in Nat PROVE (n + 1) % (m + 1) \in 0 .. m
      OBVIOUS
    <3> QED
      BY <3>1, Numbers DEF EDs, TDs
  <2>4. /\ \A e \in EDs : f[e] \in [skip : BOOLEAN, iso : BOOLEAN, direction : BOOLEAN]
        /\ \A x \in TDs : d[x] \in 0 .. 7
    BY OhciAssumption
  <2>5. 1 \in 0 .. NumTDs /\ last \in 0 .. NumTDs
    BY Numbers
  <2>6. hcca \in [frame : 0 .. FrameModulo - 1, done : 0 .. NumTDs, more : BOOLEAN]
    <3>1. hcca = [frame |-> 0, done |-> 0, more |-> FALSE]
      BY DEF Init
    <3> QED
      BY <3>1, Numbers
  <2>7. ed \in [EDs -> [flags : [skip : BOOLEAN, iso : BOOLEAN, direction : BOOLEAN],
                        head : 0 .. NumTDs, tail : 0 .. NumTDs, next : 0 .. NumEDs]]
    BY <2>2, <2>3, <2>4, <2>5
  <2>8. td \in [TDs -> [next : 0 .. NumTDs, delay : 0 .. 7, start : Starts]]
    BY <2>1, <2>3, <2>4
  <2> QED
    BY <2>6, <2>7, <2>8 DEF MemoryTypes
<1>5. RecordTypes
  <2>1. age = [x \in TDs |-> -1] /\ held = FALSE
    BY DEF Init
  <2> QED
    <3>1. age \in [TDs -> -1 .. 8]
      BY <2>1, SMT
    <3>2. held \in BOOLEAN
      BY <2>1, Zenon
    <3> QED
      BY <3>1, <3>2, Zenon DEF RecordTypes
<1> QED
  BY <1>1, <1>2, <1>3, <1>4, <1>5 DEF TypeOK

\* What a step leaves alone keeps its type.
LEMMA KeptTypes ==
  /\ RegisterTypes /\ UNCHANGED <<registers, status, doneHead, doneCount, number, guestWas>>
     => RegisterTypes'
  /\ MemoryTypes /\ UNCHANGED memory => MemoryTypes'
  /\ RecordTypes /\ UNCHANGED record => RecordTypes'
<1>1. ASSUME RegisterTypes,
             UNCHANGED <<registers, status, doneHead, doneCount, number, guestWas>>
      PROVE  RegisterTypes'
  BY <1>1, Zenon DEF RegisterTypes, registers
<1>2. ASSUME MemoryTypes, UNCHANGED memory PROVE MemoryTypes'
  BY <1>2, Zenon DEF MemoryTypes, memory
<1>3. ASSUME RecordTypes, UNCHANGED record PROVE RecordTypes'
  BY <1>3, Zenon DEF RecordTypes, record
<1> QED
  BY <1>1, <1>2, <1>3

LEMMA GotoTypes ==
  ASSUME ThreadTypes, NEW t \in Timers, NEW pc \in Places, Goto(t, pc)
  PROVE  /\ thread' \in [Timers -> Places]
         /\ thread'[t] = pc /\ \A u \in Timers \ {t} : thread'[u] = thread[u]
BY DEF ThreadTypes, Goto

\* A thread that does not stay in a list needs to know nothing of it.
LEMMA WorkerKept ==
  ASSUME ThreadTypes, WorkerTypes, NEW t \in Timers, NEW pc \in Places,
         Goto(t, pc), UNCHANGED worker,
         pc \in {"ed", "td", "write ed"} => worker[t].list \in Lists,
         pc \in {"td", "write ed"} => worker[t].current # 0
  PROVE  WorkerTypes'
<1>1. thread'[t] = pc /\ \A u \in Timers \ {t} : thread'[u] = thread[u]
  BY GotoTypes
<1> QED
  BY <1>1 DEF WorkerTypes

LEMMA WorkerSet ==
  ASSUME ThreadTypes, WorkerTypes, NEW t \in Timers, NEW pc \in Places, NEW w \in Workers,
         Goto(t, pc), worker' = [worker EXCEPT ![t] = w],
         pc \in {"ed", "td", "write ed"} => w.list \in Lists,
         pc \in {"td", "write ed"} => w.current # 0
  PROVE  WorkerTypes'
<1>1. thread'[t] = pc /\ \A u \in Timers \ {t} : thread'[u] = thread[u]
  BY GotoTypes
<1>2. /\ worker' \in [Timers -> Workers]
      /\ worker'[t] = w /\ \A u \in Timers \ {t} : worker'[u] = worker[u]
  BY DEF WorkerTypes
<1> QED
  BY <1>1, <1>2 DEF WorkerTypes

\* OHCI_BusStop, alone and in OHCI_FatalError.
LEMMA StopTypes ==
  ASSUME ThreadTypes, BusStop
  PROVE  /\ eofTimer' \in 0 .. MaxTimers /\ exit' \in [Timers -> BOOLEAN]
         /\ \A t \in Timers : exit[t] => exit'[t]
         /\ eofTimer # 0 => exit'[eofTimer]
<1>1. eofTimer' \in 0 .. MaxTimers
  BY Numbers DEF BusStop
<1>2. CASE eofTimer = 0
  BY <1>1, <1>2, Zenon DEF BusStop, ThreadTypes
<1>3. CASE eofTimer # 0
  <2>1. eofTimer \in Timers
    BY <1>3, Numbers DEF ThreadTypes, Timers
  <2>2. exit' = [exit EXCEPT ![eofTimer] = TRUE]
    BY <1>3 DEF BusStop
  <2> QED
    BY <1>1, <2>1, <2>2, Zenon DEF ThreadTypes
<1> QED
  BY <1>2, <1>3

\* The steps of a timer and those of a frame that do not touch a descriptor.
LEMMA TimerTypes ==
  ASSUME TypeOK, NEW t \in Timers,
         Expire(t) \/ TestFrameTime(t) \/ TakeFrameTime(t) \/ Return(t)
  PROVE  TypeOK'
<1> USE DEF TypeOK
<1>1. CASE Expire(t)
  <2>1. PICK pc \in {"dead", "spin"} : Goto(t, pc)
    BY <1>1 DEF Expire
  <2>2. pc \in Places /\ pc \notin {"ed", "td", "write ed"}
    BY DEF Places
  <2>3. UNCHANGED <<registers, status, doneHead, doneCount, number, guestWas, frameTime,
                    eofTimer, exit, worker, memory, record>>
    BY <1>1 DEF Expire, timing
  <2> QED
    BY <2>1, <2>2, <2>3, GotoTypes, WorkerKept, KeptTypes DEF ThreadTypes
<1>2. CASE TestFrameTime(t)
  <2>1. Goto(t, "take") /\ "take" \in Places
    BY <1>2 DEF TestFrameTime, Places
  <2>2. UNCHANGED <<registers, status, doneHead, doneCount, number, guestWas, frameTime,
                    eofTimer, exit, worker, memory, record>>
    BY <1>2 DEF TestFrameTime, timing
  <2> QED
    BY <2>1, <2>2, GotoTypes, WorkerKept, KeptTypes DEF ThreadTypes
<1>3. CASE TakeFrameTime(t)
  <2>1. Goto(t, "read") /\ "read" \in Places
    BY <1>3 DEF TakeFrameTime, Places, FramePlaces
  <2>2. /\ UNCHANGED <<registers, status, doneHead, doneCount, number, guestWas,
                       eofTimer, exit, worker, memory, record>>
        /\ frameTime' \in BOOLEAN
    BY <1>3 DEF TakeFrameTime, timing
  <2> QED
    BY <2>1, <2>2, GotoTypes, WorkerKept, KeptTypes DEF ThreadTypes
<1>4. CASE Return(t)
  <2>1. PICK pc \in {"dead", "wait"} : Goto(t, pc)
    BY <1>4 DEF Return
  <2>2. pc \in Places /\ pc \notin {"ed", "td", "write ed"}
    BY DEF Places
  <2>3. /\ UNCHANGED <<registers, status, doneHead, doneCount, number, guestWas, frameTime,
                       eofTimer, exit, memory, record>>
        /\ worker' = [worker EXCEPT ![t] = NoFrame]
    BY <1>4 DEF Return, timing
  <2>4. NoFrame \in Workers
    BY Numbers DEF NoFrame, Workers
  <2> QED
    BY <2>1, <2>2, <2>3, <2>4, GotoTypes, WorkerSet, KeptTypes DEF ThreadTypes
<1> QED
  BY <1>1, <1>2, <1>3, <1>4

LEMMA ListTypes ==
  ASSUME TypeOK, NEW t \in Timers, StartList(t) \/ LoadED(t) \/ EndList(t) \/ WriteED(t)
  PROVE  TypeOK'
<1> USE DEF TypeOK
<1> DEFINE w == worker[t]
<1>0. /\ w \in Workers
      /\ w.list \in Lists \cup {"none"} /\ w.current \in 0 .. NumEDs
      /\ w.current # 0 => w.current \in EDs
  <2>1. w \in Workers
    BY DEF WorkerTypes
  <2>2. w.list \in Lists \cup {"none"} /\ w.current \in 0 .. NumEDs
    BY <2>1 DEF Workers
  <2> QED
    BY <2>1, <2>2, Numbers DEF EDs
<1>9. \A e \in EDs : /\ ed[e].flags \in [skip : BOOLEAN, iso : BOOLEAN, direction : BOOLEAN]
                     /\ ed[e].head \in 0 .. NumTDs /\ ed[e].next \in 0 .. NumEDs
                     /\ ed[e].tail \in 0 .. NumTDs
  BY DEF MemoryTypes
<1>1. CASE StartList(t)
  <2>1. PICK l \in Lists :
          IF Runs(l)
          THEN /\ worker' = [worker EXCEPT ![t].list = l, ![t].current = head[l],
                                           ![t].active = FALSE]
               /\ Goto(t, "ed")
          ELSE Goto(t, After(l)) /\ UNCHANGED worker
    BY <1>1 DEF StartList
  <2>2. UNCHANGED <<registers, status, doneHead, doneCount, number, guestWas, frameTime,
                    eofTimer, exit, memory, record>>
    BY <1>1 DEF StartList, timing
  <2>3. "ed" \in Places /\ After(l) \in Places /\ After(l) \notin {"ed", "td", "write ed"}
    BY DEF Places, FramePlaces, After, Lists
  <2>4. CASE Runs(l)
    <3> DEFINE v == [w EXCEPT !.list = l, !.current = head[l], !.active = FALSE]
    <3>1. worker' = [worker EXCEPT ![t] = v]
      BY <2>1, <2>4 DEF WorkerTypes, Workers
    <3>2. head[l] \in 0 .. NumEDs
      BY DEF RegisterTypes
    <3>3. v \in Workers /\ v.list = l
      BY <1>0, <3>2 DEF Workers
    <3> HIDE DEF v
    <3>4. WorkerTypes' /\ thread' \in [Timers -> Places]
      BY <2>1, <2>3, <2>4, <3>1, <3>3, GotoTypes, WorkerSet
    <3> QED
      BY <2>2, <3>4, KeptTypes DEF ThreadTypes
  <2>5. CASE ~Runs(l)
    BY <2>1, <2>2, <2>3, <2>5, GotoTypes, WorkerKept, KeptTypes DEF ThreadTypes
  <2> QED
    BY <2>4, <2>5
<1>2. CASE LoadED(t)
  <2> DEFINE e == ed[w.current]
  <2>1. w.current # 0 /\ thread[t] = "ed" /\ w.list \in Lists
    BY <1>2 DEF LoadED, WorkerTypes
  <2>2. UNCHANGED <<registers, status, doneHead, doneCount, number, guestWas, frameTime,
                    eofTimer, exit, memory, record>>
    BY <1>2 DEF LoadED, timing
  <2>3. CASE e.flags.skip
    <3> DEFINE v == [w EXCEPT !.current = e.next]
    <3>1. worker' = [worker EXCEPT ![t] = v] /\ UNCHANGED thread
      BY <1>2, <2>3 DEF LoadED
    <3>2. v \in Workers /\ v.list = w.list
      BY <1>0, <1>9, <2>1 DEF Workers
    <3> HIDE DEF v
    <3>3. WorkerTypes'
      BY <2>1, <3>1, <3>2 DEF WorkerTypes
    <3> QED
      BY <2>2, <3>1, <3>3, KeptTypes DEF ThreadTypes
  <2>4. CASE ~e.flags.skip
    <3> DEFINE v == [w EXCEPT !.ed = [head |-> e.head, iso |-> e.flags.iso,
                                      direction |-> e.flags.direction]]
    <3>1. worker' = [worker EXCEPT ![t] = v] /\ Goto(t, "td")
      BY <1>2, <2>4 DEF LoadED
    <3>2. v \in Workers /\ v.list = w.list /\ v.current = w.current
      BY <1>0, <1>9, <2>1 DEF Workers
    <3> HIDE DEF v
    <3>3. "td" \in Places
      BY DEF Places, FramePlaces
    <3>4. WorkerTypes' /\ thread' \in [Timers -> Places]
      BY <2>1, <3>1, <3>2, <3>3, GotoTypes, WorkerSet
    <3> QED
      BY <2>2, <3>4, KeptTypes DEF ThreadTypes
  <2> QED
    BY <2>3, <2>4
<1>3. CASE EndList(t)
  <2>1. thread[t] = "ed" /\ w.list \in Lists
    BY <1>3 DEF EndList, WorkerTypes
  <2>2. /\ UNCHANGED <<state, enabled, mask, hccaReg, head, toggles, status, doneHead,
                       doneCount, number, guestWas, frameTime, eofTimer, exit, worker,
                       memory, record>>
        /\ filled' \subseteq filled /\ Goto(t, After(w.list))
    BY <1>3 DEF EndList, timing
  <2>3. After(w.list) \in Places /\ After(w.list) \notin {"ed", "td", "write ed"}
    BY <2>1 DEF Places, FramePlaces, After, Lists
  <2>4. RegisterTypes'
    BY <2>2, Zenon DEF RegisterTypes
  <2> QED
    BY <2>2, <2>3, <2>4, GotoTypes, WorkerKept, KeptTypes DEF ThreadTypes
<1>4. CASE WriteED(t)
  <2>1. w.current \in EDs /\ w.list \in Lists
    BY <1>0, <1>4 DEF WriteED, WorkerTypes
  <2>2. PICK f \in FlagSets : ed' = [ed EXCEPT ![w.current].flags = f]
    BY <1>4 DEF WriteED
  <2>3. UNCHANGED <<registers, status, doneHead, doneCount, number, guestWas, frameTime,
                    eofTimer, exit, td, hcca, record>>
    BY <1>4 DEF WriteED, timing
  <2> DEFINE v == [w EXCEPT !.current = ed[w.current].next]
  <2>4. worker' = [worker EXCEPT ![t] = v] /\ Goto(t, "ed") /\ "ed" \in Places
    BY <1>4 DEF WriteED, Places, FramePlaces
  <2>5. v \in Workers /\ v.list = w.list
    BY <1>0, <1>9, <2>1 DEF Workers
  <2>6. f \in [skip : BOOLEAN, iso : BOOLEAN, direction : BOOLEAN]
    BY OhciAssumption
  <2>7. MemoryTypes'
    <3>1. [ed[w.current] EXCEPT !.flags = f]
            \in [flags : [skip : BOOLEAN, iso : BOOLEAN, direction : BOOLEAN],
                head : 0 .. NumTDs, tail : 0 .. NumTDs, next : 0 .. NumEDs]
      BY <2>1, <2>6 DEF MemoryTypes
    <3>2. ed' = [ed EXCEPT ![w.current] = [ed[w.current] EXCEPT !.flags = f]]
      BY <2>2
    <3> QED
      BY <2>1, <2>3, <3>1, <3>2, Zenon DEF MemoryTypes
  <2> HIDE DEF v
  <2>8. WorkerTypes' /\ thread' \in [Timers -> Places]
    BY <2>1, <2>4, <2>5, GotoTypes, WorkerSet
  <2> QED
    BY <2>3, <2>7, <2>8, KeptTypes DEF ThreadTypes
<1> QED
  BY <1>1, <1>2, <1>3, <1>4

\* OHCI_FatalError, and the stores to HcInterruptStatus.
LEMMA StatusTypes ==
  ASSUME RegisterTypes, status' \subseteq Events,
         UNCHANGED <<registers, doneHead, doneCount, number, guestWas>>
  PROVE  RegisterTypes'
BY Zenon DEF RegisterTypes, registers

LEMMA FatalTypes ==
  ASSUME RegisterTypes, ThreadTypes, FatalError,
         UNCHANGED <<registers, doneHead, doneCount, number, guestWas>>
  PROVE  /\ RegisterTypes' /\ eofTimer' \in 0 .. MaxTimers
         /\ exit' \in [Timers -> BOOLEAN]
<1>1. status' \subseteq Events /\ BusStop
  BY DEF FatalError, RegisterTypes, Events
<1> QED
  BY <1>1, StopTypes, StatusTypes

\* The rest of OHCI_FrameBoundaryWorker.
LEMMA BoundaryTypes ==
  ASSUME TypeOK, NEW t \in Timers,
         \/ ReadHCCA(t) \/ CheckError(t) \/ StoreWD(t) \/ StartOfFrame(t)
         \/ StoreSF(t) \/ WriteHCCA(t)
  PROVE  TypeOK'
<1> USE DEF TypeOK
<1> DEFINE w == worker[t]
<1>0. w \in Workers
  BY DEF WorkerTypes
<1>1. CASE ReadHCCA(t)
  <2>1. UNCHANGED <<registers, doneHead, doneCount, number, guestWas, memory, record>>
    BY <1>1 DEF ReadHCCA
  <2>2. "periodic" \in Places /\ "after" \in Places
    BY DEF Places, FramePlaces
  <2>3. CASE hccaReg
    <3> DEFINE v == [w EXCEPT !.done = hcca.done, !.more = hcca.more]
    <3>1. /\ worker' = [worker EXCEPT ![t] = v] /\ Goto(t, "periodic")
          /\ UNCHANGED <<status, eofTimer, exit, frameTime>>
      BY <1>1, <2>3 DEF ReadHCCA, timing, WorkerTypes, Workers
    <3>2. v \in Workers
      BY <1>0 DEF Workers, MemoryTypes
    <3> HIDE DEF v
    <3>3. WorkerTypes' /\ thread' \in [Timers -> Places]
      BY <2>2, <3>1, <3>2, GotoTypes, WorkerSet
    <3> QED
      BY <2>1, <3>1, <3>3, KeptTypes DEF ThreadTypes
  <2>4. CASE ~hccaReg
    <3>1. FatalError /\ frameTime' \in BOOLEAN /\ Goto(t, "after") /\ UNCHANGED worker
      BY <1>1, <2>4 DEF ReadHCCA
    <3>2. WorkerTypes' /\ thread' \in [Timers -> Places]
      BY <2>2, <3>1, GotoTypes, WorkerKept
    <3> QED
      BY <2>1, <3>1, <3>2, FatalTypes, KeptTypes DEF ThreadTypes
  <2> QED
    BY <2>3, <2>4
<1>2. CASE CheckError(t)
  <2>1. PICK pc \in {"after", "update"} : Goto(t, pc)
    BY <1>2 DEF CheckError
  <2>2. pc \in Places /\ pc \notin {"ed", "td", "write ed"}
    BY DEF Places, FramePlaces
  <2>3. /\ UNCHANGED <<registers, status, doneHead, doneCount, number, guestWas,
                       eofTimer, exit, worker, memory, record>>
        /\ frameTime' \in BOOLEAN
    BY <1>2 DEF CheckError, timing, ThreadTypes
  <2> QED
    BY <2>1, <2>2, <2>3, GotoTypes, WorkerKept, KeptTypes DEF ThreadTypes
<1>3. CASE StoreWD(t)
  <2>1. Goto(t, "sof") /\ "sof" \in Places
    BY <1>3 DEF StoreWD, Places, FramePlaces
  <2>2. /\ UNCHANGED <<registers, doneHead, doneCount, number, guestWas, frameTime,
                       eofTimer, exit, worker, memory, record>>
        /\ status' = w.was \cup {"WD"}
    BY <1>3 DEF StoreWD, timing
  <2>3. status' \subseteq Events
    BY <1>0, <2>2 DEF Workers, Events
  <2> QED
    BY <2>1, <2>2, <2>3, GotoTypes, WorkerKept, StatusTypes, KeptTypes DEF ThreadTypes
<1>4. CASE StartOfFrame(t)
  <2>1. UNCHANGED <<registers, status, doneHead, doneCount, number, guestWas, frameTime,
                    eofTimer, exit, memory, record>>
    BY <1>4 DEF StartOfFrame, timing
  <2>2. CASE eofTimer = 0
    BY <1>4, <2>1, <2>2, KeptTypes DEF StartOfFrame, ThreadTypes, WorkerTypes
  <2>3. CASE eofTimer # 0
    <3> DEFINE v == [w EXCEPT !.was = status]
    <3>1. worker' = [worker EXCEPT ![t] = v] /\ Goto(t, "sf") /\ "sf" \in Places
      BY <1>4, <2>3 DEF StartOfFrame, Places, FramePlaces
    <3>2. v \in Workers
      BY <1>0 DEF Workers, RegisterTypes
    <3> HIDE DEF v
    <3>3. WorkerTypes' /\ thread' \in [Timers -> Places]
      BY <3>1, <3>2, GotoTypes, WorkerSet
    <3> QED
      BY <2>1, <3>3, KeptTypes DEF ThreadTypes
  <2> QED
    BY <2>2, <2>3
<1>5. CASE StoreSF(t)
  <2>1. Goto(t, "write") /\ "write" \in Places
    BY <1>5 DEF StoreSF, Places, FramePlaces
  <2>2. /\ UNCHANGED <<registers, doneHead, doneCount, number, guestWas, frameTime,
                       eofTimer, exit, worker, memory, record>>
        /\ status' = w.was \cup {"SF"}
    BY <1>5 DEF StoreSF, timing
  <2>3. status' \subseteq Events
    BY <1>0, <2>2 DEF Workers, Events
  <2> QED
    BY <2>1, <2>2, <2>3, GotoTypes, WorkerKept, StatusTypes, KeptTypes DEF ThreadTypes
<1>6. CASE WriteHCCA(t)
  <2>1. /\ UNCHANGED <<registers, doneHead, doneCount, number, guestWas, worker, ed, td, record>>
        /\ frameTime' \in BOOLEAN /\ Goto(t, "after") /\ "after" \in Places
    BY <1>6 DEF WriteHCCA, Places
  <2>2. WorkerTypes' /\ thread' \in [Timers -> Places]
    BY <2>1, GotoTypes, WorkerKept
  <2>3. CASE hccaReg
    <3>1. /\ hcca' = [frame |-> w.frame, done |-> w.done, more |-> w.more]
          /\ UNCHANGED <<status, eofTimer, exit>>
      BY <1>6, <2>3 DEF WriteHCCA, timing
    <3>2. hcca' \in [frame : 0 .. FrameModulo - 1, done : 0 .. NumTDs, more : BOOLEAN]
      BY <1>0, <3>1 DEF Workers
    <3>3. MemoryTypes'
      BY <2>1, <3>2, Zenon DEF MemoryTypes
    <3> QED
      BY <2>1, <2>2, <3>1, <3>3, KeptTypes DEF ThreadTypes
  <2>4. CASE ~hccaReg
    <3>1. FatalError /\ UNCHANGED hcca
      BY <1>6, <2>4 DEF WriteHCCA
    <3> QED
      BY <2>1, <2>2, <3>1, FatalTypes, KeptTypes DEF ThreadTypes, memory
  <2> QED
    BY <2>3, <2>4
<1> QED
  BY <1>1, <1>2, <1>3, <1>4, <1>5, <1>6

LEMMA UpdateTypes ==
  ASSUME TypeOK, NEW t \in Timers, UpdateFrame(t)
  PROVE  TypeOK'
<1> USE DEF TypeOK
<1> DEFINE w == worker[t]
<1>0. w \in Workers
  BY DEF WorkerTypes
<1>1. /\ UNCHANGED <<state, enabled, filled, mask, hccaReg, head, status, guestWas,
                     frameTime, eofTimer, exit, memory>>
      /\ toggles' = [toggles EXCEPT !.frt = toggles.fit]
      /\ number' = (number + 1) % FrameModulo
      /\ held' = ("WD" \in status)
  BY DEF UpdateFrame, timing
<1>2. /\ toggles' \in [fit : BOOLEAN, frt : BOOLEAN]
      /\ number' \in 0 .. FrameModulo - 1
  <2>1. toggles' \in [fit : BOOLEAN, frt : BOOLEAN]
    BY <1>1 DEF RegisterTypes
  <2>2. number + 1 \in Nat
    BY Numbers DEF RegisterTypes
  <2>3. (number + 1) % FrameModulo \in 0 .. FrameModulo - 1
    BY <2>2, Modulo, Numbers
  <2> QED
    BY <1>1, <2>1, <2>3, Zenon
<1>3. held' \in BOOLEAN
  BY <1>1, SMT
<1>4. ASSUME doneHead' \in 0 .. NumTDs, doneCount' \in 0 .. 7
      PROVE  RegisterTypes'
  BY <1>1, <1>2, <1>4, Zenon DEF RegisterTypes
<1>5. "wd" \in Places /\ "sof" \in Places
  BY DEF Places, FramePlaces
<1>6. CASE WritesDone
  <2> DEFINE v == [w EXCEPT !.frame = number', !.done = doneHead,
                            !.more = (mask \cap status # {}), !.was = status]
  <2>1. /\ worker' = [worker EXCEPT ![t] = v] /\ Goto(t, "wd")
        /\ doneHead' = 0 /\ doneCount' = 7 /\ age' = [x \in TDs |-> -1]
    BY <1>6 DEF UpdateFrame, WorkerTypes, Workers
  <2>2. v \in Workers
    BY <1>0, <1>2 DEF Workers, RegisterTypes
  <2> HIDE DEF v
  <2>3. WorkerTypes' /\ thread' \in [Timers -> Places]
    BY <1>5, <2>1, <2>2, GotoTypes, WorkerSet
  <2>4. age' \in [TDs -> -1 .. 8]
    BY <2>1
  <2>5. doneHead' \in 0 .. NumTDs /\ doneCount' \in 0 .. 7
    BY <2>1, Numbers
  <2> QED
    BY <1>1, <1>3, <1>4, <2>3, <2>4, <2>5, KeptTypes DEF ThreadTypes, RecordTypes
<1>7. CASE ~WritesDone
  <2> DEFINE v == [w EXCEPT !.frame = number']
  <2>1. /\ worker' = [worker EXCEPT ![t] = v] /\ Goto(t, "sof")
        /\ doneHead' = doneHead /\ doneCount' = CountDown
        /\ age' = [x \in TDs |-> IF age[x] \in 0 .. 7 THEN age[x] + 1 ELSE age[x]]
    BY <1>7 DEF UpdateFrame
  <2>2. v \in Workers
    BY <1>0, <1>2 DEF Workers
  <2> HIDE DEF v
  <2>3. WorkerTypes' /\ thread' \in [Timers -> Places]
    BY <1>5, <2>1, <2>2, GotoTypes, WorkerSet
  <2>4. age' \in [TDs -> -1 .. 8]
    BY <2>1 DEF RecordTypes
  <2>5. doneHead' \in 0 .. NumTDs /\ doneCount' \in 0 .. 7
    BY <2>1 DEF RegisterTypes, CountDown
  <2> QED
    BY <1>1, <1>3, <1>4, <2>3, <2>4, <2>5, KeptTypes DEF ThreadTypes, RecordTypes
<1> QED
  BY <1>6, <1>7

\* What ServiceEDlist does with one TD: it retires it, or leaves the done queue
\* alone; it stays with the endpoint or goes on to write it back.
LEMMA ServiceStep ==
  ASSUME TypeOK, NEW t \in Timers, ServiceEndpoint(t)
  PROVE  /\ thread[t] = "td"
         /\ UNCHANGED <<registers, number, frameTime, guestWas, ed, hcca, held>>
         /\ \/ \E x \in TDs : \E count \in {Delayed(x), 0} : Retire(t, x, count)
            \/ UNCHANGED <<td, doneHead, doneCount, age, worker>>
            \/ /\ UNCHANGED <<td, doneHead, doneCount, age>>
               /\ worker' = [worker EXCEPT ![t].active = TRUE]
         /\ \/ UNCHANGED <<status, timing>> /\ (UNCHANGED thread \/ Goto(t, "write ed"))
            \/ FatalError /\ UNCHANGED thread
<1> DEFINE x == worker[t].ed.head
<1>1. x # 0 => x \in TDs
  <2>1. worker[t] \in Workers
    BY DEF TypeOK, WorkerTypes
  <2>2. x \in 0 .. NumTDs
    BY <2>1 DEF Workers
  <2> QED
    BY <2>2, Numbers DEF TDs
<1>2. thread[t] = "td" /\ UNCHANGED <<registers, number, frameTime, guestWas, ed, hcca, held>>
  BY DEF ServiceEndpoint
<1> DEFINE Ends == \/ \E y \in TDs : \E count \in {Delayed(y), 0} : Retire(t, y, count)
                   \/ UNCHANGED <<td, doneHead, doneCount, age, worker>>
                   \/ /\ UNCHANGED <<td, doneHead, doneCount, age>>
                      /\ worker' = [worker EXCEPT ![t].active = TRUE]
           Moved == \/ /\ UNCHANGED <<status, timing>>
                       /\ UNCHANGED thread \/ Goto(t, "write ed")
                    \/ FatalError /\ UNCHANGED thread
<1>3. Postpone(t) => Ends /\ Moved
  BY DEF Postpone
<1>4. ASSUME x # 0, NEW count \in {Delayed(x), 0}, Retire(t, x, count),
             UNCHANGED <<status, timing>>, UNCHANGED thread \/ Goto(t, "write ed")
      PROVE  Ends /\ Moved
  <2>1. Ends
    BY <1>1, <1>4, Zenon
  <2>2. Moved
    BY <1>4, Zenon
  <2> QED
    BY <2>1, <2>2
<1>5. ASSUME x = ed[worker[t].current].tail
      PROVE  Ends /\ Moved
  BY <1>5 DEF ServiceEndpoint
<1>6. ASSUME x # ed[worker[t].current].tail /\ Unreadable(x)
      PROVE  Ends /\ Moved
  <2>1. /\ FatalError /\ worker' = [worker EXCEPT ![t].active = TRUE]
        /\ UNCHANGED <<thread, td, doneHead, doneCount, age>>
    BY <1>6 DEF ServiceEndpoint
  <2>2. Ends /\ Moved
    BY <2>1, Zenon
  <2> QED
    BY <2>2
<1>7. ASSUME x # ed[worker[t].current].tail /\ ~Unreadable(x)
      PROVE  Ends /\ Moved
  <2>1. x # 0
    BY <1>7 DEF Unreadable
  <2>2. ServiceTD(t, x) \/ ServiceIsoTD(t, x)
    BY <1>7 DEF ServiceEndpoint
  <2> HIDE DEF Ends, Moved, x
  <2>3. CASE ServiceTD(t, x)
    BY <1>3, <1>4, <2>1, <2>3, Zenon DEF ServiceTD
  <2>4. CASE ServiceIsoTD(t, x)
    BY <1>3, <1>4, <2>1, <2>4, Zenon DEF ServiceIsoTD
  <2> QED
    BY <2>2, <2>3, <2>4
<1>8. Ends /\ Moved
  BY <1>5, <1>6, <1>7, Zenon
<1> HIDE DEF Ends, Moved
<1> QED
  BY <1>2, <1>8, Zenon DEF Ends, Moved

LEMMA ServiceTypes ==
  ASSUME TypeOK, NEW t \in Timers, ServiceEndpoint(t)
  PROVE  TypeOK'
<1> USE DEF TypeOK
<1> DEFINE w == worker[t]
<1>1. w \in Workers /\ w.list \in Lists /\ w.current # 0 /\ thread[t] = "td"
  BY ServiceStep DEF WorkerTypes
<1>2. UNCHANGED <<registers, number, frameTime, guestWas, ed, hcca, held>>
  BY ServiceStep
<1>3. /\ doneHead' \in 0 .. NumTDs /\ doneCount' \in 0 .. 7 /\ RecordTypes' /\ MemoryTypes'
      /\ \E v \in Workers : /\ worker' = [worker EXCEPT ![t] = v]
                            /\ v.list = w.list /\ v.current = w.current
  <2>1. CASE \E x \in TDs : \E count \in {Delayed(x), 0} : Retire(t, x, count)
    <3>0. PICK x \in TDs : \E count \in {Delayed(x), 0} : Retire(t, x, count)
      BY <2>1
    <3>1. PICK count \in {Delayed(x), 0} : Retire(t, x, count)
      BY <3>0
    <3>2. /\ td[x] \in [next : 0 .. NumTDs, delay : 0 .. 7, start : Starts]
          /\ doneHead \in 0 .. NumTDs /\ doneCount \in 0 .. 7
      BY DEF MemoryTypes, RegisterTypes
    <3>3. count \in 0 .. 7
      BY <3>2 DEF Delayed, Minimum
    <3>4. doneHead' \in 0 .. NumTDs /\ doneCount' \in 0 .. 7
      BY <3>1, <3>3, Numbers DEF Retire, TDs
    <3>5. age' \in [TDs -> -1 .. 8]
      BY <3>1 DEF Retire, RecordTypes
    <3>6. td' \in [TDs -> [next : 0 .. NumTDs, delay : 0 .. 7, start : Starts]]
      <4>1. td' = [td EXCEPT ![x] = [td[x] EXCEPT !.next = doneHead]]
        BY <3>1 DEF Retire
      <4>2. [td[x] EXCEPT !.next = doneHead] \in [next : 0 .. NumTDs, delay : 0 .. 7, start : Starts]
        BY <3>2
      <4> QED
        BY <4>1, <4>2, Zenon DEF MemoryTypes
    <3>7. RecordTypes' /\ MemoryTypes'
      BY <1>2, <3>5, <3>6, Zenon DEF RecordTypes, MemoryTypes
    <3> DEFINE v == [w EXCEPT !.ed.head = td[x].next, !.active = TRUE]
    <3>8. worker' = [worker EXCEPT ![t] = v]
      BY <3>1 DEF Retire, WorkerTypes, Workers
    <3>9. v \in Workers /\ v.list = w.list /\ v.current = w.current
      BY <1>1, <3>2 DEF Workers
    <3> HIDE DEF v
    <3> QED
      BY <3>4, <3>7, <3>8, <3>9
  <2>2. CASE UNCHANGED <<td, doneHead, doneCount, age, worker>>
    <3>1. RecordTypes' /\ MemoryTypes'
      BY <1>2, <2>2, Zenon DEF RecordTypes, MemoryTypes
    <3>2. worker' = [worker EXCEPT ![t] = w]
      BY <2>2 DEF WorkerTypes
    <3> QED
      BY <1>1, <2>2, <3>1, <3>2 DEF RegisterTypes
  <2>3. CASE /\ UNCHANGED <<td, doneHead, doneCount, age>>
             /\ worker' = [worker EXCEPT ![t].active = TRUE]
    <3>1. RecordTypes' /\ MemoryTypes'
      BY <1>2, <2>3, Zenon DEF RecordTypes, MemoryTypes
    <3> DEFINE v == [w EXCEPT !.active = TRUE]
    <3>2. v \in Workers /\ v.list = w.list /\ v.current = w.current
      BY <1>1 DEF Workers
    <3>3. worker' = [worker EXCEPT ![t] = v]
      BY <2>3
    <3> HIDE DEF v
    <3> QED
      BY <2>3, <3>1, <3>2, <3>3 DEF RegisterTypes
  <2> QED
    BY <2>1, <2>2, <2>3, ServiceStep
<1>4. PICK v \in Workers : /\ worker' = [worker EXCEPT ![t] = v]
                           /\ v.list = w.list /\ v.current = w.current
  BY <1>3
<1>5. WorkerTypes' /\ thread' \in [Timers -> Places]
  <2>1. Goto(t, "td") \/ Goto(t, "write ed")
    <3>1. UNCHANGED thread => Goto(t, "td")
      BY <1>1 DEF Goto, ThreadTypes
    <3> QED
      BY <3>1, ServiceStep
  <2>2. "td" \in Places /\ "write ed" \in Places
    BY DEF Places, FramePlaces
  <2> QED
    BY <1>1, <1>4, <2>1, <2>2, GotoTypes, WorkerSet
<1>6. /\ status' \subseteq Events /\ eofTimer' \in 0 .. MaxTimers
      /\ exit' \in [Timers -> BOOLEAN]
  <2>1. CASE UNCHANGED <<status, timing>>
    BY <2>1 DEF RegisterTypes, ThreadTypes, timing
  <2>2. CASE FatalError
    BY <2>2, StopTypes DEF RegisterTypes, FatalError, Events
  <2> QED
    BY <2>1, <2>2, ServiceStep
<1>7. RegisterTypes'
  BY <1>2, <1>3, <1>6, Zenon DEF RegisterTypes, registers
<1>8. ThreadTypes'
  BY <1>2, <1>5, <1>6, Zenon DEF ThreadTypes
<1> QED
  BY <1>3, <1>5, <1>7, <1>8

\* The guest's register writes.
LEMMA StartTypes ==
  ASSUME ThreadTypes, WorkerTypes, BusStart, UNCHANGED <<worker, frameTime>>
  PROVE  ThreadTypes' /\ WorkerTypes'
<1>1. PICK t \in Timers : /\ thread' = [thread EXCEPT ![t] = "wait"]
                          /\ eofTimer' = t /\ UNCHANGED exit
  BY DEF BusStart
<1>2. Goto(t, "wait") /\ "wait" \in Places
  BY <1>1 DEF Goto, Places
<1>3. eofTimer' \in 0 .. MaxTimers
  BY <1>1, Numbers DEF Timers
<1> QED
  BY <1>1, <1>2, <1>3, GotoTypes, WorkerKept DEF ThreadTypes

LEMMA ResetTypes ==
  ASSUME TypeOK, StateReset, UNCHANGED <<worker, frameTime, guestWas>>
  PROVE  RegisterTypes' /\ ThreadTypes' /\ WorkerTypes' /\ age' \in [TDs -> -1 .. 8]
<1> USE DEF TypeOK
<1>1. /\ BusStop /\ state' = "reset" /\ enabled' = {} /\ filled' = {} /\ status' = {}
      /\ mask' = {} /\ hccaReg' = FALSE /\ doneHead' = 0 /\ number' = 0 /\ doneCount' = 7
      /\ UNCHANGED <<thread, worker, frameTime, guestWas>>
  BY DEF StateReset
<1>2. /\ head' = [head EXCEPT !["control"] = 0, !["bulk"] = 0]
      /\ toggles' = [fit |-> FALSE, frt |-> FALSE] /\ age' = [x \in TDs |-> -1]
  BY DEF StateReset
<1>3. /\ head' \in [Lists -> 0 .. NumEDs] /\ toggles' \in [fit : BOOLEAN, frt : BOOLEAN]
      /\ age' \in [TDs -> -1 .. 8]
  <2>1. head' \in [Lists -> 0 .. NumEDs]
    <3>1. head \in [Lists -> 0 .. NumEDs] /\ 0 \in 0 .. NumEDs
      BY Numbers DEF RegisterTypes
    <3> QED
      BY <1>2, <3>1, Zenon
  <2>2. toggles' \in [fit : BOOLEAN, frt : BOOLEAN]
    BY <1>2
  <2>3. age' \in [TDs -> -1 .. 8]
    BY <1>2
  <2> QED
    BY <2>1, <2>2, <2>3
<1>4. doneHead' \in 0 .. NumTDs /\ doneCount' \in 0 .. 7 /\ number' \in 0 .. FrameModulo - 1
  BY <1>1, Numbers
<1>5. state' \in States
  BY <1>1 DEF States
<1>6. hccaReg' \in BOOLEAN
  BY <1>1, Zenon
<1>7. /\ enabled' \subseteq Lists /\ filled' \subseteq Lists /\ status' \subseteq Events
      /\ mask' \subseteq Events /\ guestWas' \in (SUBSET Events) \cup {None}
  BY <1>1, Zenon DEF RegisterTypes
<1>8. RegisterTypes'
  BY <1>3, <1>4, <1>5, <1>6, <1>7, Zenon DEF RegisterTypes
<1>9. ThreadTypes' /\ WorkerTypes'
  BY <1>1, StopTypes DEF ThreadTypes, WorkerTypes
<1> QED
  BY <1>3, <1>8, <1>9

LEMMA WriteTypes ==
  ASSUME TypeOK, Write
  PROVE  TypeOK'
<1> USE DEF TypeOK
<1>1. UNCHANGED <<frameTime, worker, guestWas, memory, held>>
  BY DEF Write
<1>2. MemoryTypes'
  BY <1>1, KeptTypes
<1>3. /\ RegisterTypes' /\ ThreadTypes' /\ WorkerTypes' /\ age' \in [TDs -> -1 .. 8]
  <2>1. CASE StateReset
    BY <1>1, <2>1, ResetTypes
  <2>2. CASE WriteControl /\ ~StateReset
    <3>1. PICK s \in States, e \in Enables :
            /\ state' = s /\ enabled' = e
            /\ CASE s = "operational" /\ s # state -> BusStart
                 [] s = "suspend" /\ s # state -> BusStop /\ UNCHANGED <<thread, status>>
                 [] OTHER -> UNCHANGED <<thread, status, timing>>
            /\ UNCHANGED <<filled, mask, hccaReg, head, doneHead, number, toggles,
                           doneCount, age>>
      BY <2>2 DEF WriteControl
    <3>2. \/ BusStart
          \/ BusStop /\ UNCHANGED <<thread, status>>
          \/ UNCHANGED <<thread, status, timing>>
      BY <3>1
    <3>3. e \subseteq Lists
      BY OhciAssumption
    <3>4. status' \subseteq Events
      <4>1. CASE BusStart
        BY <4>1 DEF BusStart, RegisterTypes, Events
      <4> QED
        BY <3>2, <4>1 DEF RegisterTypes
    <3>5. RegisterTypes'
      BY <1>1, <3>1, <3>3, <3>4, Zenon DEF RegisterTypes
    <3>6. ThreadTypes' /\ WorkerTypes'
      <4>1. CASE BusStart
        BY <1>1, <4>1, StartTypes
      <4>2. CASE BusStop /\ UNCHANGED <<thread, status>>
        BY <1>1, <4>2, StopTypes DEF ThreadTypes, WorkerTypes
      <4>3. CASE UNCHANGED <<thread, status, timing>>
        BY <1>1, <4>3, Zenon DEF ThreadTypes, WorkerTypes, timing
      <4> QED
        BY <3>2, <4>1, <4>2, <4>3
    <3> QED
      BY <3>1, <3>5, <3>6 DEF RecordTypes
  <2>3. CASE WriteCommand /\ ~StateReset
    <3>1. PICK f \in (SUBSET {"control", "bulk"}) \ {{}} : filled' = filled \cup f
      BY <2>3 DEF WriteCommand
    <3>2. UNCHANGED <<state, enabled, mask, hccaReg, head, toggles, status, doneHead,
                      number, doneCount, timing, thread, age>>
      BY <2>3 DEF WriteCommand
    <3>3. filled' \subseteq Lists
      BY <3>1 DEF RegisterTypes, Lists
    <3>4. RegisterTypes'
      BY <1>1, <3>2, <3>3, Zenon DEF RegisterTypes
    <3>5. ThreadTypes' /\ WorkerTypes'
      BY <1>1, <3>2, Zenon DEF ThreadTypes, WorkerTypes, timing
    <3> QED
      BY <3>2, <3>4, <3>5 DEF RecordTypes
  <2>4. CASE WriteRegisters
    <3>1. PICK s \in Setups : hccaReg' = s.hccaReg /\ head' = s.head /\ mask' = s.mask
      BY <2>4 DEF WriteRegisters
    <3>2. s \in [hccaReg : BOOLEAN, head : [Lists -> 0 .. NumEDs], mask : SUBSET Events]
      BY OhciAssumption
    <3>3. /\ toggles' = [toggles EXCEPT !.fit = ~@]
          /\ UNCHANGED <<state, enabled, filled, status, doneHead, number, doneCount, timing,
                         thread, age>>
      BY <2>4 DEF WriteRegisters
    <3>4. toggles' \in [fit : BOOLEAN, frt : BOOLEAN]
      BY <3>3 DEF RegisterTypes
    <3>5. hccaReg' \in BOOLEAN /\ head' \in [Lists -> 0 .. NumEDs] /\ mask' \subseteq Events
      BY <3>1, <3>2
    <3>6. RegisterTypes'
      BY <1>1, <3>3, <3>4, <3>5, Zenon DEF RegisterTypes
    <3>7. ThreadTypes' /\ WorkerTypes'
      BY <1>1, <3>3, Zenon DEF ThreadTypes, WorkerTypes, timing
    <3> QED
      BY <3>3, <3>6, <3>7 DEF RecordTypes
  <2> QED
    BY <2>1, <2>2, <2>3, <2>4 DEF Write
<1>4. RecordTypes'
  BY <1>1, <1>3, Zenon DEF RecordTypes
<1> QED
  BY <1>2, <1>3, <1>4

LEMMA GuestTypes ==
  ASSUME TypeOK, Guest
  PROVE  TypeOK'
<1> USE DEF TypeOK
<1>1. CASE Write
  BY <1>1, WriteTypes
<1>2. CASE LoadStatus
  <2>1. /\ UNCHANGED <<registers, status, doneHead, number, doneCount, frameTime, timing,
                       thread, worker, memory, record>>
        /\ guestWas' = status
    BY <1>2 DEF LoadStatus
  <2>2. RegisterTypes'
    BY <2>1, Zenon DEF RegisterTypes, registers
  <2>3. ThreadTypes' /\ WorkerTypes'
    BY <2>1, Zenon DEF ThreadTypes, WorkerTypes, timing
  <2> QED
    BY <2>1, <2>2, <2>3, KeptTypes
<1>3. CASE StoreStatus
  <2>1. /\ UNCHANGED <<registers, doneHead, number, doneCount, frameTime, timing,
                       thread, worker, memory, record>>
        /\ guestWas # None /\ guestWas' = None /\ \E m \in Masks : status' = guestWas \ m
    BY <1>3 DEF StoreStatus
  <2>2. status' \subseteq Events
    BY <2>1, Zenon DEF RegisterTypes
  <2>3. RegisterTypes'
    BY <2>1, <2>2, Zenon DEF RegisterTypes, registers
  <2>4. ThreadTypes' /\ WorkerTypes'
    BY <2>1, Zenon DEF ThreadTypes, WorkerTypes, timing
  <2> QED
    BY <2>1, <2>3, <2>4, KeptTypes
<1>4. CASE ReadRemaining
  <2>1. UNCHANGED <<registers, status, doneHead, number, doneCount, frameTime, timing,
                    thread, worker, guestWas, memory, record>>
    BY <1>4 DEF ReadRemaining
  <2>2. ThreadTypes' /\ WorkerTypes'
    BY <2>1, Zenon DEF ThreadTypes, WorkerTypes, timing
  <2> QED
    BY <2>1, <2>2, KeptTypes
<1>5. CASE Enqueue
  <2>1. /\ UNCHANGED <<registers, status, doneHead, number, doneCount, frameTime, timing,
                       thread, worker, guestWas, td, hcca, record>>
        /\ \E e \in EDs : ed[e].tail < NumTDs /\ ed' = [ed EXCEPT ![e].tail = @ + 1]
    BY <1>5 DEF Enqueue
  <2>2. PICK e \in EDs : ed[e].tail < NumTDs /\ ed' = [ed EXCEPT ![e].tail = @ + 1]
    BY <2>1
  <2>3. ThreadTypes' /\ WorkerTypes'
    BY <2>1, Zenon DEF ThreadTypes, WorkerTypes, timing
  <2>4. MemoryTypes'
    <3>1. ed' = [ed EXCEPT ![e] = [ed[e] EXCEPT !.tail = ed[e].tail + 1]]
      BY <2>2
    <3>2. [ed[e] EXCEPT !.tail = ed[e].tail + 1]
            \in [flags : [skip : BOOLEAN, iso : BOOLEAN, direction : BOOLEAN],
                head : 0 .. NumTDs, tail : 0 .. NumTDs, next : 0 .. NumEDs]
      BY <2>2, Numbers DEF MemoryTypes
    <3> QED
      BY <2>1, <3>1, <3>2, Zenon DEF MemoryTypes
  <2> QED
    BY <2>1, <2>3, <2>4, KeptTypes
<1> QED
  BY <1>1, <1>2, <1>3, <1>4, <1>5 DEF Guest

LEMMA StutterTypes == TypeOK /\ UNCHANGED vars => TypeOK'
BY KeptTypes, Zenon DEF TypeOK, ThreadTypes, WorkerTypes, vars, timing

\* Every variable keeps its type, whatever the guest writes and however often
\* timers are created: OHCI::OHCI_FrameBoundaryWorker never follows a link to
\* what is not a descriptor, and m_DoneCount stays in its three bits.
THEOREM TypeCorrect == Spec => []TypeOK
<1>1. TypeOK /\ [Next]_vars => TypeOK'
  <2> SUFFICES ASSUME TypeOK, [Next]_vars PROVE TypeOK'
    OBVIOUS
  <2>1. ASSUME NEW t \in Timers, Frame(t) PROVE TypeOK'
    BY <2>1, TimerTypes, ListTypes, ServiceTypes, BoundaryTypes, UpdateTypes DEF Frame
  <2> QED
    BY <2>1, GuestTypes, StutterTypes DEF Next
<1> QED
  BY InitTypes, <1>1, PTL DEF Spec
-----------------------------------------------------------------------------
LEMMA QueueKept == QueueInv /\ UNCHANGED <<td, doneCount, record>> => QueueInv'
BY SMT DEF QueueInv, record

\* A retired TD starts with its delay, or with less.
LEMMA RetireInv ==
  ASSUME TypeOK, QueueInv, NEW t \in Timers, ServiceEndpoint(t)
  PROVE  QueueInv'
<1>1. CASE UNCHANGED <<td, doneHead, doneCount, age>>
  BY <1>1, ServiceStep, QueueKept DEF record
<1>2. CASE \E x \in TDs : \E count \in {Delayed(x), 0} : Retire(t, x, count)
  <2>1. PICK x \in TDs : \E count \in {Delayed(x), 0} : Retire(t, x, count)
    BY <1>2
  <2>2. /\ doneCount' \in {Delayed(x), 0} /\ age' = [age EXCEPT ![x] = 0] /\ held' = held
        /\ td' = [td EXCEPT ![x].next = doneHead]
    BY <2>1, ServiceStep DEF Retire
  <2>3. /\ doneCount \in 0 .. 7 /\ age \in [TDs -> -1 .. 8]
        /\ \A y \in TDs : td[y].delay \in 0 .. 7
    BY DEF TypeOK, RegisterTypes, RecordTypes, MemoryTypes
  <2>4. doneCount' \in 0 .. 7 /\ doneCount' <= doneCount
        /\ (doneCount' # 0 => doneCount' <= td[x].delay)
    BY <2>2, <2>3 DEF Delayed, Minimum
  <2>5. \A y \in TDs : /\ td'[y].delay = td[y].delay
                       /\ age'[y] = IF y = x THEN 0 ELSE age[y]
    BY <2>2, <2>3 DEF TypeOK, MemoryTypes
  <2>6. ASSUME NEW y \in TDs, td'[y].delay < 7, age'[y] >= 0
        PROVE  \/ doneCount' > 0 /\ age'[y] + doneCount' <= td'[y].delay
               \/ doneCount' = 0 /\ (age'[y] <= td'[y].delay \/ held')
    <3>1. CASE y = x
      BY <2>3, <2>4, <2>5, <3>1
    <3>2. CASE y # x
      <4>1. td[y].delay < 7 /\ age[y] >= 0 /\ age'[y] = age[y] /\ td'[y].delay = td[y].delay
        BY <2>5, <2>6, <3>2
      <4>2. \/ doneCount > 0 /\ age[y] + doneCount <= td[y].delay
            \/ doneCount = 0 /\ (age[y] <= td[y].delay \/ held)
        BY <4>1 DEF QueueInv
      <4>3. age[y] \in Int /\ td[y].delay \in Int
        BY <2>3
      <4> QED
        BY <2>2, <2>3, <2>4, <4>1, <4>2, <4>3
    <3> QED
      BY <3>1, <3>2
  <2> QED
    BY <2>6, Zenon DEF QueueInv
<1> QED
  BY <1>1, <1>2, ServiceStep

\* A frame takes one off the delay and adds one to the age, or finds the delay
\* over and writes the queue back if the guest lets it.
LEMMA UpdateInv ==
  ASSUME TypeOK, QueueInv, NEW t \in Timers, UpdateFrame(t)
  PROVE  QueueInv'
<1>1. /\ doneCount \in 0 .. 7 /\ age \in [TDs -> -1 .. 8]
      /\ \A y \in TDs : td[y].delay \in 0 .. 7
  BY DEF TypeOK, RegisterTypes, RecordTypes, MemoryTypes
<1>2. td' = td /\ (held' <=> "WD" \in status)
  BY DEF UpdateFrame, memory
<1>3. CASE WritesDone
  <2>1. age' = [x \in TDs |-> -1]
    BY <1>3 DEF UpdateFrame
  <2>2. \A x \in TDs : ~(age'[x] >= 0)
    BY <2>1
  <2> QED
    BY <2>2, Zenon DEF QueueInv
<1>4. CASE ~WritesDone
  <2>1. /\ doneCount' = CountDown
        /\ age' = [x \in TDs |-> IF age[x] \in 0 .. 7 THEN age[x] + 1 ELSE age[x]]
    BY <1>4 DEF UpdateFrame
  <2>2. doneCount = 0 => held'
    BY <1>2, <1>4 DEF WritesDone
  <2>3. ASSUME NEW y \in TDs, td'[y].delay < 7, age'[y] >= 0
        PROVE  \/ doneCount' > 0 /\ age'[y] + doneCount' <= td'[y].delay
               \/ doneCount' = 0 /\ (age'[y] <= td'[y].delay \/ held')
    <3>1. td'[y] = td[y] /\ td[y].delay \in 0 .. 6 /\ age[y] \in 0 .. 8
      BY <1>1, <1>2, <2>1, <2>3
    <3>2. CASE doneCount = 0
      BY <2>1, <2>2, <3>2 DEF CountDown
    <3>3. CASE doneCount # 0
      <4>1. age[y] + doneCount <= td[y].delay
        BY <3>1, <3>3 DEF QueueInv
      <4>2. doneCount \in 1 .. 6 /\ age[y] \in 0 .. 7
        BY <1>1, <3>1, <3>3, <4>1
      <4>3. doneCount' = doneCount - 1 /\ age'[y] = age[y] + 1
        BY <2>1, <4>2 DEF CountDown
      <4> QED
        BY <3>1, <4>1, <4>2, <4>3
    <3> QED
      BY <3>2, <3>3
  <2> QED
    BY <2>3, Zenon DEF QueueInv
<1> QED
  BY <1>3, <1>4

LEMMA QueueStep == TypeOK /\ QueueInv /\ [Next]_vars => QueueInv'
<1> SUFFICES ASSUME TypeOK, QueueInv, [Next]_vars PROVE QueueInv'
  OBVIOUS
<1>1. ASSUME NEW t \in Timers, Frame(t) PROVE QueueInv'
  <2>1. CASE ServiceEndpoint(t) \/ UpdateFrame(t)
    BY <2>1, RetireInv, UpdateInv
  <2>2. CASE Expire(t) \/ TestFrameTime(t) \/ TakeFrameTime(t) \/ Return(t)
    BY <2>2, QueueKept DEF Expire, TestFrameTime, TakeFrameTime, Return, memory
  <2>3. CASE StartList(t) \/ LoadED(t) \/ WriteED(t) \/ EndList(t)
    BY <2>3, QueueKept DEF StartList, LoadED, WriteED, EndList, memory
  <2>4. CASE ReadHCCA(t) \/ CheckError(t) \/ StoreWD(t)
    BY <2>4, QueueKept DEF ReadHCCA, CheckError, StoreWD, memory
  <2>5. CASE StartOfFrame(t) \/ StoreSF(t) \/ WriteHCCA(t)
    BY <2>5, QueueKept DEF StartOfFrame, StoreSF, WriteHCCA, memory
  <2> QED
    BY <1>1, <2>1, <2>2, <2>3, <2>4, <2>5 DEF Frame
<1>2. CASE Write
  <2>1. UNCHANGED <<memory, held>>
    BY <1>2 DEF Write
  <2>2. CASE UNCHANGED <<doneCount, age>>
    BY <2>1, <2>2, QueueKept DEF record, memory
  <2>3. CASE StateReset
    <3>1. age' = [x \in TDs |-> -1]
      BY <2>3 DEF StateReset
    <3>2. \A x \in TDs : ~(age'[x] >= 0)
      BY <3>1
    <3> QED
      BY <3>2, Zenon DEF QueueInv
  <2> QED
    BY <1>2, <2>2, <2>3 DEF Write, WriteControl, WriteCommand, WriteRegisters
<1>3. CASE LoadStatus \/ StoreStatus \/ ReadRemaining \/ Enqueue
  BY <1>3, QueueKept DEF LoadStatus, StoreStatus, ReadRemaining, Enqueue, memory
<1>4. CASE UNCHANGED vars
  BY <1>4, QueueKept DEF vars, memory
<1> QED
  BY <1>1, <1>2, <1>3, <1>4 DEF Next, Guest

LEMMA QueueImplies == TypeOK /\ QueueInv => WritebackInTime
<1> SUFFICES ASSUME TypeOK, QueueInv, NEW x \in TDs, td[x].delay < 7, age[x] > td[x].delay
             PROVE  held
  BY DEF WritebackInTime
<1>1. age[x] \in Int /\ td[x].delay \in 0 .. 7 /\ doneCount \in 0 .. 7
  BY DEF TypeOK, RegisterTypes, RecordTypes, MemoryTypes
<1>2. age[x] >= 0
  BY <1>1
<1>3. \/ doneCount > 0 /\ age[x] + doneCount <= td[x].delay
      \/ doneCount = 0 /\ (age[x] <= td[x].delay \/ held)
  BY <1>2 DEF QueueInv
<1> QED
  BY <1>1, <1>3

\* A finished TD is handed to the guest no later than its DelayInterrupt says,
\* unless the guest has left the interrupt before unacknowledged: the minimum in
\* ServiceTD and the countdown of OHCI_FrameBoundaryWorker keep m_DoneCount
\* below what any TD in the queue has left.
THEOREM DoneQueueInTime == Spec => []WritebackInTime
<1>1. Init => QueueInv
  <2> SUFFICES ASSUME Init, NEW x \in TDs, age[x] >= 0 PROVE FALSE
    BY Zenon DEF QueueInv
  <2>1. age = [y \in TDs |-> -1]
    BY DEF Init
  <2> QED
    BY <2>1
<1> QED
  BY <1>1, TypeCorrect, QueueStep, QueueImplies, PTL DEF Spec
-----------------------------------------------------------------------------
LEMMA InFramePlaces == TypeOK => \A t \in Timers : InFrame(t) <=> thread[t] \in FramePlaces
BY DEF TypeOK, ThreadTypes, Places, FramePlaces, InFrame

\* What a step of a timer's thread does to the threads, the flag and the timers.
FrameMove(t) ==
    \/ thread[t] = "wait" /\ thread'[t] = "dead" /\ UNCHANGED frameTime
    \/ /\ thread[t] = "wait" /\ ~exit[t] /\ thread'[t] = "spin" /\ UNCHANGED frameTime
       /\ \A o \in 1 .. t - 1 : thread[o] \notin {"spin", "take"}
    \/ thread[t] = "spin" /\ ~frameTime /\ thread'[t] = "take" /\ UNCHANGED frameTime
    \/ thread[t] = "take" /\ thread'[t] = "read" /\ frameTime'
    \/ thread[t] \in FramePlaces /\ thread'[t] \in FramePlaces /\ UNCHANGED frameTime
    \/ thread[t] \in FramePlaces /\ thread'[t] = "after" /\ ~frameTime'
    \/ thread[t] = "after" /\ thread'[t] \in {"wait", "dead"} /\ UNCHANGED frameTime

LEMMA FrameStep ==
  ASSUME TypeOK, NEW t \in Timers, Frame(t)
  PROVE  /\ FrameMove(t) /\ UNCHANGED state
         /\ \A u \in Timers \ {t} : thread'[u] = thread[u]
         /\ UNCHANGED timing \/ BusStop
<1>1. ThreadTypes /\ WorkerTypes
  BY DEF TypeOK
<1>2. \A pc : Goto(t, pc) => /\ thread'[t] = pc
                            /\ \A u \in Timers \ {t} : thread'[u] = thread[u]
  BY <1>1 DEF ThreadTypes, Goto
<1>3. CASE Expire(t)
  <2>1. UNCHANGED <<timing, state, frameTime>>
    BY <1>3 DEF Expire, registers
  <2>2. CASE exit[t]
    BY <1>2, <1>3, <2>1, <2>2 DEF Expire, FrameMove
  <2>3. CASE ~exit[t]
    BY <1>2, <1>3, <2>1, <2>3 DEF Expire, FrameMove
  <2> QED
    BY <2>2, <2>3
<1>4. CASE TestFrameTime(t)
  BY <1>2, <1>4 DEF TestFrameTime, FrameMove, registers
<1>5. CASE TakeFrameTime(t)
  BY <1>2, <1>5 DEF TakeFrameTime, FrameMove, registers
<1>6. CASE Return(t)
  <2>1. PICK pc \in {"dead", "wait"} : Goto(t, pc)
    BY <1>6 DEF Return
  <2> QED
    BY <1>2, <1>6, <2>1 DEF Return, FrameMove, registers
<1>7. CASE StartList(t)
  <2>1. PICK l \in Lists : thread[t] = l /\ (Goto(t, "ed") \/ Goto(t, After(l)))
    BY <1>7 DEF StartList
  <2>2. l \in FramePlaces /\ After(l) \in FramePlaces /\ "ed" \in FramePlaces
    BY DEF Lists, After, FramePlaces
  <2>3. UNCHANGED <<timing, state, frameTime>>
    BY <1>7 DEF StartList, registers
  <2> QED
    BY <1>2, <2>1, <2>2, <2>3 DEF FrameMove
<1>8. CASE LoadED(t)
  <2>1. thread[t] = "ed" /\ (UNCHANGED thread \/ Goto(t, "td"))
    BY <1>8 DEF LoadED
  <2>2. UNCHANGED <<timing, state, frameTime>>
    BY <1>8 DEF LoadED, registers
  <2> QED
    BY <1>2, <2>1, <2>2 DEF FrameMove, FramePlaces
<1>9. CASE EndList(t)
  <2>1. thread[t] = "ed" /\ Goto(t, After(worker[t].list)) /\ worker[t].list \in Lists
    BY <1>1, <1>9 DEF EndList, WorkerTypes
  <2>2. After(worker[t].list) \in FramePlaces /\ "ed" \in FramePlaces
    BY <2>1 DEF Lists, After, FramePlaces
  <2>3. UNCHANGED <<timing, state, frameTime>>
    BY <1>9 DEF EndList
  <2> QED
    BY <1>2, <2>1, <2>2, <2>3 DEF FrameMove
<1>10. CASE ServiceEndpoint(t)
  <2>1. thread[t] = "td" /\ (UNCHANGED thread \/ Goto(t, "write ed"))
    BY <1>10, ServiceStep
  <2>2. UNCHANGED <<state, frameTime>> /\ (UNCHANGED timing \/ BusStop)
    BY <1>10, ServiceStep DEF registers, FatalError
  <2> QED
    BY <1>2, <2>1, <2>2 DEF FrameMove, FramePlaces
<1>11. CASE WriteED(t)
  BY <1>2, <1>11 DEF WriteED, FrameMove, FramePlaces, registers
<1>12. CASE ReadHCCA(t)
  <2>1. thread[t] = "read" /\ UNCHANGED state
    BY <1>12 DEF ReadHCCA, registers
  <2>2. \/ Goto(t, "periodic") /\ UNCHANGED <<timing, frameTime>>
        \/ Goto(t, "after") /\ frameTime' = FALSE /\ BusStop
    BY <1>12 DEF ReadHCCA, FatalError
  <2> QED
    BY <1>2, <2>1, <2>2 DEF FrameMove, FramePlaces
<1>13. CASE CheckError(t)
  <2>1. thread[t] = "check" /\ UNCHANGED <<state, timing>>
    BY <1>13 DEF CheckError, registers
  <2>2. \/ Goto(t, "update") /\ UNCHANGED frameTime
        \/ Goto(t, "after") /\ frameTime' = FALSE
    BY <1>13 DEF CheckError
  <2> QED
    BY <1>2, <2>1, <2>2 DEF FrameMove, FramePlaces
<1>14. CASE UpdateFrame(t)
  <2>1. thread[t] = "update" /\ UNCHANGED <<state, timing, frameTime>>
    BY <1>14 DEF UpdateFrame
  <2>2. Goto(t, "wd") \/ Goto(t, "sof")
    BY <1>14 DEF UpdateFrame
  <2> QED
    BY <1>2, <2>1, <2>2 DEF FrameMove, FramePlaces
<1>15. CASE StoreWD(t)
  BY <1>2, <1>15 DEF StoreWD, FrameMove, FramePlaces, registers
<1>16. CASE StartOfFrame(t)
  <2>1. thread[t] = "sof" /\ UNCHANGED <<state, timing, frameTime>>
    BY <1>16 DEF StartOfFrame, registers
  <2>2. UNCHANGED thread \/ Goto(t, "sf")
    BY <1>16 DEF StartOfFrame
  <2> QED
    BY <1>2, <2>1, <2>2 DEF FrameMove, FramePlaces
<1>17. CASE StoreSF(t)
  BY <1>2, <1>17 DEF StoreSF, FrameMove, FramePlaces, registers
<1>18. CASE WriteHCCA(t)
  <2>1. thread[t] = "write" /\ UNCHANGED state /\ frameTime' = FALSE /\ Goto(t, "after")
    BY <1>18 DEF WriteHCCA, registers
  <2>2. UNCHANGED timing \/ BusStop
    BY <1>18 DEF WriteHCCA, FatalError
  <2> QED
    BY <1>2, <2>1, <2>2 DEF FrameMove, FramePlaces
<1> QED
  BY <1>3, <1>4, <1>5, <1>6, <1>7, <1>8, <1>9, <1>10, <1>11, <1>12, <1>13, <1>14,
     <1>15, <1>16, <1>17, <1>18 DEF Frame

LEMMA FrameSerial ==
  ASSUME TypeOK, SerialInv, NEW t \in Timers, Frame(t)
  PROVE  SerialInv'
<1> USE FrameStep
<1>1. /\ exit \in [Timers -> BOOLEAN] /\ eofTimer \in 0 .. MaxTimers
      /\ Timers \subseteq Int
  BY DEF TypeOK, ThreadTypes, Timers
<1>2. \A u \in Timers : exit[u] => exit'[u]
  BY StopTypes DEF timing, TypeOK
<1>3. thread[t] # "none" /\ thread'[t] # "none"
  BY DEF FrameMove, FramePlaces
<1>4. InOrder'
  BY <1>2, <1>3 DEF SerialInv, InOrder
<1>5. BusTimer'
  <2>1. CASE UNCHANGED timing
    BY <1>3, <2>1 DEF SerialInv, BusTimer, timing
  <2>2. CASE BusStop
    <3>1. eofTimer' = 0 /\ (eofTimer # 0 => exit'[eofTimer])
      BY <2>2, StopTypes DEF BusStop, TypeOK
    <3>2. \A u \in Timers : u # 0
      BY DEF Timers
    <3>3. ASSUME NEW u \in Timers, thread'[u] # "none" PROVE exit'[u]
      BY <1>2, <1>3, <3>1, <3>2, <3>3 DEF SerialInv, BusTimer
    <3> QED
      BY <3>1, <3>3 DEF BusTimer
  <2> QED
    BY <2>1, <2>2
<1>6. OneContender'
  <2>1. CASE thread'[t] \notin {"spin", "take"}
    BY <2>1 DEF SerialInv, OneContender
  <2>2. CASE thread[t] \in {"spin", "take"}
    BY <2>2 DEF SerialInv, OneContender
  <2>3. CASE thread[t] \notin {"spin", "take"} /\ thread'[t] \in {"spin", "take"}
    <3>1. /\ thread[t] = "wait" /\ ~exit[t]
          /\ \A o \in 1 .. t - 1 : thread[o] \notin {"spin", "take"}
      BY <2>3 DEF FrameMove, FramePlaces
    <3>2. ASSUME NEW u \in Timers, thread[u] \in {"spin", "take"} PROVE FALSE
      <4>1. CASE u < t
        BY <3>1, <3>2, <4>1 DEF Timers
      <4>2. CASE t < u
        BY <3>1, <3>2, <4>2 DEF SerialInv, InOrder
      <4> QED
        BY <2>3, <3>2, <4>1, <4>2 DEF Timers
    <3> QED
      BY <3>2 DEF OneContender
  <2> QED
    BY <2>1, <2>2, <2>3
<1>7. /\ \A u \in Timers : InFrame(u) <=> thread[u] \in FramePlaces
      /\ \A u \in Timers : InFrame(u)' <=> thread'[u] \in FramePlaces
  <2>1. TypeOK'
    BY TimerTypes, ListTypes, ServiceTypes, BoundaryTypes, UpdateTypes DEF Frame
  <2>2. thread' \in [Timers -> Places]
    BY <2>1 DEF TypeOK, ThreadTypes
  <2>3. \A u \in Timers : InFrame(u)' <=> thread'[u] \in FramePlaces
    BY <2>2 DEF Places, FramePlaces, InFrame
  <2> QED
    BY <2>3, InFramePlaces
<1>8. FlagHeld' /\ FrameSerialised'
  <2>1. \A u \in Timers : thread[u] \in FramePlaces => frameTime
    BY <1>7, Zenon DEF SerialInv, FlagHeld
  <2>2. \A u \in Timers : thread[u] = "take" => ~frameTime
    BY Zenon DEF SerialInv, FlagHeld
  <2>3. \A u, v \in Timers : thread[u] \in FramePlaces /\ thread[v] \in FramePlaces => u = v
    BY <1>7, Zenon DEF SerialInv, FrameSerialised
  <2>4. \A u, v \in Timers : thread[u] \in {"spin", "take"} /\ thread[v] = "take" => u = v
    BY DEF SerialInv, OneContender
  <2>5. \A u \in Timers \ {t} : thread'[u] = thread[u]
    OBVIOUS
  <2>6. ~(\E p \in {"wait", "spin", "take", "after", "dead"} : p \in FramePlaces)
    BY DEF FramePlaces
  <2> DEFINE Held == /\ \A u \in Timers : thread'[u] \in FramePlaces => frameTime'
                     /\ \A u \in Timers : thread'[u] = "take" => ~frameTime'
                     /\ \A u, v \in Timers :
                          thread'[u] \in FramePlaces /\ thread'[v] \in FramePlaces => u = v
  <2>7. ASSUME UNCHANGED frameTime, thread'[t] \notin FramePlaces, thread'[t] # "take"
        PROVE  Held
    BY <2>1, <2>2, <2>3, <2>5, <2>7, Zenon
  <2>8. CASE thread[t] = "spin" /\ ~frameTime /\ thread'[t] = "take" /\ UNCHANGED frameTime
    <3>1. Held
      BY <2>1, <2>5, <2>6, <2>8, Zenon
    <3> QED
      BY <1>7, <3>1, Zenon DEF FlagHeld, FrameSerialised
  <2>9. CASE thread[t] = "take" /\ thread'[t] = "read" /\ frameTime'
    <3>1. \A u \in Timers \ {t} : thread'[u] \notin FramePlaces /\ thread'[u] # "take"
      BY <2>1, <2>2, <2>4, <2>5, <2>9
    <3>2. thread'[t] # "take"
      BY <2>9
    <3>3. Held
      BY <2>9, <3>1, <3>2, Zenon
    <3> QED
      BY <1>7, <3>3, Zenon DEF FlagHeld, FrameSerialised
  <2>10. CASE thread[t] \in FramePlaces /\ thread'[t] \in FramePlaces /\ UNCHANGED frameTime
    <3>1. thread'[t] # "take"
      BY <2>6, <2>10
    <3>2. Held
      BY <2>1, <2>2, <2>3, <2>5, <2>10, <3>1, Zenon
    <3> QED
      BY <1>7, <3>2, Zenon DEF FlagHeld, FrameSerialised
  <2>11. CASE thread[t] \in FramePlaces /\ thread'[t] = "after" /\ ~frameTime'
    <3>1. \A u \in Timers : thread'[u] \notin FramePlaces
      BY <2>3, <2>5, <2>6, <2>11, Zenon
    <3>2. Held
      BY <2>11, <3>1, Zenon
    <3> QED
      BY <1>7, <3>2, Zenon DEF FlagHeld, FrameSerialised
  <2>12. CASE UNCHANGED frameTime /\ thread'[t] \in {"wait", "spin", "dead"}
    <3>1. thread'[t] \notin FramePlaces /\ thread'[t] # "take"
      BY <2>6, <2>12
    <3>2. Held
      BY <2>7, <2>12, <3>1, Zenon
    <3> QED
      BY <1>7, <3>2, Zenon DEF FlagHeld, FrameSerialised
  <2> QED
    BY <2>8, <2>9, <2>10, <2>11, <2>12 DEF FrameMove
<1> QED
  BY <1>4, <1>5, <1>6, <1>8 DEF SerialInv

\* What the guest's writes do: a driver never resumes an operational bus.
LEMMA GuestStep ==
  ASSUME <<"operational", "resume">> \notin Transitions, TypeOK, Guest
  PROVE  /\ UNCHANGED frameTime
         /\ \/ BusStart /\ state # "operational" /\ state' = "operational"
            \/ BusStop /\ UNCHANGED thread
            \/ /\ UNCHANGED <<thread, timing>>
               /\ state' # "operational" => state # "operational"
<1>1. CASE LoadStatus \/ StoreStatus \/ ReadRemaining \/ Enqueue
  BY <1>1 DEF LoadStatus, StoreStatus, ReadRemaining, Enqueue, registers
<1>2. CASE Write
  <2>1. UNCHANGED frameTime
    BY <1>2 DEF Write
  <2>2. CASE StateReset
    BY <2>1, <2>2 DEF StateReset
  <2>3. CASE WriteControl /\ ~StateReset
    <3>1. PICK s \in States :
            /\ s = state \/ <<state, s>> \in Transitions
            /\ s # state => s # "reset"
            /\ state' = s
            /\ CASE s = "operational" /\ s # state -> BusStart
                 [] s = "suspend" /\ s # state -> BusStop /\ UNCHANGED <<thread, status>>
                 [] OTHER -> UNCHANGED <<thread, status, timing>>
      BY <2>3 DEF WriteControl
    <3>2. CASE s = "operational" /\ s # state
      BY <2>1, <3>1, <3>2
    <3>3. CASE s = "suspend" /\ s # state
      BY <2>1, <3>1, <3>3
    <3>4. CASE s = "resume" /\ s # state
      <4>1. UNCHANGED <<thread, timing>>
        BY <3>1, <3>4
      <4>2. state # "operational"
        BY <3>1, <3>4
      <4> QED
        BY <2>1, <4>1, <4>2
    <3>5. CASE s = state
      <4>1. UNCHANGED <<thread, timing, state>>
        BY <3>1, <3>5
      <4> QED
        BY <2>1, <4>1
    <3> QED
      BY <3>1, <3>2, <3>3, <3>4, <3>5 DEF States
  <2>4. CASE WriteCommand /\ ~StateReset
    BY <2>1, <2>4 DEF WriteCommand
  <2>5. CASE WriteRegisters
    BY <2>1, <2>5 DEF WriteRegisters
  <2> QED
    BY <1>2, <2>2, <2>3, <2>4, <2>5 DEF Write
<1> QED
  BY <1>1, <1>2 DEF Guest

LEMMA GuestSerial ==
  ASSUME <<"operational", "resume">> \notin Transitions, TypeOK, SerialInv, Guest
  PROVE  SerialInv'
<1>1. UNCHANGED frameTime
  BY GuestStep
<1>2. CASE BusStart /\ state # "operational" /\ state' = "operational"
  <2>1. PICK t \in Timers : /\ thread[t] = "none"
                            /\ \A o \in 1 .. t - 1 : thread[o] # "none"
                            /\ thread' = [thread EXCEPT ![t] = "wait"]
                            /\ eofTimer' = t /\ UNCHANGED exit
    BY <1>2 DEF BusStart
  <2>2. thread'[t] = "wait" /\ \A u \in Timers \ {t} : thread'[u] = thread[u]
    BY <2>1 DEF TypeOK, ThreadTypes
  <2>3. \A u \in Timers : u \in Int /\ u # 0
    BY DEF Timers
  <2>4. \A u \in Timers : thread[u] # "none" => exit[u]
    BY <1>2, <2>3 DEF SerialInv, BusTimer
  <2>5. \A u \in Timers : u < t => thread[u] # "none"
    BY <2>1 DEF Timers
  <2>6. InOrder'
    BY <2>1, <2>2, <2>4, <2>5 DEF SerialInv, InOrder
  <2>7. BusTimer'
    BY <1>2, <2>1, <2>2, <2>4 DEF BusTimer
  <2>8. OneContender' /\ FlagHeld' /\ FrameSerialised'
    BY <1>1, <2>2 DEF SerialInv, OneContender, FlagHeld, FrameSerialised, InFrame
  <2> QED
    BY <2>6, <2>7, <2>8 DEF SerialInv
<1>3. CASE BusStop /\ UNCHANGED thread
  <2>1. /\ \A u \in Timers : exit[u] => exit'[u]
        /\ eofTimer' = 0 /\ (eofTimer # 0 => exit'[eofTimer])
    BY <1>3, StopTypes DEF BusStop, TypeOK
  <2>2. \A u \in Timers : u # 0
    BY DEF Timers
  <2>3. BusTimer'
    BY <1>3, <2>1, <2>2 DEF SerialInv, BusTimer
  <2>4. InOrder'
    BY <1>3, <2>1 DEF SerialInv, InOrder
  <2> QED
    BY <1>1, <1>3, <2>3, <2>4 DEF SerialInv, OneContender, FlagHeld, FrameSerialised, InFrame
<1>4. CASE /\ UNCHANGED <<thread, timing>>
           /\ state' # "operational" => state # "operational"
  BY <1>1, <1>4 DEF SerialInv, InOrder, BusTimer, OneContender, FlagHeld, FrameSerialised,
     InFrame, timing
<1> QED
  BY <1>2, <1>3, <1>4, GuestStep

\* Frames never overlap, however many timers there are and however the threads
\* interleave, if the driver never sets HCFS from operational to resume, which
\* OHCI_ChangeState would let it do without stopping the timer: although
\* m_bFrameTime is tested and set in two steps, its contenders come one by one.
THEOREM FramesSerialised ==
  ASSUME <<"operational", "resume">> \notin Transitions
  PROVE  Spec => []FrameSerialised
<1>1. Init => SerialInv
  BY DEF Init, SerialInv, InOrder, BusTimer, OneContender, FlagHeld, FrameSerialised, InFrame
<1>2. TypeOK /\ SerialInv /\ [Next]_vars => SerialInv'
  <2> SUFFICES ASSUME TypeOK, SerialInv, [Next]_vars PROVE SerialInv'
    OBVIOUS
  <2>1. CASE UNCHANGED vars
    BY <2>1 DEF vars, registers, timing, SerialInv, InOrder, BusTimer, OneContender,
       FlagHeld, FrameSerialised, InFrame
  <2> QED
    BY <2>1, FrameSerial, GuestSerial DEF Next
<1>3. SerialInv => FrameSerialised
  BY DEF SerialInv
<1> QED
  BY <1>1, <1>2, <1>3, TypeCorrect, PTL DEF Spec

-----------------------------------------------------------------------------
(* The devices on the ports.  The invariant: a device that listens has the  *)
(* address the guest gave it, or was reset last and has none.               *)

TreeFields == {"dev", "root", "rhs", "hub", "hcfs", "intr"}
DeviceFields == {"plugged", "attached", "state", "addr", "configuration", "wakeup", "request", "setup",
                 "length", "index", "data", "ran"}
TreeShape(w) ==
    /\ DOMAIN w = TreeFields /\ DOMAIN w.dev = Devices /\ DOMAIN w.root = Roots /\ DOMAIN w.hub = Roots
    /\ \A d \in Devices : DOMAIN w.dev[d] = DeviceFields
    /\ \A p \in Roots : /\ DOMAIN w.hub[p] = 1..HubPorts
                        /\ \A i \in 1..HubPorts : DOMAIN w.hub[p][i] = {"status", "change"}
                        /\ "PES" \in w.root[p] => "CCS" \in w.root[p]
                        /\ "PRS" \notin w.root[p]

\* An address is given to one device at a time, and not to the one that has just been reset.
AddressesInv == Enumerates =>
    /\ \A a, b \in Addresses : given[a] = given[b] /\ given[a] # NoDevice => a = b
    /\ pending # NoDevice => \A a \in Addresses : given[a] # pending

\* A device that listens has the address the guest gave it.
Placed(d) == \/ usb.dev[d].addr = 0 /\ (Enumerates => pending = d)
             \/ usb.dev[d].addr \in Addresses /\ given[usb.dev[d].addr] = d
PlacedInv == \A d \in Devices : Listens(usb, d) => Placed(d)

\* What the guest may have asked, and of whom.
AskedOfNew(t) == /\ t.request = Simple("SetAddress", t.request.value, 0) /\ t.to = 0
                 /\ t.request.value \in Addresses
                 /\ pending # NoDevice /\ given[t.request.value] = NoDevice
AskedOfHub(t) ==
    /\ t.to \in Addresses /\ given[t.to] \in Hubs
    /\ \/ t.request = PortStatus
       \/ t.request = Simple("SetFeature", 1, 0)
       \/ t.request = Simple("ClearPortFeature", 16, GamepadPort)
       \/ t.request = Simple("SetPortFeature", 4, GamepadPort) /\ pending = NoDevice
       \/ /\ t.request = Simple("ClearPortFeature", 1, GamepadPort)
          /\ pending = <<given[t.to][1], GamepadPort>>
TransferInv ==
    Enumerates /\ transfer.stage = "open" =>
        /\ AskedOfNew(transfer) \/ AskedOfHub(transfer)
        /\ \A d \in Devices :
              Listens(usb, d) /\ usb.dev[d].addr = transfer.to
              => /\ usb.dev[d].request = transfer.request
                 /\ ~IsRead(transfer.request) => usb.dev[d].setup = "ack"
ControlInv == ~Enumerates => \A d \in Devices : usb.dev[d].request.name # "SetAddress"

\* The form of the guest's variables.
Transfers(t) == /\ DOMAIN t = {"to", "request", "stage", "got", "sent"}
                /\ t.to \in Addresses \cup {0}
UsbTypes ==
    /\ focus \in Foci /\ DOMAIN given = Addresses
    /\ \A a \in Addresses : given[a] \in Devices \cup {NoDevice}
    /\ pending \in Devices \cup {NoDevice}
    /\ Transfers(transfer)
    /\ DOMAIN scan = {"left", "at", "step", "seen"} /\ scan.left \subseteq Roots /\ scan.seen \subseteq ChangeBits
    /\ scan.step # "none" => scan.at \in Roots
UsbInv == UsbTypes /\ TreeShape(usb) /\ AddressesInv /\ PlacedInv /\ TransferInv /\ ControlInv

-----------------------------------------------------------------------------
(* The names of devices. *)

LEMMA HubNames ==
    ASSUME NEW p \in Roots
    PROVE  /\ <<p>> \in Hubs /\ <<p>> \in Devices /\ <<p>>[1] = p /\ IsHub(<<p>>) /\ <<p>> # NoDevice
           /\ <<p, GamepadPort>> \in Gamepads /\ <<p, GamepadPort>> \in Devices
           /\ <<p, GamepadPort>>[1] = p /\ <<p, GamepadPort>>[2] = GamepadPort
           /\ ~IsHub(<<p, GamepadPort>>) /\ <<p, GamepadPort>> # NoDevice
  BY DEF Hubs, Gamepads, Devices, IsHub, NoDevice

LEMMA DeviceNames ==
    ASSUME NEW d \in Devices
    PROVE  /\ d[1] \in Roots /\ d # NoDevice
           /\ IsHub(d) => d = <<d[1]>> /\ d \in Hubs
           /\ ~IsHub(d) => d = <<d[1], GamepadPort>> /\ d \in Gamepads /\ d[2] = GamepadPort
           /\ d \in Hubs <=> IsHub(d)
  <1>1. CASE d \in Hubs
    <2>1. PICK p \in Roots : d = <<p>>
      BY <1>1 DEF Hubs
    <2> QED BY <1>1, <2>1 DEF IsHub, NoDevice
  <1>2. CASE d \in Gamepads
    <2>1. PICK p \in Roots : d = <<p, GamepadPort>>
      BY <1>2 DEF Gamepads
    <2>2. ~IsHub(d) /\ d # NoDevice /\ d[1] = p /\ d[2] = GamepadPort
      BY <2>1 DEF IsHub, NoDevice
    <2>3. d \notin Hubs
      BY <2>2 DEF Hubs, IsHub
    <2> QED BY <1>2, <2>1, <2>2, <2>3
  <1> QED BY <1>1, <1>2 DEF Devices

LEMMA HubPortNames == GamepadPort \in 1..HubPorts
  BY DEF GamepadPort, HubPorts

\* What the search finds listens to the address, and it finds something if anything does.
LEMMA SearchFindsListeners ==
    ASSUME NEW w, NEW a
    PROVE  /\ \A d \in FindDevice(w, a) : d \in Devices /\ Listens(w, d) /\ w.dev[d].addr = a
           /\ \A d \in Devices : Listens(w, d) /\ w.dev[d].addr = a => FindDevice(w, a) # {}
  <1> DEFINE hits == {p \in Roots : "PES" \in w.root[p] /\ PortFindDevice(w, p, a) # {}}
             first == CHOOSE p \in hits : \A q \in hits : p <= q
  <1>1. hits # {} => first \in hits
    <2> SUFFICES ASSUME hits # {} PROVE \E p \in hits : \A q \in hits : p <= q
      OBVIOUS
    <2>1. hits \subseteq 1..4
      BY RootPortsAssumption DEF Roots
    <2>2. PICK x \in hits : TRUE
      OBVIOUS
    <2> HIDE DEF hits
    <2> QED BY <2>1, <2>2
  <1>2. FindDevice(w, a) = IF hits = {} THEN {} ELSE PortFindDevice(w, first, a)
    BY DEF FindDevice
  <1>3. ASSUME NEW p \in Roots, "PES" \in w.root[p], NEW d \in PortFindDevice(w, p, a)
        PROVE  d \in Devices /\ Listens(w, d) /\ w.dev[d].addr = a
    <2>1. w.dev[<<p>>].attached /\ w.dev[<<p>>].state = "default"
      BY <1>3 DEF PortFindDevice
    <2>2. CASE w.dev[<<p>>].addr = a
      <3>1. d = <<p>>
        BY <1>3, <2>1, <2>2 DEF PortFindDevice
      <3> QED BY <1>3, <2>1, <2>2, <3>1, HubNames DEF Listens
    <2>3. CASE w.dev[<<p>>].addr # a
      <3>1. d \in HubFindDevice(w, p, a)
        BY <1>3, <2>1, <2>3 DEF PortFindDevice
      <3>2. /\ d \in Gamepads /\ d[1] = p /\ "ENABLE" \in w.hub[p][d[2]].status
            /\ w.dev[d].attached /\ w.dev[d].state = "default" /\ w.dev[d].addr = a
        BY <3>1 DEF HubFindDevice
      <3> QED BY <1>3, <2>1, <3>2 DEF Listens, Devices
    <2> QED BY <2>2, <2>3
  <1>4. ASSUME NEW d \in Devices, Listens(w, d), w.dev[d].addr = a PROVE d[1] \in hits
    <2>1. d[1] \in Roots
      BY DeviceNames
    <2>2. /\ "PES" \in w.root[d[1]]
          /\ w.dev[<<d[1]>>].attached /\ w.dev[<<d[1]>>].state = "default"
      BY <1>4 DEF Listens
    <2>3. PortFindDevice(w, d[1], a) # {}
      <3>1. CASE IsHub(d)
        <4>1. d = <<d[1]>>
          BY <3>1, DeviceNames
        <4> QED BY <1>4, <2>2, <4>1 DEF PortFindDevice
      <3>2. CASE ~IsHub(d)
        <4>1. d \in Gamepads
          BY <3>2, DeviceNames
        <4>2. d \in HubFindDevice(w, d[1], a)
          BY <1>4, <3>2, <4>1 DEF Listens, HubFindDevice
        <4> QED BY <2>2, <4>2 DEF PortFindDevice
      <3> QED BY <3>1, <3>2
    <2> QED BY <2>1, <2>2, <2>3
  <1> HIDE DEF hits, first
  <1>5. hits \subseteq Roots /\ \A p \in hits : "PES" \in w.root[p] /\ PortFindDevice(w, p, a) # {}
    BY DEF hits
  <1>6. ASSUME NEW d \in FindDevice(w, a) PROVE d \in Devices /\ Listens(w, d) /\ w.dev[d].addr = a
    BY <1>1, <1>2, <1>3, <1>5, <1>6
  <1>7. ASSUME NEW d \in Devices, Listens(w, d), w.dev[d].addr = a PROVE FindDevice(w, a) # {}
    <2>1. hits # {}
      BY <1>4, <1>7
    <2> QED BY <1>1, <1>2, <1>5, <2>1
  <1> QED BY <1>6, <1>7

-----------------------------------------------------------------------------
(* What the operations do to the devices that listen: nearly all of them    *)
(* let none in.                                                             *)

\* In v no port is enabled and no device listens that did not in w, those that still do are as they
\* were, and no write has taken effect.
AsBefore(w, v, d) == Listens(w, d) /\ v.dev[d] = w.dev[d]
RunsFall(w, v) == \A d \in Devices : v.dev[d].ran = w.dev[d].ran \/ v.dev[d].ran = 0
Quiet(w, v) == /\ TreeShape(v) /\ RunsFall(w, v)
               /\ \A p \in Roots : "PES" \in v.root[p] => "PES" \in w.root[p]
               /\ \A d \in Devices : Listens(v, d) => AsBefore(w, v, d)

\* v differs from w in the registers of the root hub only, and enables no port.
OnlyRoots(w, v) ==
    /\ DOMAIN v = TreeFields /\ v.dev = w.dev /\ v.hub = w.hub /\ DOMAIN v.root = Roots
    /\ \A p \in Roots : /\ "PES" \in v.root[p] => "PES" \in w.root[p] /\ "CCS" \in v.root[p]
                        /\ "PRS" \notin v.root[p]

\* v differs from w in what the hub on p knows of its ports, and enables none of them.
OnlyHub(w, v, p) ==
    /\ DOMAIN v = TreeFields /\ v.dev = w.dev /\ v.root = w.root /\ DOMAIN v.hub = Roots
    /\ \A q \in Roots : q # p => v.hub[q] = w.hub[q]
    /\ DOMAIN v.hub[p] = 1..HubPorts
    /\ \A i \in 1..HubPorts : /\ DOMAIN v.hub[p][i] = {"status", "change"}
                              /\ "ENABLE" \in v.hub[p][i].status => "ENABLE" \in w.hub[p][i].status

LEMMA QuietTransitive ==
    ASSUME NEW u, NEW v, NEW w, Quiet(u, v), Quiet(v, w) PROVE Quiet(u, w)
  <1>1. RunsFall(u, w)
    BY DEF Quiet, RunsFall
  <1> QED BY <1>1 DEF Quiet, AsBefore

LEMMA OnlyRootsIsQuiet ==
    ASSUME NEW w, NEW v, TreeShape(w), OnlyRoots(w, v) PROVE Quiet(w, v)
  <1>1. TreeShape(v)
    BY DEF OnlyRoots, TreeShape
  <1>2. ASSUME NEW d \in Devices, Listens(v, d) PROVE AsBefore(w, v, d)
    <2>1. d[1] \in Roots
      BY DeviceNames
    <2> QED BY <1>2, <2>1 DEF OnlyRoots, AsBefore, Listens
  <1> QED BY <1>1, <1>2 DEF Quiet, RunsFall, OnlyRoots

LEMMA OnlyHubIsQuiet ==
    ASSUME NEW w, NEW p \in Roots, NEW v, TreeShape(w), OnlyHub(w, v, p) PROVE Quiet(w, v)
  <1>1. TreeShape(v)
    BY DEF OnlyHub, TreeShape
  <1>2. ASSUME NEW d \in Devices, Listens(v, d) PROVE AsBefore(w, v, d)
    <2>1. d[1] \in Roots /\ (~IsHub(d) => d[2] \in 1..HubPorts)
      BY DeviceNames, HubPortNames
    <2>2. ~IsHub(d) => "ENABLE" \in w.hub[d[1]][d[2]].status
      BY <1>2, <2>1 DEF OnlyHub, Listens
    <2> QED BY <1>2, <2>2 DEF OnlyHub, AsBefore, Listens
  <1> QED BY <1>1, <1>2 DEF Quiet, RunsFall, OnlyHub

LEMMA SetInterruptOnlyRoots ==
    ASSUME NEW w, TreeShape(w), NEW event PROVE OnlyRoots(w, SetInterrupt(w, event))
  BY DEF SetInterrupt, OnlyRoots, TreeShape, TreeFields

LEMMA SetRootOnlyRoots ==
    ASSUME NEW w, TreeShape(w), NEW p \in Roots, NEW s,
           "PES" \in s => "PES" \in w.root[p] /\ "CCS" \in s, "PRS" \notin s
    PROVE  /\ OnlyRoots(w, SetRoot(w, p, s))
           /\ \A q \in Roots : SetRoot(w, p, s).root[q] = IF q = p THEN s ELSE w.root[q]
  <1>1. CASE s = w.root[p]
    BY <1>1 DEF SetRoot, OnlyRoots, TreeShape
  <1>2. CASE s # w.root[p]
    <2> DEFINE v == [w EXCEPT !.root[p] = s]
    <2>1. /\ DOMAIN v = TreeFields /\ v.dev = w.dev /\ v.hub = w.hub /\ v.root = [w.root EXCEPT ![p] = s]
      BY DEF TreeShape, TreeFields
    <2>2. SetRoot(w, p, s) = SetInterrupt(v, "RHSC")
      BY <1>2 DEF SetRoot
    <2> HIDE DEF v
    <2>3. /\ DOMAIN SetInterrupt(v, "RHSC") = TreeFields
          /\ SetInterrupt(v, "RHSC").dev = w.dev /\ SetInterrupt(v, "RHSC").hub = w.hub
          /\ SetInterrupt(v, "RHSC").root = [w.root EXCEPT ![p] = s]
      BY <2>1 DEF SetInterrupt, TreeFields
    <2> QED BY <2>2, <2>3 DEF OnlyRoots, TreeShape
  <1> QED BY <1>1, <1>2

LEMMA OnlyRootsTransitive ==
    ASSUME NEW u, NEW v, NEW w, OnlyRoots(u, v), OnlyRoots(v, w) PROVE OnlyRoots(u, w)
  BY DEF OnlyRoots

LEMMA OnlyRootsShape ==
    ASSUME NEW w, NEW v, TreeShape(w), OnlyRoots(w, v) PROVE TreeShape(v)
  BY DEF OnlyRoots, TreeShape

LEMMA OhciAttachOnlyRoots ==
    ASSUME NEW w, TreeShape(w), NEW p \in Roots PROVE OnlyRoots(w, OhciAttach(w, p))
  <1> DEFINE v == IF w.hcfs = "suspend" THEN SetInterrupt(w, "RD") ELSE w
             s == (v.root[p] \cup {"CCS", "CSC"}) \ {"LSDA"}
  <1>1. OnlyRoots(w, v)
    BY SetInterruptOnlyRoots DEF OnlyRoots, TreeShape
  <1>2. TreeShape(v)
    BY <1>1, OnlyRootsShape
  <1> HIDE DEF v
  <1>3. OnlyRoots(v, SetRoot(v, p, s))
    <2>1. ("PES" \in s => "PES" \in v.root[p] /\ "CCS" \in s) /\ "PRS" \notin s
      BY <1>2 DEF TreeShape
    <2> HIDE DEF s
    <2> QED BY <1>2, <2>1, SetRootOnlyRoots
  <1>4. OhciAttach(w, p) = SetRoot(v, p, s)
    BY DEF OhciAttach, v
  <1> QED BY <1>1, <1>3, <1>4, OnlyRootsTransitive

LEMMA OhciDetachOnlyRoots ==
    ASSUME NEW w, TreeShape(w), NEW p \in Roots PROVE OnlyRoots(w, OhciDetach(w, p))
  <1> DEFINE s == IF "CCS" \in w.root[p] THEN (w.root[p] \ {"CCS"}) \cup {"CSC"} ELSE w.root[p]
             t == IF "PES" \in s THEN (s \ {"PES"}) \cup {"PESC"} ELSE s
  <1>1. "PES" \notin t /\ "PRS" \notin t
    BY DEF TreeShape
  <1> HIDE DEF t
  <1>2. OnlyRoots(w, SetRoot(w, p, t))
    BY <1>1, SetRootOnlyRoots
  <1> QED BY <1>2 DEF OhciDetach, t

LEMMA WakeupOnlyRoots ==
    ASSUME NEW w, TreeShape(w), NEW p \in Roots PROVE OnlyRoots(w, Wakeup(w, p))
  <1> DEFINE s == (w.root[p] \ {"PSS"}) \cup {"PSSC"}
             v == IF "PSS" \in w.root[p] THEN SetRoot(w, p, s) ELSE w
             u == [w EXCEPT !.root = v.root, !.hcfs = "resume"]
  <1>1. ("PES" \in s => "PES" \in w.root[p] /\ "CCS" \in s) /\ "PRS" \notin s
    BY DEF TreeShape
  <1>2. OnlyRoots(w, w)
    BY DEF OnlyRoots, TreeShape
  <1>3. OnlyRoots(w, v)
    <2> HIDE DEF s
    <2> QED BY <1>1, <1>2, SetRootOnlyRoots
  <1> HIDE DEF v
  <1>4. u.root = v.root /\ u.dev = w.dev /\ u.hub = w.hub /\ DOMAIN u = TreeFields
    BY DEF TreeShape, TreeFields
  <1> HIDE DEF u
  <1>5. OnlyRoots(w, u)
    BY <1>3, <1>4 DEF OnlyRoots
  <1>6. OnlyRoots(w, SetInterrupt(u, "RD"))
    BY <1>5, OnlyRootsShape, OnlyRootsTransitive, SetInterruptOnlyRoots
  <1>7. OhciWakeup(w, p) = IF w.hcfs = "suspend" THEN SetInterrupt(u, "RD") ELSE v
    BY DEF OhciWakeup, u, v
  <1> QED BY <1>2, <1>3, <1>6, <1>7 DEF Wakeup

LEMMA HubAttachQuiet ==
    ASSUME NEW w, TreeShape(w), NEW p \in Roots, NEW i \in 1..HubPorts
    PROVE  Quiet(w, HubAttach(w, p, i)) /\ HubAttach(w, p, i).dev = w.dev
  <1> DEFINE port == w.hub[p][i]
             new == [status |-> (port.status \cup {"CONNECTION"}) \ {"LOW_SPEED"},
                     change |-> port.change \cup {"CONNECTION"}]
             v == [w EXCEPT !.hub[p][i] = new]
  <1>1. /\ DOMAIN new = {"status", "change"} /\ ("ENABLE" \in new.status => "ENABLE" \in port.status)
    OBVIOUS
  <1>2. HubAttach(w, p, i) = Wakeup(v, p)
    BY DEF HubAttach
  <1> HIDE DEF new
  <1>3. /\ DOMAIN v = TreeFields /\ v.dev = w.dev /\ v.root = w.root
        /\ v.hub = [w.hub EXCEPT ![p] = [w.hub[p] EXCEPT ![i] = new]]
    BY DEF TreeShape, TreeFields
  <1> HIDE DEF v
  <1>4. OnlyHub(w, v, p)
    BY <1>1, <1>3 DEF OnlyHub, TreeShape
  <1>5. Quiet(w, v) /\ TreeShape(v)
    BY <1>4, OnlyHubIsQuiet DEF Quiet
  <1>6. OnlyRoots(v, Wakeup(v, p))
    BY <1>5, WakeupOnlyRoots
  <1> QED BY <1>2, <1>3, <1>5, <1>6, OnlyRootsIsQuiet, QuietTransitive DEF OnlyRoots

LEMMA HubResetOnlyHub ==
    ASSUME NEW w, TreeShape(w), NEW p \in Roots
    PROVE  /\ OnlyHub(w, HubReset(w, p), p)
           /\ \A i \in 1..HubPorts : "ENABLE" \notin HubReset(w, p).hub[p][i].status
  <1> DEFINE ports == [i \in 1..HubPorts |->
                           IF i = GamepadPort /\ w.dev[<<p, i>>].attached
                           THEN [status |-> {"POWER", "CONNECTION"}, change |-> {"CONNECTION"}]
                           ELSE NoPort]
  <1>1. DOMAIN ports = 1..HubPorts
    OBVIOUS
  <1>2. ASSUME NEW i \in 1..HubPorts
        PROVE  DOMAIN ports[i] = {"status", "change"} /\ "ENABLE" \notin ports[i].status
    BY DEF NoPort
  <1>3. HubReset(w, p) = [w EXCEPT !.hub[p] = ports]
    BY DEF HubReset
  <1> HIDE DEF ports
  <1>4. /\ DOMAIN HubReset(w, p) = TreeFields /\ HubReset(w, p).dev = w.dev /\ HubReset(w, p).root = w.root
        /\ HubReset(w, p).hub = [w.hub EXCEPT ![p] = ports]
    BY <1>3 DEF TreeShape, TreeFields
  <1> QED BY <1>1, <1>2, <1>4 DEF OnlyHub, TreeShape

\* v differs from w in the device d only.
OnlyDevice(w, v, d) ==
    /\ DOMAIN v = TreeFields /\ v.root = w.root /\ v.hub = w.hub
    /\ DOMAIN v.dev = Devices /\ DOMAIN v.dev[d] = DeviceFields
    /\ \A e \in Devices : e # d => v.dev[e] = w.dev[e]
SameRequests(w, v) == \A d \in Devices : v.dev[d].request = w.dev[d].request

LEMMA OnlyDeviceShape ==
    ASSUME NEW w, TreeShape(w), NEW d \in Devices, NEW v, OnlyDevice(w, v, d) PROVE TreeShape(v)
  BY DEF OnlyDevice, TreeShape

\* ... and if d was not attached, or is just attached, it does not listen.
LEMMA OnlyDeviceListens ==
    ASSUME NEW w, TreeShape(w), NEW d \in Devices, NEW v, OnlyDevice(w, v, d),
           \/ v.dev[d].state # "default"
           \/ v.dev[d].attached = w.dev[d].attached /\ v.dev[d].state = w.dev[d].state
    PROVE  \A e \in Devices : /\ Listens(v, e) => Listens(w, e)
                              /\ e # d /\ Listens(v, e) => AsBefore(w, v, e)
  <1> SUFFICES ASSUME NEW e \in Devices, Listens(v, e)
               PROVE  Listens(w, e) /\ (e # d => AsBefore(w, v, e))
    OBVIOUS
  <1> DEFINE h == <<e[1]>>
  <1>1. h \in Devices /\ (IsHub(e) => e = h)
    BY DeviceNames, HubNames
  <1> HIDE DEF h
  <1>2. /\ "PES" \in v.root[e[1]] /\ v.dev[h].attached /\ v.dev[h].state = "default"
        /\ ~IsHub(e) => /\ "ENABLE" \in v.hub[e[1]][e[2]].status
                        /\ v.dev[e].attached /\ v.dev[e].state = "default"
    BY DEF Listens, h
  <1>3. /\ w.dev[h].attached /\ w.dev[h].state = "default"
        /\ ~IsHub(e) => w.dev[e].attached /\ w.dev[e].state = "default"
    BY <1>1, <1>2 DEF OnlyDevice
  <1>4. Listens(w, e)
    BY <1>2, <1>3 DEF OnlyDevice, Listens, h
  <1> QED BY <1>4 DEF OnlyDevice, AsBefore

LEMMA DeviceResetEffect ==
    ASSUME NEW w, TreeShape(w), NEW d \in Devices
    PROVE  LET v == DeviceReset(w, d)
           IN  /\ TreeShape(v) /\ v.root = w.root /\ SameRequests(w, v) /\ RunsFall(w, v)
               /\ v.dev[d].attached
                  => /\ v.dev[d].addr = 0
                     /\ IsHub(d) => \A i \in 1..HubPorts : "ENABLE" \notin v.hub[d[1]][i].status
               /\ v.dev[d].attached = w.dev[d].attached
               /\ \A e \in Devices :
                     Listens(v, e) => IF e = d THEN v.dev[e].addr = 0
                                      ELSE AsBefore(w, v, e) /\ (IsHub(d) => e[1] # d[1])
  <1> DEFINE u == [w EXCEPT !.dev[d].wakeup = FALSE, !.dev[d].addr = 0, !.dev[d].state = "default"]
             v == DeviceReset(w, d)
  <1>1. CASE ~w.dev[d].attached
    <2>1. v = w
      BY <1>1 DEF DeviceReset
    <2>2. ASSUME NEW e \in Devices, Listens(w, e)
          PROVE  e # d /\ AsBefore(w, w, e) /\ (IsHub(d) => e[1] # d[1])
      <3>1. ~(IsHub(d) /\ e[1] = d[1])
        BY <1>1, <2>2, DeviceNames DEF Listens
      <3>2. e # d
        BY <1>1, <2>2, <3>1 DEF Listens
      <3> QED BY <2>2, <3>1, <3>2 DEF AsBefore
    <2> QED BY <1>1, <2>1, <2>2 DEF SameRequests, RunsFall
  <1>2. CASE w.dev[d].attached
    <2>1. /\ DOMAIN u = TreeFields /\ u.root = w.root /\ u.hub = w.hub
          /\ u.dev = [w.dev EXCEPT ![d] =
                        [w.dev[d] EXCEPT !.wakeup = FALSE, !.addr = 0, !.state = "default"]]
      BY DEF TreeShape, TreeFields
    <2>2. v = IF IsHub(d) THEN HubReset(u, d[1]) ELSE u
      BY <1>2 DEF DeviceReset
    <2> HIDE DEF u, v
    <2>3. /\ DOMAIN u.dev[d] = DeviceFields /\ u.dev[d].addr = 0
          /\ u.dev[d].attached = w.dev[d].attached /\ u.dev[d].request = w.dev[d].request
          /\ u.dev[d].ran = w.dev[d].ran
      BY <2>1 DEF TreeShape, DeviceFields
    <2>4. OnlyDevice(w, u, d)
      BY <2>1, <2>3 DEF OnlyDevice, TreeShape
    <2>5. TreeShape(u)
      BY <2>4, OnlyDeviceShape
    <2>6. SameRequests(w, u) /\ RunsFall(w, u)
      BY <2>3, <2>4 DEF SameRequests, RunsFall, OnlyDevice
    <2>7. d[1] \in Roots
      BY DeviceNames
    <2>8. CASE ~IsHub(d)
      <3>1. v = u
        BY <2>2, <2>8
      <3>2. ASSUME NEW e \in Devices, Listens(u, e), e # d PROVE AsBefore(w, u, e)
        <4>1. <<e[1]>> # d /\ <<e[1]>> \in Devices
          BY <2>8, DeviceNames, HubNames
        <4>2. u.dev[e] = w.dev[e] /\ u.dev[<<e[1]>>] = w.dev[<<e[1]>>]
          BY <2>4, <3>2, <4>1 DEF OnlyDevice
        <4> QED BY <2>4, <3>2, <4>2 DEF OnlyDevice, AsBefore, Listens
      <3> QED BY <2>3, <2>4, <2>5, <2>6, <2>8, <3>1, <3>2 DEF OnlyDevice, v
    <2>9. CASE IsHub(d)
      <3>1. v = HubReset(u, d[1])
        BY <2>2, <2>9
      <3>2. OnlyHub(u, v, d[1]) /\ \A i \in 1..HubPorts : "ENABLE" \notin v.hub[d[1]][i].status
        BY <2>5, <2>7, <3>1, HubResetOnlyHub
      <3>3. TreeShape(v)
        BY <2>5, <2>7, <3>2, OnlyHubIsQuiet DEF Quiet
      <3>4. ASSUME NEW e \in Devices, Listens(v, e), e # d PROVE AsBefore(w, v, e) /\ e[1] # d[1]
        <4>1. e[1] # d[1]
          <5> SUFFICES ASSUME e[1] = d[1] PROVE FALSE
            OBVIOUS
          <5>1. ~IsHub(e) /\ e[2] \in 1..HubPorts
            BY <2>9, <3>4, DeviceNames, HubPortNames
          <5> QED BY <3>2, <3>4, <5>1 DEF Listens
        <4>2. <<e[1]>> # d /\ <<e[1]>> \in Devices /\ e[1] \in Roots
          BY <2>9, <4>1, DeviceNames, HubNames
        <4>3. v.dev[e] = w.dev[e] /\ v.dev[<<e[1]>>] = w.dev[<<e[1]>>]
          BY <2>4, <3>2, <3>4, <4>2 DEF OnlyDevice, OnlyHub
        <4>4. v.root = w.root /\ v.hub[e[1]] = w.hub[e[1]]
          BY <2>4, <3>2, <4>1, <4>2 DEF OnlyDevice, OnlyHub
        <4> QED BY <3>4, <4>1, <4>3, <4>4 DEF AsBefore, Listens
      <3>5. v.root = w.root /\ v.dev = u.dev
        BY <2>4, <3>2 DEF OnlyDevice, OnlyHub
      <3> QED BY <2>3, <2>6, <2>9, <3>2, <3>3, <3>4, <3>5 DEF SameRequests, RunsFall, v
    <2> QED BY <2>8, <2>9
  <1> QED BY <1>1, <1>2

LEMMA NotReset ==
    ASSUME NEW w, NEW d \in Devices, w.dev[d].state # "default" \/ ~w.dev[d].attached
    PROVE  ~Listens(w, d)
  <1>1. IsHub(d) => d = <<d[1]>>
    BY DeviceNames
  <1> QED BY <1>1 DEF Listens

\* A device that is edited does not matter if it does not listen afterwards.
LEMMA EditIsQuiet ==
    ASSUME NEW w, TreeShape(w), NEW d \in Devices, NEW v, OnlyDevice(w, v, d),
           v.dev[d].state # "default", v.dev[d].ran = w.dev[d].ran \/ v.dev[d].ran = 0
    PROVE  Quiet(w, v)
  <1>1. TreeShape(v)
    BY OnlyDeviceShape
  <1>2. \A e \in Devices : /\ Listens(v, e) => Listens(w, e)
                           /\ e # d /\ Listens(v, e) => AsBefore(w, v, e)
    BY OnlyDeviceListens
  <1>3. ~Listens(v, d)
    BY NotReset
  <1> QED BY <1>1, <1>2, <1>3 DEF Quiet, RunsFall, OnlyDevice

LEMMA AttachQuiet ==
    ASSUME NEW w, TreeShape(w), NEW d \in Devices PROVE Quiet(w, Attach(w, d))
  <1>1. d[1] \in Roots
    BY DeviceNames
  <1>2. CASE IsHub(d)
    <2> DEFINE u == OhciAttach(w, d[1])
               v == [u EXCEPT !.dev[d].state = "attached"]
    <2>1. Quiet(w, u) /\ TreeShape(u)
      BY <1>1, OhciAttachOnlyRoots, OnlyRootsIsQuiet DEF Quiet
    <2>2. Attach(w, d) = v
      BY <1>2 DEF Attach
    <2> HIDE DEF u
    <2>3. OnlyDevice(u, v, d) /\ v.dev[d].state # "default" /\ v.dev[d].ran = u.dev[d].ran
      BY <2>1 DEF OnlyDevice, TreeShape, TreeFields, DeviceFields
    <2> QED BY <2>1, <2>2, <2>3, EditIsQuiet, QuietTransitive
  <1>3. CASE ~IsHub(d)
    <2> DEFINE u == HubAttach(w, d[1], d[2])
               v == [u EXCEPT !.dev[d].state = "attached", !.dev[d].configuration = 0]
    <2>1. Quiet(w, u) /\ TreeShape(u)
      BY <1>1, <1>3, DeviceNames, HubPortNames, HubAttachQuiet DEF Quiet
    <2>2. Attach(w, d) = v
      BY <1>3 DEF Attach
    <2> HIDE DEF u
    <2>3. OnlyDevice(u, v, d) /\ v.dev[d].state # "default" /\ v.dev[d].ran = u.dev[d].ran
      BY <2>1 DEF OnlyDevice, TreeShape, TreeFields, DeviceFields
    <2> QED BY <2>1, <2>2, <2>3, EditIsQuiet, QuietTransitive
  <1> QED BY <1>2, <1>3

LEMMA DetachQuiet ==
    ASSUME NEW w, TreeShape(w), NEW d \in Hubs PROVE Quiet(w, Detach(w, d))
  <1> DEFINE u == OhciDetach(w, d[1])
             v == [u EXCEPT !.dev[d].state = "notattached"]
  <1>1. d \in Devices /\ d[1] \in Roots
    BY DeviceNames DEF Devices
  <1>2. Quiet(w, u) /\ TreeShape(u)
    BY <1>1, OhciDetachOnlyRoots, OnlyRootsIsQuiet DEF Quiet
  <1>3. Detach(w, d) = v
    BY DEF Detach
  <1> HIDE DEF u
  <1>4. OnlyDevice(u, v, d) /\ v.dev[d].state # "default" /\ v.dev[d].ran = u.dev[d].ran
    BY <1>1, <1>2 DEF OnlyDevice, TreeShape, TreeFields, DeviceFields
  <1> QED BY <1>1, <1>2, <1>3, <1>4, EditIsQuiet, QuietTransitive

\* A hub or a gamepad that is plugged in does not listen until it is reset.
LEMMA PlugQuiet ==
    ASSUME NEW w, TreeShape(w), NEW d \in Devices PROVE Quiet(w, Plug(w, d))
  <1> DEFINE new == [NewDevice EXCEPT !.plugged = TRUE]
             ports == IF IsHub(d) THEN [i \in 1..HubPorts |-> NoPort] ELSE w.hub[d[1]]
             u == [w EXCEPT !.hub[d[1]] = ports]
             v == [w EXCEPT !.dev[d] = new, !.hub[d[1]] = ports]
             x == [v EXCEPT !.dev[d].attached = TRUE]
  <1>1. d[1] \in Roots
    BY DeviceNames
  <1>2. DOMAIN new = DeviceFields /\ new.state # "default" /\ new.ran = 0
    BY DEF NewDevice, DeviceFields
  <1>3. /\ DOMAIN ports = 1..HubPorts
        /\ \A i \in 1..HubPorts : /\ DOMAIN ports[i] = {"status", "change"}
                                  /\ "ENABLE" \in ports[i].status => "ENABLE" \in w.hub[d[1]][i].status
    BY <1>1 DEF NoPort, TreeShape
  <1>4. Plug(w, d) = Attach(x, d)
    BY DEF Plug, DeviceAttach
  <1> HIDE DEF new, ports
  <1>5. /\ DOMAIN u = TreeFields /\ u.dev = w.dev /\ u.root = w.root
        /\ u.hub = [w.hub EXCEPT ![d[1]] = ports]
    BY DEF TreeShape, TreeFields
  <1>6. /\ DOMAIN v = TreeFields /\ v.dev = [w.dev EXCEPT ![d] = new] /\ v.root = w.root
        /\ v.hub = [w.hub EXCEPT ![d[1]] = ports]
    BY DEF TreeShape, TreeFields
  <1> HIDE DEF u, v
  <1>7. /\ DOMAIN x = TreeFields /\ x.dev = [v.dev EXCEPT ![d] = [v.dev[d] EXCEPT !.attached = TRUE]]
        /\ x.root = w.root /\ x.hub = u.hub
    BY <1>5, <1>6 DEF TreeFields
  <1> HIDE DEF x
  <1>8. OnlyHub(w, u, d[1])
    BY <1>1, <1>3, <1>5 DEF OnlyHub, TreeShape
  <1>9. Quiet(w, u) /\ TreeShape(u)
    BY <1>1, <1>8, OnlyHubIsQuiet DEF Quiet
  <1>10. DOMAIN x.dev = Devices /\ DOMAIN x.dev[d] = DeviceFields /\ x.dev[d].state # "default" /\ x.dev[d].ran = 0
    BY <1>2, <1>6, <1>7 DEF TreeShape, DeviceFields
  <1>11. OnlyDevice(u, x, d)
    BY <1>5, <1>6, <1>7, <1>10 DEF OnlyDevice, TreeShape
  <1>12. Quiet(u, x) /\ TreeShape(x)
    BY <1>9, <1>10, <1>11, EditIsQuiet DEF Quiet
  <1> QED BY <1>4, <1>9, <1>12, AttachQuiet, QuietTransitive

LEMMA HandleDestroyQuiet ==
    ASSUME NEW w, TreeShape(w), NEW p \in Roots PROVE Quiet(w, HandleDestroy(w, p))
  <1> DEFINE u == Detach(w, <<p>>)
             v == [u EXCEPT !.dev = [d \in Devices |-> IF d[1] = p THEN NewDevice ELSE @[d]]]
  <1>1. Quiet(w, u) /\ TreeShape(u)
    BY DetachQuiet, HubNames DEF Quiet
  <1>2. HandleDestroy(w, p) = v
    BY DEF HandleDestroy
  <1> HIDE DEF u
  <1>3. /\ DOMAIN v = TreeFields /\ v.root = u.root /\ v.hub = u.hub
        /\ v.dev = [d \in Devices |-> IF d[1] = p THEN NewDevice ELSE u.dev[d]]
    BY <1>1 DEF TreeShape, TreeFields
  <1> HIDE DEF v
  <1>4. DOMAIN NewDevice = DeviceFields /\ ~NewDevice.attached /\ NewDevice.ran = 0
    BY DEF NewDevice, DeviceFields
  <1>5. TreeShape(v) /\ RunsFall(u, v)
    BY <1>1, <1>3, <1>4 DEF TreeShape, RunsFall
  <1>6. ASSUME NEW d \in Devices, Listens(v, d) PROVE AsBefore(u, v, d)
    <2>1. <<d[1]>> \in Devices /\ <<d[1]>>[1] = d[1]
      BY DeviceNames, HubNames
    <2>2. d[1] # p
      BY <1>3, <1>4, <1>6, <2>1 DEF Listens
    <2>3. v.dev[d] = u.dev[d] /\ v.dev[<<d[1]>>] = u.dev[<<d[1]>>]
      BY <1>3, <2>1, <2>2
    <2> QED BY <1>3, <1>6, <2>3 DEF AsBefore, Listens
  <1>7. Quiet(u, v)
    BY <1>3, <1>5, <1>6 DEF Quiet
  <1> QED BY <1>1, <1>2, <1>7, QuietTransitive

Closed(w) == TreeShape(w) /\ \A p \in Roots : "PES" \notin w.root[p]

LEMMA ClosedIsQuiet ==
    ASSUME NEW w, NEW v, Closed(v), RunsFall(w, v) PROVE Quiet(w, v)
  BY DeviceNames DEF Closed, Quiet, Listens

LEMMA PortResetClosed ==
    ASSUME NEW w, Closed(w), NEW p \in Roots
    PROVE  Closed(PortReset(w, <<p>>)) /\ RunsFall(w, PortReset(w, <<p>>))
  <1> DEFINE d == <<p>>
             u == Detach(w, d)
             v == Attach(u, d)
  <1>1. d \in Hubs /\ d \in Devices
    BY HubNames
  <1>2. Quiet(w, u)
    BY <1>1, DetachQuiet DEF Closed
  <1>3. Quiet(u, v)
    BY <1>1, <1>2, AttachQuiet DEF Quiet
  <1>4. Closed(v)
    BY <1>2, <1>3 DEF Closed, Quiet
  <1>5. /\ TreeShape(DeviceReset(v, d)) /\ DeviceReset(v, d).root = v.root
        /\ RunsFall(v, DeviceReset(v, d))
    BY <1>1, <1>4, DeviceResetEffect DEF Closed
  <1>6. PortReset(w, d) = DeviceReset(v, d)
    BY DEF PortReset
  <1> HIDE DEF u, v
  <1>7. RunsFall(w, PortReset(w, d))
    BY <1>2, <1>3, <1>5, <1>6 DEF Quiet, RunsFall
  <1> QED BY <1>4, <1>5, <1>6, <1>7 DEF Closed

\* A reset of the controller resets its ports one after another; at most four, so that the
\* recursion can be written out.
LEMMA ResetHostUnrolled ==
    ASSUME NEW w, TreeShape(w)
    PROVE  \E after :
              /\ /\ TreeShape(after[0]) /\ after[0].dev = w.dev /\ after[0].hub = w.hub
                 /\ \A p \in Roots : after[0].root[p] = {}
              /\ \A p \in Roots : after[p] = IF w.dev[<<p>>].attached THEN PortReset(after[p - 1], <<p>>)
                                             ELSE after[p - 1]
              /\ ResetHost(w) = after[RootPorts]
  <1> DEFINE cleared == [w EXCEPT !.root = [p \in Roots |-> {}], !.rhs = {}, !.hcfs = "reset", !.intr = {}]
             Step(v, p) == IF cleared.dev[<<p>>].attached THEN PortReset(v, <<p>>) ELSE v
             after[p \in 0..RootPorts] == IF p = 0 THEN cleared
                                          ELSE IF cleared.dev[<<p>>].attached
                                          THEN PortReset(after[p - 1], <<p>>) ELSE after[p - 1]
             one == Step(cleared, 1)
             two == Step(one, 2)
             three == Step(two, 3)
             four == Step(three, 4)
             result == [p \in 0..RootPorts |-> IF p = 0 THEN cleared ELSE IF p = 1 THEN one
                           ELSE IF p = 2 THEN two ELSE IF p = 3 THEN three ELSE four]
  <1>1. ResetHost(w) = after[RootPorts]
    BY DEF ResetHost
  <1>2. TreeShape(cleared) /\ cleared.dev = w.dev /\ cleared.hub = w.hub /\ \A p \in Roots : cleared.root[p] = {}
    <2>1. DOMAIN cleared = TreeFields /\ cleared.dev = w.dev /\ cleared.hub = w.hub
          /\ cleared.root = [p \in Roots |-> {}]
      BY DEF TreeShape, TreeFields
    <2> HIDE DEF cleared
    <2> QED BY <2>1 DEF TreeShape
  <1> HIDE DEF cleared
  <1>3. result = [p \in 0..RootPorts |-> IF p = 0 THEN cleared
                                         ELSE IF cleared.dev[<<p>>].attached
                                         THEN PortReset(result[p - 1], <<p>>) ELSE result[p - 1]]
    <2> HIDE DEF one, two, three, four
    <2> SUFFICES ASSUME NEW p \in 0..RootPorts
                 PROVE  result[p] = IF p = 0 THEN cleared
                                    ELSE IF cleared.dev[<<p>>].attached
                                    THEN PortReset(result[p - 1], <<p>>) ELSE result[p - 1]
      OBVIOUS
    <2>1. p \in {0, 1, 2, 3, 4} /\ (p # 0 => p - 1 \in 0..RootPorts)
      BY RootPortsAssumption
    <2> QED BY <2>1 DEF one, two, three, four
  <1>4. after = [p \in 0..RootPorts |-> IF p = 0 THEN cleared
                                        ELSE IF cleared.dev[<<p>>].attached
                                        THEN PortReset(after[p - 1], <<p>>) ELSE after[p - 1]]
    <2> HIDE DEF result
    <2> QED BY <1>3
  <1> HIDE DEF after, result
  <1>5. ASSUME NEW p \in Roots
        PROVE  after[p] = IF w.dev[<<p>>].attached THEN PortReset(after[p - 1], <<p>>) ELSE after[p - 1]
    <2>1. p \in 0..RootPorts /\ p # 0
      BY RootPortsAssumption DEF Roots
    <2> QED BY <1>2, <1>4, <2>1
  <1>6. after[0] = cleared
    <2>1. 0 \in 0..RootPorts
      BY RootPortsAssumption
    <2> QED BY <1>4, <2>1
  <1> QED BY <1>1, <1>2, <1>5, <1>6

\* The reset leaves the ports' devices closed.
LEMMA ResetHostClosed ==
    ASSUME NEW w, TreeShape(w) PROVE Closed(ResetHost(w)) /\ RunsFall(w, ResetHost(w))
  <1> DEFINE Good(v) == Closed(v) /\ RunsFall(w, v)
  <1>1. PICK after :
              /\ /\ TreeShape(after[0]) /\ after[0].dev = w.dev /\ after[0].hub = w.hub
                 /\ \A p \in Roots : after[0].root[p] = {}
              /\ \A p \in Roots : after[p] = IF w.dev[<<p>>].attached THEN PortReset(after[p - 1], <<p>>)
                                             ELSE after[p - 1]
              /\ ResetHost(w) = after[RootPorts]
    BY ResetHostUnrolled
  <1>2. Good(after[0])
    BY <1>1 DEF Closed, RunsFall
  <1>3. ASSUME NEW p \in Roots, Good(after[p - 1]) PROVE Good(after[p])
    <2>1. \A v : Good(v) => Good(PortReset(v, <<p>>))
      BY PortResetClosed DEF RunsFall
    <2> HIDE DEF Good
    <2> QED BY <1>1, <1>3, <2>1
  <1> HIDE DEF Good
  <1>4. 1 \in Roots /\ Good(after[1])
    BY <1>2, <1>3, RootPortsAssumption DEF Roots
  <1>5. 2 \in Roots => Good(after[2])
    BY <1>3, <1>4
  <1>6. 3 \in Roots => Good(after[3])
    BY <1>3, <1>5, RootPortsAssumption DEF Roots
  <1>7. 4 \in Roots => Good(after[4])
    BY <1>3, <1>6, RootPortsAssumption DEF Roots
  <1>8. Good(ResetHost(w))
    BY <1>1, <1>4, <1>5, <1>6, <1>7, RootPortsAssumption DEF Roots
  <1> QED BY <1>8 DEF Good

LEMMA ChangeHcfsQuiet ==
    ASSUME NEW w, TreeShape(w), NEW hcfs
    PROVE  /\ Quiet(w, ChangeHcfs(w, hcfs))
           /\ hcfs = "reset" => Closed(ChangeHcfs(w, hcfs)) \/ w.hcfs = "reset"
  <1>1. OnlyRoots(w, w)
    BY DEF OnlyRoots, TreeShape
  <1>2. OnlyRoots(w, [w EXCEPT !.hcfs = hcfs])
    BY DEF OnlyRoots, TreeShape, TreeFields
  <1> QED BY <1>1, <1>2, OnlyRootsIsQuiet, ResetHostClosed, ClosedIsQuiet DEF ChangeHcfs

LEMMA SetHubStatusQuiet ==
    ASSUME NEW w, TreeShape(w) PROVE Quiet(w, SetHubStatus(w, {"LPSC", "DRWE"}))
  <1> DEFINE value == {"LPSC", "DRWE"}
             down == [p \in Roots |-> IF "LPS" \in value THEN PortPower(w.root[p], FALSE) ELSE w.root[p]]
             up == [p \in Roots |-> IF "LPSC" \in value THEN PortPower(down[p], TRUE) ELSE down[p]]
             rhs == ((w.rhs \ (value \cap {"OCIC"})) \cup (value \cap {"DRWE"}))
                        \ (IF "CRWE" \in value THEN {"DRWE"} ELSE {})
             v == [w EXCEPT !.root = up, !.rhs = rhs]
  <1>1. ASSUME NEW p \in Roots PROVE up[p] = w.root[p] \cup {"PPS"}
    BY DEF PortPower
  <1>2. DOMAIN up = Roots
    OBVIOUS
  <1> HIDE DEF up, rhs
  <1>3. DOMAIN v = TreeFields /\ v.dev = w.dev /\ v.hub = w.hub /\ v.root = up
    BY DEF TreeShape, TreeFields
  <1>4. SetHubStatus(w, value) = IF rhs = w.rhs THEN v ELSE SetInterrupt(v, "RHSC")
    BY DEF SetHubStatus, up, rhs
  <1> HIDE DEF v, value
  <1>5. OnlyRoots(w, v) /\ TreeShape(v)
    BY <1>1, <1>2, <1>3 DEF OnlyRoots, TreeShape
  <1>6. OnlyRoots(w, SetHubStatus(w, value))
    BY <1>4, <1>5, SetInterruptOnlyRoots, OnlyRootsTransitive
  <1> QED BY <1>6, OnlyRootsIsQuiet DEF value

\* Bits that neither enable nor reset a port: acknowledgements, a suspend, a disable.
LEMMA PortSetStatusQuiet ==
    ASSUME NEW w, TreeShape(w), NEW p \in Roots, NEW value,
           {"PES", "PRS", "LSDA", "PPS"} \cap value = {}
    PROVE  LET v == PortSetStatus(w, p, value)
           IN  Quiet(w, v) /\ ("CCS" \in value => "PES" \notin v.root[p])
  <1> DEFINE cleared == (w.root[p] \ (value \cap ChangeBits)) \ (IF "CCS" \in value THEN {"PES"} ELSE {})
             s == SetIfConnected(SetIfConnected(cleared, value, "PES"), value, "PSS")
  <1>1. /\ "PES" \in cleared => "PES" \in w.root[p] /\ "CCS" \in cleared /\ "CCS" \notin value
        /\ "PRS" \notin cleared
    BY DEF ChangeBits, TreeShape
  <1>2. PortSetStatus(w, p, value) = SetRoot(w, p, s)
    BY DEF PortSetStatus, SetIfConnected
  <1> HIDE DEF cleared
  <1>3. s = cleared \/ s = cleared \cup {"PSS"} \/ s = cleared \cup {"CSC"}
    BY DEF SetIfConnected
  <1> HIDE DEF s
  <1>4. ("PES" \in s => "PES" \in w.root[p] /\ "CCS" \in s) /\ "PRS" \notin s
    BY <1>1, <1>3
  <1>5. "PES" \in s => "CCS" \notin value
    BY <1>1, <1>3
  <1>6. OnlyRoots(w, SetRoot(w, p, s)) /\ SetRoot(w, p, s).root[p] = s
    BY <1>4, SetRootOnlyRoots
  <1> QED BY <1>2, <1>5, <1>6, OnlyRootsIsQuiet

\* A reset of a root port: its device is at address 0, and what was behind it does not listen.
LEMMA PortSetStatusResets ==
    ASSUME NEW w, TreeShape(w), NEW p \in Roots
    PROVE  LET v == PortSetStatus(w, p, {"PRS"})
           IN  /\ TreeShape(v) /\ RunsFall(w, v)
               /\ \A d \in Devices : Listens(v, d) => \/ d[1] # p /\ AsBefore(w, v, d)
                                                      \/ d = <<p>> /\ v.dev[d].addr = 0
  <1> DEFINE value == {"PRS"}
             bits == w.root[p]
             s == bits \cup {"PES", "PRSC"}
             u == DeviceReset(w, <<p>>)
             v == SetRoot(u, p, s)
  <1>1. CASE "CCS" \in bits
    <2>1. PortSetStatus(w, p, value) = v
      BY <1>1 DEF PortSetStatus, SetIfConnected, ChangeBits, TreeShape
    <2>2. /\ TreeShape(u) /\ u.root = w.root /\ RunsFall(w, u)
          /\ u.dev[<<p>>].attached
             => u.dev[<<p>>].addr = 0 /\ \A i \in 1..HubPorts : "ENABLE" \notin u.hub[p][i].status
          /\ \A e \in Devices : Listens(u, e) /\ e[1] # p => AsBefore(w, u, e)
      <3> DEFINE d == <<p>>
      <3>1. d \in Devices /\ IsHub(d) /\ d[1] = p
        BY HubNames
      <3> HIDE DEF d
      <3>2. /\ TreeShape(DeviceReset(w, d)) /\ DeviceReset(w, d).root = w.root
            /\ RunsFall(w, DeviceReset(w, d))
            /\ DeviceReset(w, d).dev[d].attached
               => /\ DeviceReset(w, d).dev[d].addr = 0
                  /\ IsHub(d) => \A i \in 1..HubPorts : "ENABLE" \notin DeviceReset(w, d).hub[d[1]][i].status
            /\ \A e \in Devices :
                  Listens(DeviceReset(w, d), e)
                  => IF e = d THEN DeviceReset(w, d).dev[e].addr = 0
                     ELSE AsBefore(w, DeviceReset(w, d), e) /\ (IsHub(d) => e[1] # d[1])
        BY <3>1, DeviceResetEffect
      <3> QED BY <3>1, <3>2 DEF d
    <2> HIDE DEF u
    <2> DEFINE x == [u EXCEPT !.root[p] = s]
    <2>3. /\ DOMAIN x = TreeFields /\ x.dev = u.dev /\ x.hub = u.hub /\ x.root = [u.root EXCEPT ![p] = s]
      BY <2>2 DEF TreeShape, TreeFields
    <2>4. v = u \/ v = x \/ v = SetInterrupt(x, "RHSC")
      BY DEF SetRoot
    <2> HIDE DEF x
    <2>5. /\ DOMAIN v = TreeFields /\ v.dev = u.dev /\ v.hub = u.hub /\ DOMAIN v.root = Roots
          /\ \A q \in Roots : /\ q # p => v.root[q] = u.root[q]
                              /\ v.root[p] = s \/ v.root[p] = u.root[p]
      BY <2>2, <2>3, <2>4 DEF SetInterrupt, TreeShape, TreeFields
    <2> HIDE DEF v
    <2>6. "CCS" \in s /\ "PRS" \notin s
      BY <1>1 DEF TreeShape
    <2>7. TreeShape(v) /\ RunsFall(w, v)
      BY <2>2, <2>5, <2>6 DEF TreeShape, RunsFall
    <2>8. ASSUME NEW d \in Devices, Listens(v, d), d[1] # p PROVE AsBefore(w, v, d)
      <3>1. d[1] \in Roots /\ d # <<p>>
        BY <2>8, DeviceNames
      <3>2. Listens(u, d)
        BY <2>5, <2>8, <3>1 DEF Listens
      <3> QED BY <2>2, <2>5, <2>8, <3>2 DEF AsBefore
    <2>9. ASSUME NEW d \in Devices, Listens(v, d), d[1] = p PROVE d = <<p>> /\ v.dev[d].addr = 0
      <3>1. u.dev[<<p>>].attached
        BY <2>5, <2>9 DEF Listens
      <3>2. u.dev[<<p>>].addr = 0 /\ \A i \in 1..HubPorts : "ENABLE" \notin u.hub[p][i].status
        BY <2>2, <3>1, HubNames
      <3>3. IsHub(d)
        <4> SUFFICES ASSUME ~IsHub(d) PROVE FALSE
          OBVIOUS
        <4>1. d[2] \in 1..HubPorts
          BY DeviceNames, HubPortNames
        <4>2. "ENABLE" \in v.hub[p][d[2]].status
          BY <2>9 DEF Listens
        <4> QED BY <2>5, <3>2, <4>1, <4>2
      <3> QED BY <2>5, <2>9, <3>2, <3>3, DeviceNames
    <2> QED BY <2>1, <2>7, <2>8, <2>9
  <1>2. CASE "CCS" \notin bits
    <2>1. PortSetStatus(w, p, value) = SetRoot(w, p, bits \cup {"CSC"})
      BY <1>2 DEF PortSetStatus, SetIfConnected, ChangeBits, TreeShape
    <2>2. "PES" \notin bits \cup {"CSC"} /\ "PRS" \notin bits \cup {"CSC"}
      BY <1>2 DEF TreeShape
    <2>3. /\ OnlyRoots(w, SetRoot(w, p, bits \cup {"CSC"}))
          /\ SetRoot(w, p, bits \cup {"CSC"}).root[p] = bits \cup {"CSC"}
      BY <2>2, SetRootOnlyRoots
    <2>4. Quiet(w, SetRoot(w, p, bits \cup {"CSC"}))
      BY <2>3, OnlyRootsIsQuiet
    <2> QED BY <2>1, <2>2, <2>3, <2>4 DEF Quiet, Listens
  <1> QED BY <1>1, <1>2

-----------------------------------------------------------------------------
(* The control endpoint: what a packet leaves of the device that takes it.  *)

\* v differs from w in the transfer of d.
Edited(w, v, d) == /\ OnlyDevice(w, v, d)
                   /\ v.dev[d].attached = w.dev[d].attached /\ v.dev[d].state = w.dev[d].state
                   /\ v.dev[d].addr = w.dev[d].addr /\ v.dev[d].plugged = w.dev[d].plugged /\ v.intr = w.intr

LEMMA EditedListens ==
    ASSUME NEW w, TreeShape(w), NEW d \in Devices, NEW v, Edited(w, v, d)
    PROVE  /\ TreeShape(v)
           /\ \A e \in Devices : /\ Listens(v, e) => Listens(w, e) /\ v.dev[e].addr = w.dev[e].addr
                                 /\ e # d => v.dev[e] = w.dev[e]
  <1>1. TreeShape(v)
    BY OnlyDeviceShape DEF Edited
  <1>2. \A e \in Devices : Listens(v, e) => Listens(w, e)
    BY OnlyDeviceListens DEF Edited
  <1> QED BY <1>1, <1>2 DEF Edited, OnlyDevice

LEMMA UneditedIsEdited ==
    ASSUME NEW w, TreeShape(w), NEW d \in Devices PROVE Edited(w, w, d)
  BY DEF Edited, OnlyDevice, TreeShape

LEMMA EditedTransitive ==
    ASSUME NEW u, NEW v, NEW w, NEW d \in Devices, Edited(u, v, d), Edited(v, w, d) PROVE Edited(u, w, d)
  BY DEF Edited, OnlyDevice

LEMMA DoneFields ==
    ASSUME NEW u, NEW s PROVE Done(u, s).tree = u /\ Done(u, s).status = s
  BY DEF Done

LEMMA SetupEdits ==
    ASSUME NEW w, TreeShape(w), NEW d \in Devices, NEW req, NEW size
    PROVE  LET r == DoTokenSetup(w, d, req, size)
           IN  /\ Edited(w, r.tree, d)
               /\ r.tree.dev[d].request \in {req, w.dev[d].request}
               /\ r.status = "ok" => /\ r.tree.dev[d].request = req
                                     /\ ~IsRead(req) /\ req.length = 0 => r.tree.dev[d].setup = "ack"
  <1> DEFINE s == [w.dev[d] EXCEPT !.request = req, !.length = req.length, !.index = 0, !.ran = 0]
             v == [w EXCEPT !.dev[d].request = req, !.dev[d].length = req.length, !.dev[d].index = 0,
                            !.dev[d].ran = 0]
             n == Reply(w, d, req)
             t1 == [s EXCEPT !.data = Filled(w, d, req), !.setup = "data", !.length = Min2(n, req.length)]
             t2 == [s EXCEPT !.setup = IF req.length = 0 THEN "ack" ELSE "data"]
             v1 == [v EXCEPT !.dev[d].data = Filled(w, d, req), !.dev[d].setup = "data",
                             !.dev[d].length = Min2(n, req.length)]
             v2 == [v EXCEPT !.dev[d].setup = IF req.length = 0 THEN "ack" ELSE "data"]
  <1>1. DOMAIN w = TreeFields /\ DOMAIN w.dev = Devices /\ DOMAIN w.dev[d] = DeviceFields
    BY DEF TreeShape
  <1>2. DOMAIN v = TreeFields /\ v.root = w.root /\ v.hub = w.hub /\ v.intr = w.intr /\ v.dev = [w.dev EXCEPT ![d] = s]
    BY <1>1 DEF TreeFields, DeviceFields
  <1>3. /\ DOMAIN s = DeviceFields /\ s.attached = w.dev[d].attached /\ s.state = w.dev[d].state
        /\ s.addr = w.dev[d].addr /\ s.plugged = w.dev[d].plugged /\ s.request = req
    BY <1>1 DEF DeviceFields
  <1> HIDE DEF s, n, v, v1, v2, t1, t2
  <1>4. Edited(w, v, d) /\ v.dev[d] = s /\ TreeShape(v)
    <2>1. Edited(w, v, d) /\ v.dev[d] = s
      BY <1>2, <1>3 DEF Edited, OnlyDevice, TreeShape
    <2> QED BY <2>1, EditedListens
  <1>5. /\ DOMAIN v1 = TreeFields /\ v1.root = v.root /\ v1.hub = v.hub /\ v1.intr = v.intr /\ v1.dev = [v.dev EXCEPT ![d] = t1]
        /\ DOMAIN v2 = TreeFields /\ v2.root = v.root /\ v2.hub = v.hub /\ v2.intr = v.intr /\ v2.dev = [v.dev EXCEPT ![d] = t2]
    <2>1. DOMAIN v = TreeFields /\ DOMAIN v.dev = Devices
      BY <1>4 DEF TreeShape
    <2> DEFINE new == Filled(w, d, req)
               length == Min2(n, req.length)
               stage == IF req.length = 0 THEN "ack" ELSE "data"
    <2> HIDE DEF new, length, stage
    <2>2. DOMAIN v1 = TreeFields /\ v1.root = v.root /\ v1.hub = v.hub /\ v1.intr = v.intr /\ v1.dev = [v.dev EXCEPT ![d] = t1]
      BY <1>3, <1>4, <2>1 DEF TreeFields, DeviceFields, new, length, v1, t1
    <2>3. DOMAIN v2 = TreeFields /\ v2.root = v.root /\ v2.hub = v.hub /\ v2.intr = v.intr /\ v2.dev = [v.dev EXCEPT ![d] = t2]
      BY <1>3, <1>4, <2>1 DEF TreeFields, DeviceFields, stage, v2, t2
    <2> QED BY <2>2, <2>3
  <1>6. /\ DOMAIN t1 = DeviceFields /\ t1.attached = s.attached /\ t1.state = s.state
        /\ t1.addr = s.addr /\ t1.plugged = s.plugged /\ t1.request = req
    BY <1>3 DEF DeviceFields, t1
  <1>7. /\ DOMAIN t2 = DeviceFields /\ t2.attached = s.attached /\ t2.state = s.state
        /\ t2.addr = s.addr /\ t2.plugged = s.plugged /\ t2.request = req /\ (req.length = 0 => t2.setup = "ack")
    BY <1>3 DEF DeviceFields, t2
  <1>8. DoTokenSetup(w, d, req, size) =
            IF size # 8 THEN Done(w, "stall")
            ELSE IF IsRead(req)
            THEN IF n = Refused THEN Done(v, "stall") ELSE Done(v1, "ok")
            ELSE IF req.length > DataSize THEN Done(v, "stall")
            ELSE Done(v2, "ok")
    BY DEF DoTokenSetup, v, n, v1, v2
  <1>9. /\ Edited(w, w, d) /\ Edited(w, v, d) /\ Edited(w, v1, d) /\ Edited(w, v2, d)
        /\ v.dev[d].request = req /\ v1.dev[d].request = req /\ v2.dev[d].request = req
        /\ req.length = 0 => v2.dev[d].setup = "ack"
    <2>1. Edited(v, v1, d) /\ Edited(v, v2, d) /\ v1.dev[d] = t1 /\ v2.dev[d] = t2
      BY <1>3, <1>4, <1>5, <1>6, <1>7 DEF Edited, OnlyDevice, TreeShape
    <2> QED BY <1>3, <1>4, <1>6, <1>7, <2>1, EditedTransitive, UneditedIsEdited
  <1> DEFINE r == DoTokenSetup(w, d, req, size)
  <1> HIDE DEF r
  <1>10. \/ r = Done(w, "stall") \/ r = Done(v, "stall")
         \/ IsRead(req) /\ r = Done(v1, "ok")
         \/ ~IsRead(req) /\ r = Done(v2, "ok")
    BY <1>8 DEF r
  <1>11. /\ Edited(w, r.tree, d) /\ r.tree.dev[d].request \in {req, w.dev[d].request}
         /\ r.status = "ok" => /\ r.tree.dev[d].request = req
                               /\ ~IsRead(req) /\ req.length = 0 => r.tree.dev[d].setup = "ack"
    BY <1>9, <1>10, DoneFields
  <1> QED BY <1>11 DEF r

LEMMA FinishEdits ==
    ASSUME NEW w, TreeShape(w), NEW d \in Devices
    PROVE  Edited(w, Finish(w, d), d) /\ Finish(w, d).dev[d].request = NoRequest
  <1> DEFINE s == [w.dev[d] EXCEPT !.setup = "idle", !.request = NoRequest, !.length = 0, !.index = 0,
                                   !.data = NewDevice.data]
  <1>1. DOMAIN w = TreeFields /\ DOMAIN w.dev = Devices /\ DOMAIN w.dev[d] = DeviceFields
    BY DEF TreeShape
  <1> DEFINE v == Finish(w, d)
  <1>2. DOMAIN v = TreeFields /\ v.root = w.root /\ v.hub = w.hub /\ v.intr = w.intr /\ v.dev = [w.dev EXCEPT ![d] = s]
    BY <1>1 DEF Finish, TreeFields
  <1>3. /\ DOMAIN s = DeviceFields /\ s.attached = w.dev[d].attached /\ s.state = w.dev[d].state
        /\ s.addr = w.dev[d].addr /\ s.plugged = w.dev[d].plugged /\ s.request = NoRequest
    BY <1>1 DEF DeviceFields
  <1> HIDE DEF s, v
  <1>4. Edited(w, v, d) /\ v.dev[d].request = NoRequest
    BY <1>2, <1>3 DEF Edited, OnlyDevice, TreeShape
  <1> QED BY <1>4 DEF v

LEMMA PieceEdits ==
    ASSUME NEW w, TreeShape(w), NEW d \in Devices, NEW n
    PROVE  Edited(w, Piece(w, d, n), d) /\ Piece(w, d, n).dev[d].request = w.dev[d].request
  <1> DEFINE s == [w.dev[d] EXCEPT !.index = @ + n,
                                   !.setup = IF w.dev[d].index + n >= w.dev[d].length THEN "ack" ELSE @]
  <1>1. DOMAIN w = TreeFields /\ DOMAIN w.dev = Devices /\ DOMAIN w.dev[d] = DeviceFields
    BY DEF TreeShape
  <1> DEFINE v == Piece(w, d, n)
  <1>2. DOMAIN v = TreeFields /\ v.root = w.root /\ v.hub = w.hub /\ v.intr = w.intr /\ v.dev = [w.dev EXCEPT ![d] = s]
    BY <1>1 DEF Piece, TreeFields
  <1>3. /\ DOMAIN s = DeviceFields /\ s.attached = w.dev[d].attached /\ s.state = w.dev[d].state
        /\ s.addr = w.dev[d].addr /\ s.plugged = w.dev[d].plugged /\ s.request = w.dev[d].request
    BY <1>1 DEF DeviceFields
  <1> HIDE DEF s, v
  <1>4. Edited(w, v, d) /\ v.dev[d].request = w.dev[d].request
    BY <1>2, <1>3 DEF Edited, OnlyDevice, TreeShape
  <1> QED BY <1>4 DEF v

LEMMA OutEdits ==
    ASSUME NEW w, TreeShape(w), NEW d \in Devices, NEW size
    PROVE  LET r == DoTokenOut(w, d, size)
           IN  Edited(w, r.tree, d) /\ r.tree.dev[d].request \in {NoRequest, w.dev[d].request}
  <1> DEFINE q == w.dev[d].request
             s == w.dev[d]
             u == Piece(w, d, Rest(s, size))
             x == [u EXCEPT !.dev[d].data = [of |-> q, connected |-> FALSE]]
             t == [u.dev[d] EXCEPT !.data = [of |-> q, connected |-> FALSE]]
             r == DoTokenOut(w, d, size)
  <1>1. Edited(w, u, d) /\ u.dev[d].request = q /\ TreeShape(u)
    BY PieceEdits, EditedListens
  <1>2. r \in {Done(Finish(w, d), "ok"), Done(w, "ok"), Done(x, "ok"), Done(Finish(w, d), "stall"), Done(w, "stall")}
    BY DEF DoTokenOut
  <1> HIDE DEF u, r, s
  <1>3. DOMAIN u = TreeFields /\ DOMAIN u.dev = Devices /\ DOMAIN u.dev[d] = DeviceFields
    BY <1>1 DEF TreeShape
  <1>4. DOMAIN x = TreeFields /\ x.root = u.root /\ x.hub = u.hub /\ x.intr = u.intr /\ x.dev = [u.dev EXCEPT ![d] = t]
    BY <1>3 DEF TreeFields
  <1>5. /\ DOMAIN t = DeviceFields /\ t.attached = u.dev[d].attached /\ t.state = u.dev[d].state
        /\ t.addr = u.dev[d].addr /\ t.plugged = u.dev[d].plugged /\ t.request = u.dev[d].request
    BY <1>3 DEF DeviceFields
  <1> HIDE DEF t, x
  <1>6. Edited(u, x, d) /\ x.dev[d].request = q
    BY <1>1, <1>3, <1>4, <1>5 DEF Edited, OnlyDevice, TreeShape
  <1>7. Edited(w, x, d)
    BY <1>1, <1>6, EditedTransitive
  <1>8. Edited(w, r.tree, d) /\ r.tree.dev[d].request \in {NoRequest, q}
    BY <1>2, <1>6, <1>7, FinishEdits, UneditedIsEdited, DoneFields
  <1> QED BY <1>8 DEF r

-----------------------------------------------------------------------------
(* What a control write does to the devices that listen.                    *)

Stays(w, v, d) == Listens(w, d) /\ v.dev[d].addr = w.dev[d].addr
\* Who listens in v did so in w at the same address, or is the device "new" after a reset.
Lets(w, v, new) ==
    /\ TreeShape(v) /\ SameRequests(w, v)
    /\ \A e \in Devices : Listens(v, e) => Stays(w, v, e) \/ (e = new /\ v.dev[e].addr = 0)

LEMMA QuietLets ==
    ASSUME NEW w, NEW v, NEW new, Quiet(w, v), SameRequests(w, v) PROVE Lets(w, v, new)
  BY DEF Quiet, AsBefore, Lets, Stays

LEMMA LetsThenQuiet ==
    ASSUME NEW u, NEW v, NEW w, NEW new, Lets(u, v, new), Quiet(v, w), SameRequests(v, w)
    PROVE  Lets(u, w, new)
  <1>1. SameRequests(u, w)
    BY DEF Lets, SameRequests
  <1> QED BY <1>1 DEF Quiet, AsBefore, Lets, Stays

LEMMA ClearPortFeatureEffect ==
    ASSUME NEW w, TreeShape(w), NEW p \in Roots, NEW req
    PROVE  LET r == ClearPortFeature(w, p, req)
           IN  /\ Quiet(w, r.tree) /\ SameRequests(w, r.tree)
               /\ req.index = GamepadPort /\ req.value = 1
                  => r.status = "ok" /\ ~Listens(r.tree, <<p, GamepadPort>>)
  <1> DEFINE i == req.index
             r == ClearPortFeature(w, p, req)
             cleared == [w.hub[p][i] EXCEPT !.status = @ \ {ClearedStatus[req.value]}]
             change == [w.hub[p][i] EXCEPT !.change = @ \ {ClearedChange[req.value]}]
             v1 == [w EXCEPT !.hub[p][i].status = @ \ {ClearedStatus[req.value]}]
             v2 == [w EXCEPT !.hub[p][i].change = @ \ {ClearedChange[req.value]}]
  <1>1. Quiet(w, w) /\ SameRequests(w, w)
    BY DEF Quiet, AsBefore, RunsFall, SameRequests
  <1>2. r \in {Done(w, "stall")} \/ (i \in 1..HubPorts /\ r = Done(v1, "ok")) \/ (i \in 1..HubPorts /\ r = Done(v2, "ok"))
    BY DEF ClearPortFeature
  <1>3. i = GamepadPort /\ req.value = 1 => i \in 1..HubPorts /\ r = Done(v1, "ok") /\ ClearedStatus[req.value] = "ENABLE"
    BY HubPortNames DEF ClearPortFeature, ClearedStatus
  <1>4. ASSUME i \in 1..HubPorts
        PROVE  /\ DOMAIN cleared = {"status", "change"} /\ DOMAIN change = {"status", "change"}
               /\ "ENABLE" \in cleared.status => "ENABLE" \in w.hub[p][i].status
               /\ ClearedStatus[req.value] = "ENABLE" => "ENABLE" \notin cleared.status
               /\ change.status = w.hub[p][i].status
               /\ DOMAIN v1 = TreeFields /\ v1.dev = w.dev /\ v1.root = w.root
               /\ v1.hub = [w.hub EXCEPT ![p] = [w.hub[p] EXCEPT ![i] = cleared]]
               /\ DOMAIN v2 = TreeFields /\ v2.dev = w.dev /\ v2.root = w.root
               /\ v2.hub = [w.hub EXCEPT ![p] = [w.hub[p] EXCEPT ![i] = change]]
    <2> DEFINE a == ClearedStatus[req.value]
               b == ClearedChange[req.value]
    <2> HIDE DEF a, b
    <2>1. DOMAIN w.hub[p][i] = {"status", "change"} /\ DOMAIN w = TreeFields
      BY <1>4 DEF TreeShape
    <2>2. /\ DOMAIN cleared = {"status", "change"} /\ DOMAIN change = {"status", "change"}
          /\ cleared.status = w.hub[p][i].status \ {a}
          /\ change.status = w.hub[p][i].status
      BY <2>1 DEF a, b
    <2>3. /\ DOMAIN v1 = TreeFields /\ v1.dev = w.dev /\ v1.root = w.root
          /\ v1.hub = [w.hub EXCEPT ![p] = [w.hub[p] EXCEPT ![i] = cleared]]
      BY <2>1 DEF TreeFields, a
    <2>4. /\ DOMAIN v2 = TreeFields /\ v2.dev = w.dev /\ v2.root = w.root
          /\ v2.hub = [w.hub EXCEPT ![p] = [w.hub[p] EXCEPT ![i] = change]]
      BY <2>1 DEF TreeFields, b
    <2> HIDE DEF cleared, change, v1, v2
    <2> QED BY <2>2, <2>3, <2>4 DEF a
  <1> HIDE DEF r, cleared, change, v1, v2
  <1>5. ASSUME i \in 1..HubPorts
        PROVE  /\ Quiet(w, v1) /\ SameRequests(w, v1) /\ v1.hub[p][i] = cleared
               /\ Quiet(w, v2) /\ SameRequests(w, v2)
    <2>0. /\ DOMAIN w.hub = Roots /\ DOMAIN w.hub[p] = 1..HubPorts
          /\ \A j \in 1..HubPorts : DOMAIN w.hub[p][j] = {"status", "change"}
      BY DEF TreeShape
    <2>1. OnlyHub(w, v1, p) /\ v1.hub[p][i] = cleared
      <3>1. /\ DOMAIN v1.hub = Roots /\ DOMAIN v1.hub[p] = 1..HubPorts
            /\ \A q \in Roots : q # p => v1.hub[q] = w.hub[q]
            /\ \A j \in 1..HubPorts : v1.hub[p][j] = IF j = i THEN cleared ELSE w.hub[p][j]
        BY <1>4, <1>5, <2>0
      <3> QED BY <1>4, <1>5, <2>0, <3>1 DEF OnlyHub
    <2>2. OnlyHub(w, v2, p)
      <3>1. /\ DOMAIN v2.hub = Roots /\ DOMAIN v2.hub[p] = 1..HubPorts
            /\ \A q \in Roots : q # p => v2.hub[q] = w.hub[q]
            /\ \A j \in 1..HubPorts : v2.hub[p][j] = IF j = i THEN change ELSE w.hub[p][j]
        BY <1>4, <1>5, <2>0
      <3> QED BY <1>4, <1>5, <2>0, <3>1 DEF OnlyHub
    <2> QED BY <1>4, <1>5, <2>1, <2>2, OnlyHubIsQuiet DEF SameRequests
  <1>6. i = GamepadPort /\ ClearedStatus[req.value] = "ENABLE" => ~Listens(v1, <<p, GamepadPort>>)
    BY <1>4, <1>5, HubPortNames, HubNames DEF Listens
  <1>7. /\ Quiet(w, r.tree) /\ SameRequests(w, r.tree)
        /\ i = GamepadPort /\ req.value = 1 => r.status = "ok" /\ ~Listens(r.tree, <<p, GamepadPort>>)
    BY <1>1, <1>2, <1>3, <1>5, <1>6, DoneFields
  <1> QED BY <1>7 DEF r

LEMMA ResetHubPortEffect ==
    ASSUME NEW w, TreeShape(w), NEW p \in Roots, NEW i
    PROVE  LET v == ResetHubPort(w, p, i)   pad == <<p, GamepadPort>>
           IN  /\ Lets(w, v, pad) /\ RunsFall(w, v)
               /\ i = GamepadPort /\ Listens(v, pad) => v.dev[pad].addr = 0
  <1> DEFINE pad == <<p, GamepadPort>>
             v == ResetHubPort(w, p, i)
             u == DeviceReset(w, pad)
             port == [status |-> u.hub[p][i].status \cup {"ENABLE"}, change |-> u.hub[p][i].change \cup {"RESET"}]
             x == [u EXCEPT !.hub[p][i] = port]
  <1>1. pad \in Devices /\ ~IsHub(pad) /\ pad[1] = p /\ pad[2] = GamepadPort
    BY HubNames
  <1>2. CASE i # GamepadPort \/ ~w.dev[pad].attached
    <2>1. v = w
      BY <1>2 DEF ResetHubPort
    <2>2. Lets(w, w, pad) /\ RunsFall(w, w)
      BY DEF Lets, Stays, SameRequests, RunsFall
    <2>3. i = GamepadPort => ~Listens(w, pad)
      BY <1>1, <1>2 DEF Listens
    <2> QED BY <2>1, <2>2, <2>3
  <1>3. CASE ~(i # GamepadPort \/ ~w.dev[pad].attached)
    <2>1. v = Wakeup(x, p)
      BY <1>3 DEF ResetHubPort
    <2> HIDE DEF pad
    <2>2. /\ TreeShape(u) /\ u.root = w.root /\ SameRequests(w, u) /\ RunsFall(w, u)
          /\ u.dev[pad].attached => u.dev[pad].addr = 0
          /\ \A e \in Devices :
                Listens(u, e) => IF e = pad THEN u.dev[e].addr = 0 ELSE AsBefore(w, u, e)
          /\ u.dev[pad].attached
      BY <1>1, <1>3, DeviceResetEffect
    <2> HIDE DEF u, v, port
    <2>3. /\ DOMAIN x = TreeFields /\ x.dev = u.dev /\ x.root = u.root
          /\ x.hub = [u.hub EXCEPT ![p] = [u.hub[p] EXCEPT ![i] = port]]
      BY <2>2 DEF TreeShape, TreeFields
    <2> HIDE DEF x
    <2>4. i = GamepadPort /\ i \in 1..HubPorts /\ DOMAIN port = {"status", "change"}
      BY <1>3, HubPortNames DEF port
    <2>5. TreeShape(x)
      BY <2>2, <2>3, <2>4 DEF TreeShape
    <2>6. SameRequests(w, x) /\ x.dev[pad].addr = 0
      BY <2>2, <2>3 DEF SameRequests
    <2>7. ASSUME NEW e \in Devices, Listens(x, e), e # pad PROVE Stays(w, x, e)
      <3>1. e[1] \in Roots
        BY DeviceNames
      <3>2. ~IsHub(e) => e[1] # p
        BY <2>7, DeviceNames DEF pad
      <3>3. x.hub[e[1]] = u.hub[e[1]] \/ IsHub(e)
        BY <2>2, <2>3, <3>1, <3>2 DEF TreeShape
      <3>4. Listens(u, e)
        BY <2>3, <2>7, <3>3 DEF Listens
      <3> QED BY <2>2, <2>3, <2>7, <3>4 DEF AsBefore, Stays
    <2>8. Lets(w, x, pad)
      BY <2>5, <2>6, <2>7 DEF Lets
    <2>9. OnlyRoots(x, v)
      BY <2>1, <2>5, WakeupOnlyRoots
    <2>10. Quiet(x, v) /\ SameRequests(x, v) /\ v.dev = x.dev
      BY <2>5, <2>9, OnlyRootsIsQuiet DEF OnlyRoots, SameRequests
    <2>11. Lets(w, v, pad) /\ (i = GamepadPort /\ Listens(v, pad) => v.dev[pad].addr = 0)
      BY <2>6, <2>8, <2>10, LetsThenQuiet
    <2>12. RunsFall(w, v)
      BY <2>2, <2>3, <2>10 DEF RunsFall
    <2> QED BY <2>11, <2>12 DEF pad, v
  <1> QED BY <1>2, <1>3

LEMMA SetPortFeatureEffect ==
    ASSUME NEW w, TreeShape(w), NEW p \in Roots, NEW req
    PROVE  LET r == SetPortFeature(w, p, req)   pad == <<p, GamepadPort>>
           IN  /\ Lets(w, r.tree, pad) /\ RunsFall(w, r.tree)
               /\ req.index = GamepadPort /\ req.value = 4
                  => r.status = "ok" /\ (Listens(r.tree, pad) => r.tree.dev[pad].addr = 0)
  <1> DEFINE i == req.index
             r == SetPortFeature(w, p, req)
             pad == <<p, GamepadPort>>
             port == [w.hub[p][i] EXCEPT !.status = @ \cup {"SUSPEND"}]
             v == [w EXCEPT !.hub[p][i].status = @ \cup {"SUSPEND"}]
             x == ResetHubPort(w, p, i)
  <1>1. \/ r = Done(w, "stall") \/ r = Done(w, "ok")
        \/ i \in 1..HubPorts /\ r = Done(v, "ok")
        \/ r = Done(x, "ok")
    BY DEF SetPortFeature
  <1>2. i = GamepadPort /\ req.value = 4 => r = Done(x, "ok")
    BY HubPortNames DEF SetPortFeature
  <1>3. /\ Lets(w, x, pad) /\ RunsFall(w, x)
        /\ i = GamepadPort /\ Listens(x, pad) => x.dev[pad].addr = 0
    BY ResetHubPortEffect
  <1>4. Lets(w, w, pad) /\ RunsFall(w, w)
    BY DEF Lets, Stays, SameRequests, RunsFall
  <1>5. ASSUME i \in 1..HubPorts PROVE Lets(w, v, pad) /\ RunsFall(w, v)
    <2>1. DOMAIN w.hub[p][i] = {"status", "change"} /\ DOMAIN w = TreeFields
      BY <1>5 DEF TreeShape
    <2>2. DOMAIN port = {"status", "change"} /\ ("ENABLE" \in port.status => "ENABLE" \in w.hub[p][i].status)
      BY <2>1
    <2>3. /\ DOMAIN v = TreeFields /\ v.dev = w.dev /\ v.root = w.root
          /\ v.hub = [w.hub EXCEPT ![p] = [w.hub[p] EXCEPT ![i] = port]]
      BY <2>1 DEF TreeFields
    <2> HIDE DEF v, port
    <2>4. OnlyHub(w, v, p) /\ SameRequests(w, v)
      BY <1>5, <2>2, <2>3 DEF OnlyHub, TreeShape, SameRequests
    <2> QED BY <2>4, OnlyHubIsQuiet, QuietLets DEF Quiet
  <1> HIDE DEF r, v, x, pad
  <1>6. /\ Lets(w, r.tree, pad) /\ RunsFall(w, r.tree)
        /\ i = GamepadPort /\ req.value = 4
           => r.status = "ok" /\ (Listens(r.tree, pad) => r.tree.dev[pad].addr = 0)
    BY <1>1, <1>2, <1>3, <1>4, <1>5, DoneFields
  <1> QED BY <1>6 DEF r, pad

LEMMA LetsTransitive ==
    ASSUME NEW u, NEW v, NEW w, NEW new, Lets(u, v, new), Lets(v, w, new) PROVE Lets(u, w, new)
  BY DEF Lets, Stays, SameRequests

LEMMA EditedLets ==
    ASSUME NEW w, TreeShape(w), NEW d \in Devices, NEW v, Edited(w, v, d),
           v.dev[d].request = w.dev[d].request, NEW new
    PROVE  Lets(w, v, new)
  <1>1. SameRequests(w, v)
    BY DEF Edited, OnlyDevice, SameRequests
  <1> QED BY <1>1, EditedListens DEF Lets, Stays

\* What a control write with the request q does to the devices when d takes it.
Obeyed(w, r, d, q) ==
    LET pad == <<d[1], GamepadPort>>
    IN  /\ TreeShape(r.tree)
        /\ q.name = "SetAddress"
           => /\ r.status = "ok" /\ r.tree.dev[d].addr = q.value % 256
              /\ \A e \in Devices : Listens(r.tree, e)
                    => Listens(w, e) /\ (e # d => r.tree.dev[e].addr = w.dev[e].addr)
        /\ q.name # "SetAddress" =>
              \A e \in Devices : Listens(r.tree, e)
                 => \/ Stays(w, r.tree, e)
                    \/ q.name = "SetPortFeature" /\ e = pad /\ r.tree.dev[e].addr = 0
        /\ q.name = "SetPortFeature" /\ q.index = GamepadPort /\ q.value = 4 /\ IsHub(d)
           => r.status = "ok" /\ (Listens(r.tree, pad) => r.tree.dev[pad].addr = 0)
        /\ q.name = "ClearPortFeature" /\ q.index = GamepadPort /\ q.value = 1 /\ IsHub(d)
           => r.status = "ok" /\ ~Listens(r.tree, pad)

LEMMA HandleWriteEffect ==
    ASSUME NEW w, TreeShape(w), NEW d \in Devices, NEW q
    PROVE  Obeyed(w, HandleWrite(w, d, q), d, q) /\ SameRequests(w, HandleWrite(w, d, q).tree)
  <1> DEFINE v == [w EXCEPT !.dev[d].ran = @ + 1]
             s == [w.dev[d] EXCEPT !.ran = @ + 1]
             r == HandleWrite(w, d, q)
             pad == <<d[1], GamepadPort>>
  <1>1. DOMAIN v = TreeFields /\ v.root = w.root /\ v.hub = w.hub /\ v.intr = w.intr /\ v.dev = [w.dev EXCEPT ![d] = s]
    BY DEF TreeShape, TreeFields
  <1>2. /\ DOMAIN s = DeviceFields /\ s.attached = w.dev[d].attached /\ s.state = w.dev[d].state
        /\ s.addr = w.dev[d].addr /\ s.plugged = w.dev[d].plugged /\ s.request = w.dev[d].request
    BY DEF TreeShape, DeviceFields
  <1>3. /\ q.name = "SetAddress" => r = SetAddress(v, d, q)
        /\ q.name = "SetConfiguration" => r = SetConfiguration(v, d, q)
        /\ q.name \in {"SetFeature", "ClearFeature"} => r = RemoteWakeup(v, d, q)
        /\ q.name = "SetPortFeature" /\ IsHub(d) => r = SetPortFeature(v, d[1], q)
        /\ q.name = "ClearPortFeature" /\ IsHub(d) => r = ClearPortFeature(v, d[1], q)
    BY DEF HandleWrite
  <1>4. \/ q.name \in {"SetAddress", "SetConfiguration", "SetFeature", "ClearFeature"}
        \/ q.name \in {"SetPortFeature", "ClearPortFeature"} /\ IsHub(d)
        \/ r.tree = v
    <2>1. \/ q.name \in {"SetAddress", "SetConfiguration", "SetFeature", "ClearFeature"}
          \/ q.name \in {"SetPortFeature", "ClearPortFeature"} /\ IsHub(d)
          \/ r = SetInterface(v, d, q) \/ r = ClearEndpointFeature(v, d, q) \/ r = HubFeature(v, q)
          \/ r = SetReport(v, q) \/ r = Done(v, "stall")
      BY DEF HandleWrite
    <2> HIDE DEF v, r
    <2>2. /\ SetInterface(v, d, q).tree = v /\ ClearEndpointFeature(v, d, q).tree = v
          /\ HubFeature(v, q).tree = v /\ SetReport(v, q).tree = v /\ Done(v, "stall").tree = v
      BY DoneFields DEF SetInterface, ClearEndpointFeature, HubFeature, SetReport
    <2> QED BY <2>1, <2>2
  <1> HIDE DEF s, v, r
  <1>5. Edited(w, v, d) /\ v.dev[d] = s
    BY <1>1, <1>2 DEF Edited, OnlyDevice, TreeShape
  <1>6. TreeShape(v) /\ Lets(w, v, pad) /\ SameRequests(w, v)
    <2>1. v.dev[d].request = w.dev[d].request
      BY <1>2, <1>5
    <2> HIDE DEF pad
    <2>2. Lets(w, v, pad)
      BY <1>5, <2>1, EditedLets
    <2> QED BY <2>2 DEF Lets
  <1>7. DOMAIN v = TreeFields /\ DOMAIN v.dev = Devices /\ DOMAIN v.dev[d] = DeviceFields
    BY <1>6 DEF TreeShape
  <1>8. CASE q.name = "SetAddress"
    <2> DEFINE x == [v EXCEPT !.dev[d].addr = q.value % 256]
               a == q.value % 256
               t == [v.dev[d] EXCEPT !.addr = a]
    <2>1. r = Done(x, "ok")
      BY <1>3, <1>8 DEF SetAddress
    <2> HIDE DEF a
    <2>2. DOMAIN x = TreeFields /\ x.root = v.root /\ x.hub = v.hub /\ x.intr = v.intr /\ x.dev = [v.dev EXCEPT ![d] = t]
      BY <1>7 DEF TreeFields, a
    <2>3. /\ DOMAIN t = DeviceFields /\ t.attached = v.dev[d].attached /\ t.state = v.dev[d].state
          /\ t.addr = a /\ t.request = v.dev[d].request
      BY <1>7 DEF DeviceFields
    <2> HIDE DEF x, t
    <2>4. OnlyDevice(v, x, d) /\ x.dev[d] = t
      BY <1>7, <2>2, <2>3 DEF OnlyDevice
    <2>5. TreeShape(x) /\ \A e \in Devices : Listens(x, e) => Listens(v, e) /\ (e # d => x.dev[e] = v.dev[e])
      BY <1>6, <2>3, <2>4, OnlyDeviceShape, OnlyDeviceListens DEF OnlyDevice
    <2>6. SameRequests(v, x)
      BY <2>3, <2>4 DEF OnlyDevice, SameRequests
    <2>7. \A e \in Devices : Listens(v, e) => Listens(w, e) /\ v.dev[e].addr = w.dev[e].addr
      BY <1>5, EditedListens
    <2>8. r.tree = x /\ r.status = "ok" /\ SameRequests(w, x) /\ x.dev[d].addr = a
      BY <1>6, <2>1, <2>3, <2>4, <2>6, DoneFields DEF SameRequests
    <2>9. \A e \in Devices : Listens(x, e) => Listens(w, e) /\ (e # d => x.dev[e].addr = w.dev[e].addr)
      BY <2>5, <2>7
    <2> QED BY <1>8, <2>5, <2>8, <2>9 DEF Obeyed, a, r
  <1>9. CASE q.name = "SetPortFeature" /\ IsHub(d)
    <2> DEFINE p == d[1]
    <2>1. r = SetPortFeature(v, p, q) /\ p \in Roots
      BY <1>3, <1>9, DeviceNames
    <2> HIDE DEF p
    <2>2. /\ Lets(v, r.tree, <<p, GamepadPort>>)
          /\ q.index = GamepadPort /\ q.value = 4
             => /\ r.status = "ok"
                /\ Listens(r.tree, <<p, GamepadPort>>) => r.tree.dev[<<p, GamepadPort>>].addr = 0
      BY <1>6, <2>1, SetPortFeatureEffect
    <2>3. Lets(w, r.tree, pad)
      BY <1>6, <2>2, LetsTransitive DEF p
    <2> QED BY <1>9, <2>2, <2>3 DEF Obeyed, Lets, p, r
  <1>10. CASE q.name = "ClearPortFeature" /\ IsHub(d)
    <2> DEFINE p == d[1]
    <2>1. r = ClearPortFeature(v, p, q) /\ p \in Roots
      BY <1>3, <1>10, DeviceNames
    <2> HIDE DEF p
    <2>2. /\ Quiet(v, r.tree) /\ SameRequests(v, r.tree)
          /\ q.index = GamepadPort /\ q.value = 1
             => r.status = "ok" /\ ~Listens(r.tree, <<p, GamepadPort>>)
      BY <1>6, <2>1, ClearPortFeatureEffect
    <2>3. Lets(w, r.tree, NoDevice)
      BY <1>2, <1>5, <2>2, EditedLets, LetsThenQuiet
    <2>4. \A e \in Devices : e # NoDevice
      BY DeviceNames
    <2> QED BY <1>10, <2>2, <2>3, <2>4 DEF Obeyed, Lets, p, r
  <1>11. CASE q.name \notin {"SetAddress", "SetPortFeature", "ClearPortFeature"} \/ (~IsHub(d) /\ q.name # "SetAddress")
    <2>1. Edited(v, r.tree, d) /\ r.tree.dev[d].request = v.dev[d].request
      <3> DEFINE c == [v EXCEPT !.dev[d].configuration = q.value]
                 ct == [v.dev[d] EXCEPT !.configuration = q.value]
                 b == q.name = "SetFeature"
                 k == [v EXCEPT !.dev[d].wakeup = b]
                 kt == [v.dev[d] EXCEPT !.wakeup = b]
      <3>1. r.tree = v \/ r.tree = c \/ r.tree = k
        BY <1>3, <1>4, <1>11, DoneFields DEF SetConfiguration, RemoteWakeup
      <3> HIDE DEF b
      <3>2. /\ DOMAIN c = TreeFields /\ c.root = v.root /\ c.hub = v.hub /\ c.intr = v.intr /\ c.dev = [v.dev EXCEPT ![d] = ct]
            /\ DOMAIN k = TreeFields /\ k.root = v.root /\ k.hub = v.hub /\ k.intr = v.intr /\ k.dev = [v.dev EXCEPT ![d] = kt]
        BY <1>7 DEF TreeFields
      <3>3. /\ DOMAIN ct = DeviceFields /\ ct.attached = v.dev[d].attached /\ ct.state = v.dev[d].state
            /\ ct.addr = v.dev[d].addr /\ ct.plugged = v.dev[d].plugged /\ ct.request = v.dev[d].request
            /\ DOMAIN kt = DeviceFields /\ kt.attached = v.dev[d].attached /\ kt.state = v.dev[d].state
            /\ kt.addr = v.dev[d].addr /\ kt.plugged = v.dev[d].plugged /\ kt.request = v.dev[d].request
        BY <1>7 DEF DeviceFields
      <3> HIDE DEF c, ct, k, kt
      <3>4. Edited(v, c, d) /\ c.dev[d].request = v.dev[d].request
        BY <1>7, <3>2, <3>3 DEF Edited, OnlyDevice
      <3>5. Edited(v, k, d) /\ k.dev[d].request = v.dev[d].request
        BY <1>7, <3>2, <3>3 DEF Edited, OnlyDevice
      <3> QED BY <1>6, <3>1, <3>4, <3>5, UneditedIsEdited
    <2>2. Lets(w, r.tree, NoDevice)
      BY <1>2, <1>5, <1>6, <2>1, EditedLets, LetsTransitive
    <2>3. \A e \in Devices : e # NoDevice
      BY DeviceNames
    <2> QED BY <1>11, <2>2, <2>3 DEF Obeyed, Lets, r
  <1> QED BY <1>8, <1>9, <1>10, <1>11

LEMMA ObeyedThenEdited ==
    ASSUME NEW w, NEW r, NEW d \in Devices, NEW q, Obeyed(w, r, d, q), NEW v, Edited(r.tree, v, d), NEW x,
           x.tree = v, x.status = r.status
    PROVE  Obeyed(w, x, d, q)
  <1> DEFINE pad == <<d[1], GamepadPort>>
  <1>1. pad \in Devices
    BY DeviceNames, HubNames
  <1>2. TreeShape(v) /\ \A e \in Devices : Listens(v, e) => Listens(r.tree, e) /\ v.dev[e].addr = r.tree.dev[e].addr
    BY EditedListens DEF Obeyed
  <1>3. v.dev[d].addr = r.tree.dev[d].addr
    BY DEF Edited
  <1> QED BY <1>1, <1>2, <1>3 DEF Obeyed, Stays

Requests(w, v, allowed) == \A e \in Devices : v.dev[e].request = w.dev[e].request \/ v.dev[e].request \in allowed

LEMMA EditedRequests ==
    ASSUME NEW w, NEW v, NEW d \in Devices, Edited(w, v, d), NEW allowed, 
           v.dev[d].request \in allowed \cup {w.dev[d].request}
    PROVE  Requests(w, v, allowed)
  BY DEF Edited, OnlyDevice, Requests

LEMMA InEffect ==
    ASSUME NEW w, TreeShape(w), NEW d \in Devices, NEW size
    PROVE  LET r == DoTokenIn(w, d, size)   q == w.dev[d].request
           IN  /\ Requests(w, r.tree, {NoRequest})
               /\ IsRead(q) => Edited(w, r.tree, d) /\ r.tree.dev[d].request = q
               /\ ~IsRead(q) /\ w.dev[d].setup = "ack" => Obeyed(w, r, d, q)
               /\ Obeyed(w, r, d, q) \/ Edited(w, r.tree, d)
  <1> DEFINE q == w.dev[d].request
             r == DoTokenIn(w, d, size)
             s == w.dev[d]
             u == Piece(w, d, Rest(s, size))
             written == HandleWrite(w, d, q)
             x == Done(Finish(written.tree, d), written.status)
  <1>1. /\ s.setup = "ack" /\ ~IsRead(q) => r = x
        /\ ~(s.setup = "ack" /\ ~IsRead(q)) =>
              \/ r = Done(w, "ok")
              \/ r = Done(w, "stall")
              \/ r.tree = u /\ IsRead(q)
              \/ r = Done(Finish(w, d), "stall") /\ ~IsRead(q)
    <2> HIDE DEF u, written
    <2>1. Sent(u, d, Rest(s, size), s.index).tree = u
      BY DEF Sent
    <2>2. r = CASE s.setup = "ack" /\ ~IsRead(q) -> x
                [] s.setup = "ack" /\ IsRead(q) -> Done(w, "ok")
                [] s.setup = "data" /\ IsRead(q) -> Sent(u, d, Rest(s, size), s.index)
                [] s.setup = "data" /\ ~IsRead(q) -> Done(Finish(w, d), "stall")
                [] OTHER -> Done(w, "stall")
      BY DEF DoTokenIn, u, written
    <2> HIDE DEF r, x, s
    <2> QED BY <2>1, <2>2
  <1> HIDE DEF r, u
  <1>2. Obeyed(w, written, d, q) /\ SameRequests(w, written.tree) /\ TreeShape(written.tree)
    <2> HIDE DEF q
    <2>1. Obeyed(w, written, d, q) /\ SameRequests(w, written.tree)
      BY HandleWriteEffect
    <2> HIDE DEF written
    <2> QED BY <2>1 DEF Obeyed
  <1> HIDE DEF written
  <1>3. Edited(written.tree, Finish(written.tree, d), d) /\ Finish(written.tree, d).dev[d].request = NoRequest
    BY <1>2, FinishEdits
  <1>4. Obeyed(w, x, d, q)
    BY <1>2, <1>3, ObeyedThenEdited, DoneFields
  <1>5. Requests(w, x.tree, {NoRequest})
    <2>1. Requests(written.tree, Finish(written.tree, d), {NoRequest})
      BY <1>3, EditedRequests
    <2> QED BY <1>2, <2>1, DoneFields DEF SameRequests, Requests
  <1>6. Edited(w, u, d) /\ u.dev[d].request = q
    BY PieceEdits DEF u
  <1>7. Edited(w, Finish(w, d), d) /\ Finish(w, d).dev[d].request = NoRequest
    BY FinishEdits
  <1>8. Edited(w, w, d)
    BY UneditedIsEdited
  <1>9. /\ Requests(w, u, {NoRequest}) /\ Requests(w, w, {NoRequest})
        /\ Requests(w, Finish(w, d), {NoRequest})
    BY <1>6, <1>7, <1>8, EditedRequests
  <1> HIDE DEF x, s
  <1>10. CASE s.setup = "ack" /\ ~IsRead(q)
    <2>1. r = x
      BY <1>1, <1>10
    <2> QED BY <1>4, <1>5, <1>10, <2>1 DEF r
  <1>11. CASE ~(s.setup = "ack" /\ ~IsRead(q))
    <2>1. /\ Edited(w, r.tree, d) /\ Requests(w, r.tree, {NoRequest})
          /\ IsRead(q) => r.tree.dev[d].request = q
      BY <1>1, <1>6, <1>7, <1>8, <1>9, <1>11, DoneFields
    <2> QED BY <1>11, <2>1 DEF r, s
  <1> QED BY <1>10, <1>11

\* A packet finds nobody, or a device that listens at its address takes it.
LEMMA PacketReceiver ==
    ASSUME NEW w, NEW packet, packet.pid \in {"setup", "in", "out"}
    PROVE  LET r == HandlePacket(w, packet)
           IN  \/ /\ r.tree = w /\ r.status = "nodev"
                  /\ \A d \in Devices : ~(Listens(w, d) /\ w.dev[d].addr = packet.to)
               \/ \E d \in Devices :
                     /\ Listens(w, d) /\ w.dev[d].addr = packet.to
                     /\ \/ packet.ep # 0 /\ r.tree = w
                        \/ packet.ep = 0 /\ packet.pid = "setup" /\ r = DoTokenSetup(w, d, packet.request, packet.size)
                        \/ packet.ep = 0 /\ packet.pid = "in" /\ r = DoTokenIn(w, d, packet.size)
                        \/ packet.ep = 0 /\ packet.pid = "out" /\ r = DoTokenOut(w, d, packet.size)
  <1> DEFINE hit == FindDevice(w, packet.to)
             d == CHOOSE x \in hit : TRUE
             r == HandlePacket(w, packet)
  <1>1. CASE hit = {}
    <2>1. r = Done(w, "nodev")
      BY <1>1 DEF HandlePacket
    <2>2. \A e \in Devices : ~(Listens(w, e) /\ w.dev[e].addr = packet.to)
      BY <1>1, SearchFindsListeners
    <2> HIDE DEF r
    <2>3. r.tree = w /\ r.status = "nodev"
      BY <2>1, DoneFields
    <2> QED BY <2>2, <2>3 DEF r
  <1>2. CASE hit # {}
    <2>1. d \in hit
      BY <1>2
    <2>2. /\ packet.ep # 0 => r = HandleData(w, d, packet.pid, packet.ep, packet.size)
          /\ packet.ep = 0 =>
                /\ packet.pid = "setup" => r = DoTokenSetup(w, d, packet.request, packet.size)
                /\ packet.pid = "in" => r = DoTokenIn(w, d, packet.size)
                /\ packet.pid = "out" => r = DoTokenOut(w, d, packet.size)
      BY <1>2 DEF HandlePacket
    <2>3. HandleData(w, d, packet.pid, packet.ep, packet.size).tree = w
      <3> HIDE DEF d
      <3>1. \A n : [Done(w, "ok") EXCEPT !.count = n].tree = w
        BY DEF Done
      <3> QED BY <3>1, DoneFields DEF HandleData
    <2> HIDE DEF hit, d, r
    <2>4. d \in Devices /\ Listens(w, d) /\ w.dev[d].addr = packet.to
      BY <2>1, SearchFindsListeners DEF hit
    <2>5. \/ packet.ep # 0 /\ r.tree = w
          \/ packet.ep = 0 /\ packet.pid = "setup" /\ r = DoTokenSetup(w, d, packet.request, packet.size)
          \/ packet.ep = 0 /\ packet.pid = "in" /\ r = DoTokenIn(w, d, packet.size)
          \/ packet.ep = 0 /\ packet.pid = "out" /\ r = DoTokenOut(w, d, packet.size)
      BY <2>2, <2>3
    <2> QED BY <2>4, <2>5 DEF r
  <1> QED BY <1>1, <1>2

-----------------------------------------------------------------------------
(* The invariant gives the property, and holds at first.                    *)

LEMMA PacketsFindFromInv == UsbInv => PacketsFind
  <1> SUFFICES ASSUME UsbInv PROVE PacketsFind
    OBVIOUS
  <1> USE DEF UsbInv
  <1>1. \A a \in Addresses : a \in Nat /\ a # 0
    <2>1. Addresses \subseteq 1..127
      BY UsbAssumption
    <2> QED BY <2>1
  <1>2. AddressNamesItsDevice
    <2> SUFFICES ASSUME NEW a \in Addresses, NEW d \in FindDevice(usb, a) PROVE d = given[a]
      BY DEF AddressNamesItsDevice
    <2>1. d \in Devices /\ Listens(usb, d) /\ usb.dev[d].addr = a
      BY SearchFindsListeners
    <2> QED BY <1>1, <2>1 DEF PlacedInv, Placed
  <1>3. OneUnaddressed
    <2> SUFFICES ASSUME Enumerates, NEW d \in FindDevice(usb, 0) PROVE d = pending
      BY DEF OneUnaddressed
    <2>1. d \in Devices /\ Listens(usb, d) /\ usb.dev[d].addr = 0
      BY SearchFindsListeners
    <2> QED BY <1>1, <2>1 DEF PlacedInv, Placed
  <1>4. NoSharedAddress
    <2> SUFFICES ASSUME NEW d \in Devices, NEW e \in Devices, Listens(usb, d), Listens(usb, e),
                        usb.dev[d].addr = usb.dev[e].addr, Enumerates \/ usb.dev[d].addr # 0
                 PROVE  d = e
      BY DEF NoSharedAddress
    <2>1. Placed(d) /\ Placed(e)
      BY DEF PlacedInv
    <2> QED BY <1>1, <2>1 DEF Placed
  <1> QED BY <1>2, <1>3, <1>4 DEF PacketsFind

LEMMA UsbInitInv == UsbInit => UsbInv
  <1> SUFFICES ASSUME UsbInit PROVE UsbInv
    OBVIOUS
  <1> USE DEF UsbInit
  <1>1. transfer.stage = "none" /\ Transfers(transfer)
    BY DEF NoTransfer, Transfers
  <1>2. /\ DOMAIN scan = {"left", "at", "step", "seen"} /\ scan.left = {} /\ scan.seen = {}
        /\ scan.step = "none"
    BY DEF NoScan
  <1>3. TransferInv
    BY <1>1 DEF TransferInv
  <1>4. CASE Enumerates
    <2>1. usb = EmptyTree /\ given = [a \in Addresses |-> NoDevice] /\ pending = NoDevice
      BY <1>4
    <2>2. DOMAIN NewDevice = DeviceFields /\ DOMAIN NoPort = {"status", "change"} /\ ~NewDevice.attached
      BY DEF NewDevice, DeviceFields, NoPort
    <2>3. TreeShape(usb) /\ \A p \in Roots : usb.root[p] = {}
      <3>1. DOMAIN EmptyTree = TreeFields
        BY DEF EmptyTree, TreeFields
      <3>2. EmptyTree.dev = [d \in Devices |-> NewDevice] /\ EmptyTree.root = [p \in Roots |-> {}]
        BY DEF EmptyTree
      <3>3. EmptyTree.hub = [p \in Roots |-> [i \in 1..HubPorts |-> NoPort]]
        BY DEF EmptyTree
      <3>4. DOMAIN usb = TreeFields /\ DOMAIN usb.dev = Devices /\ DOMAIN usb.root = Roots /\ DOMAIN usb.hub = Roots
        BY <2>1, <3>1, <3>2, <3>3
      <3>5. \A d \in Devices : DOMAIN usb.dev[d] = DeviceFields
        BY <2>1, <2>2, <3>2
      <3>6. \A p \in Roots : usb.root[p] = {}
        BY <2>1, <3>2
      <3>7. \A p \in Roots : /\ DOMAIN usb.hub[p] = 1..HubPorts
                            /\ \A i \in 1..HubPorts : DOMAIN usb.hub[p][i] = {"status", "change"}
        <4> SUFFICES ASSUME NEW p \in Roots
                     PROVE  /\ DOMAIN usb.hub[p] = 1..HubPorts
                            /\ \A i \in 1..HubPorts : DOMAIN usb.hub[p][i] = {"status", "change"}
          OBVIOUS
        <4> DEFINE ports == [i \in 1..HubPorts |-> NoPort]
        <4>1. DOMAIN ports = 1..HubPorts /\ \A i \in 1..HubPorts : ports[i] = NoPort
          OBVIOUS
        <4>2. EmptyTree.hub = [q \in Roots |-> ports]
          BY <3>3
        <4> HIDE DEF ports
        <4>3. usb.hub[p] = ports
          BY <2>1, <4>2
        <4> QED BY <2>2, <4>1, <4>3
      <3> QED BY <3>4, <3>5, <3>6, <3>7 DEF TreeShape
    <2>4. PlacedInv
      BY <2>3, DeviceNames DEF PlacedInv, Listens
    <2>5. AddressesInv /\ ControlInv
      BY <1>4, <2>1 DEF AddressesInv, ControlInv
    <2>6. UsbTypes
      BY <1>1, <1>2, <2>1 DEF UsbTypes
    <2> QED BY <1>3, <2>3, <2>4, <2>5, <2>6 DEF UsbInv
  <1>5. CASE ~Enumerates
    <2> DEFINE w == Enumerated.tree
               g == Enumerated.given
    <2>1. usb = w /\ given = g /\ pending = NoDevice
      BY <1>5
    <2>2. DOMAIN NewDevice = DeviceFields /\ DOMAIN NoPort = {"status", "change"} /\ DOMAIN EmptyTree = TreeFields
      BY DEF NewDevice, DeviceFields, NoPort, EmptyTree, TreeFields
    <2>3. TreeShape(w)
      BY <2>2, EnumeratedAssumption DEF TreeShape
    <2>4. /\ DOMAIN g = Addresses /\ \A a \in Addresses : g[a] \in Devices \cup {NoDevice}
          /\ \A d \in Devices : /\ w.dev[d].request = NoRequest
                                /\ Listens(w, d) => w.dev[d].addr \in Addresses /\ g[w.dev[d].addr] = d
      BY EnumeratedAssumption
    <2> HIDE DEF w, g
    <2>5. PlacedInv
      BY <2>1, <2>4 DEF PlacedInv, Placed
    <2>6. AddressesInv /\ ControlInv
      BY <1>5, <2>1, <2>4 DEF AddressesInv, ControlInv, NoRequest
    <2>7. UsbTypes
      BY <1>1, <1>2, <2>1, <2>4 DEF UsbTypes
    <2> QED BY <1>3, <2>1, <2>3, <2>5, <2>6, <2>7 DEF UsbInv
  <1> QED BY <1>4, <1>5

-----------------------------------------------------------------------------
(* Focus "control": packets in any order to devices whose addresses stay.   *)

LEMMA ControlPacket ==
    ASSUME UsbInv, ~Enumerates, NEW packet, packet.pid \in {"setup", "in", "out"},
           packet.pid = "setup" => packet.request.name # "SetAddress",
           usb' = HandlePacket(usb, packet).tree, UNCHANGED <<focus, given, pending>>
    PROVE  TreeShape(usb') /\ AddressesInv' /\ PlacedInv' /\ TransferInv' /\ ControlInv'
  <1> DEFINE r == HandlePacket(usb, packet)
             Kinder(v) == /\ TreeShape(v)
                          /\ \A e \in Devices :
                                /\ Listens(v, e) => Stays(usb, v, e) \/ v.dev[e].addr = 0
                                /\ v.dev[e].request.name # "SetAddress"
  <1> USE DEF UsbInv
  <1>1. TreeShape(usb) /\ \A e \in Devices : usb.dev[e].request.name # "SetAddress"
    BY DEF ControlInv
  <1>2. Kinder(usb)
    BY <1>1 DEF Stays
  <1>3. ASSUME NEW d \in Devices, NEW v, Edited(usb, v, d), v.dev[d].request.name # "SetAddress"
        PROVE  Kinder(v)
    BY <1>1, <1>3, EditedListens DEF Stays
  <1>4. NoRequest.name # "SetAddress"
    BY DEF NoRequest
  <1>5. Kinder(r.tree)
    <2> SUFFICES ASSUME NEW d \in Devices,
                        \/ r = DoTokenSetup(usb, d, packet.request, packet.size) /\ packet.pid = "setup"
                        \/ r = DoTokenIn(usb, d, packet.size)
                        \/ r = DoTokenOut(usb, d, packet.size)
                 PROVE  Kinder(r.tree)
      <3>1. \/ r.tree = usb
            \/ \E d \in Devices : \/ r = DoTokenSetup(usb, d, packet.request, packet.size) /\ packet.pid = "setup"
                                 \/ r = DoTokenIn(usb, d, packet.size)
                                 \/ r = DoTokenOut(usb, d, packet.size)
        BY PacketReceiver
      <3> HIDE DEF r
      <3> QED BY <1>2, <3>1
    <2> HIDE DEF r
    <2>1. CASE r = DoTokenSetup(usb, d, packet.request, packet.size) /\ packet.pid = "setup"
      <3>1. Edited(usb, r.tree, d) /\ r.tree.dev[d].request \in {packet.request, usb.dev[d].request}
        BY <1>1, <2>1, SetupEdits
      <3> QED BY <1>1, <1>3, <2>1, <3>1
    <2>2. CASE r = DoTokenOut(usb, d, packet.size)
      <3>1. Edited(usb, r.tree, d) /\ r.tree.dev[d].request \in {NoRequest, usb.dev[d].request}
        BY <1>1, <2>2, OutEdits
      <3> QED BY <1>1, <1>3, <1>4, <3>1
    <2>3. CASE r = DoTokenIn(usb, d, packet.size)
      <3> DEFINE q == usb.dev[d].request
      <3>1. /\ Requests(usb, r.tree, {NoRequest})
            /\ Obeyed(usb, r, d, q) \/ Edited(usb, r.tree, d)
        BY <1>1, <2>3, InEffect
      <3>2. \A e \in Devices : r.tree.dev[e].request.name # "SetAddress"
        BY <1>1, <1>4, <3>1 DEF Requests
      <3>3. CASE Edited(usb, r.tree, d)
        BY <1>3, <3>2, <3>3
      <3>4. CASE Obeyed(usb, r, d, q)
        <4>1. q.name # "SetAddress"
          BY <1>1
        <4>2. /\ TreeShape(r.tree)
              /\ \A e \in Devices : Listens(r.tree, e) => Stays(usb, r.tree, e) \/ r.tree.dev[e].addr = 0
          BY <3>4, <4>1 DEF Obeyed
        <4> QED BY <3>2, <4>2
      <3> QED BY <3>1, <3>3, <3>4
    <2> QED BY <2>1, <2>2, <2>3
  <1> HIDE DEF r
  <1>6. usb' = r.tree
    BY DEF r
  <1>7. Kinder(usb')
    BY <1>5, <1>6
  <1>8. PlacedInv'
    <2> SUFFICES ASSUME NEW d \in Devices, Listens(usb', d)
                 PROVE  usb'.dev[d].addr = 0 \/ (usb'.dev[d].addr \in Addresses /\ given[usb'.dev[d].addr] = d)
      BY DEF PlacedInv, Placed, Enumerates
    <2> QED BY <1>7 DEF Stays, PlacedInv, Placed
  <1> QED BY <1>7, <1>8 DEF AddressesInv, TransferInv, ControlInv, Enumerates

LEMMA TransferForms ==
    /\ \A t : Transfers(t) => /\ Transfers(Kept(t)) /\ Kept(t).stage = t.stage /\ Kept(t).to = t.to
                              /\ t.stage = "open" => Kept(t).request = t.request
    /\ \A to \in Addresses \cup {0} : \A request, r :
          LET t == Opened(to, request, r)
          IN  Transfers(t) /\ t.to = to /\ t.request = request /\ (t.stage = "open" <=> r.status = "ok")
  <1>1. ASSUME NEW t, Transfers(t)
        PROVE  /\ Transfers(Kept(t)) /\ Kept(t).stage = t.stage /\ Kept(t).to = t.to
               /\ t.stage = "open" => Kept(t).request = t.request
    BY <1>1 DEF Kept, Transfers, NoTransfer
  <1>2. ASSUME NEW to \in Addresses \cup {0}, NEW request, NEW r
        PROVE  LET t == Opened(to, request, r)
               IN  Transfers(t) /\ t.to = to /\ t.request = request /\ (t.stage = "open" <=> r.status = "ok")
    BY DEF Opened, Transfers, NoTransfer
  <1> QED BY <1>1, <1>2

LEMMA PacketFields ==
    ASSUME NEW pid, NEW to, NEW request, NEW size, NEW ep
    PROVE  /\ LET k == Packet(pid, to, request, size)
              IN  k.pid = pid /\ k.to = to /\ k.ep = 0 /\ k.request = request /\ k.size = size
           /\ LET k == [Packet(pid, to, request, size) EXCEPT !.ep = ep]
              IN  k.pid = pid /\ k.to = to /\ k.request = request
  BY DEF Packet

\* What the guest's sending a packet does to its transfer.
LEMMA SendSetupForm ==
    ASSUME NEW to \in Addresses \cup {0}, NEW request, NEW size, SendSetup(to, request, size)
    PROVE  LET packet == Packet("setup", to, request, size)   r == HandlePacket(usb, packet)
           IN  /\ usb' = r.tree /\ Transfers(transfer')
               /\ transfer'.stage = "open" => /\ r.status = "ok" /\ transfer'.to = to
                                              /\ transfer'.request = request
  <1> DEFINE r == HandlePacket(usb, Packet("setup", to, request, size))
  <1>1. usb' = r.tree /\ transfer' = Kept(Opened(to, request, r))
    BY DEF SendSetup, Handle
  <1> HIDE DEF r
  <1>2. /\ Transfers(transfer')
        /\ transfer'.stage = "open" => r.status = "ok" /\ transfer'.to = to /\ transfer'.request = request
    BY <1>1, TransferForms
  <1> QED BY <1>1, <1>2 DEF r

LEMMA SendInForm ==
    ASSUME Transfers(transfer), NEW size, SendIn(size)
    PROVE  LET packet == Packet("in", transfer.to, NoRequest, size)   r == HandlePacket(usb, packet)
           IN  /\ usb' = r.tree /\ Transfers(transfer')
               /\ transfer'.stage = Stage(r, ~IsRead(transfer.request))
               /\ transfer'.stage = "open" => transfer'.to = transfer.to /\ transfer'.request = transfer.request
  <1> DEFINE r == HandlePacket(usb, Packet("in", transfer.to, NoRequest, size))
             s == Stage(r, ~IsRead(transfer.request))
             n == transfer.got + r.count
             next == [transfer EXCEPT !.got = n, !.stage = s]
  <1>1. usb' = r.tree /\ transfer' = Kept(next)
    BY DEF SendIn, Handle, Transfers
  <1> HIDE DEF r, s, n
  <1>2. Transfers(next) /\ next.to = transfer.to /\ next.request = transfer.request /\ next.stage = s
    BY DEF Transfers
  <1> HIDE DEF next
  <1>3. /\ Transfers(transfer') /\ transfer'.stage = s
        /\ transfer'.stage = "open" => transfer'.to = transfer.to /\ transfer'.request = transfer.request
    BY <1>1, <1>2, TransferForms
  <1> QED BY <1>1, <1>3 DEF r, s

LEMMA SendOutForm ==
    ASSUME Transfers(transfer), NEW size, SendOut(size)
    PROVE  LET packet == Packet("out", transfer.to, NoRequest, size)   r == HandlePacket(usb, packet)
           IN  /\ usb' = r.tree /\ Transfers(transfer')
               /\ transfer'.stage = Stage(r, IsRead(transfer.request))
  <1> DEFINE r == HandlePacket(usb, Packet("out", transfer.to, NoRequest, size))
             s == Stage(r, IsRead(transfer.request))
             n == IF IsRead(transfer.request) THEN transfer.sent
                  ELSE Min2(transfer.sent + size, transfer.request.length)
             next == [transfer EXCEPT !.sent = n, !.stage = s]
  <1>1. usb' = r.tree /\ transfer' = Kept(next)
    BY DEF SendOut, Handle
  <1> HIDE DEF r, s, n
  <1>2. Transfers(next) /\ next.stage = s
    BY DEF Transfers
  <1> HIDE DEF next
  <1>3. Transfers(transfer') /\ transfer'.stage = s
    BY <1>1, <1>2, TransferForms
  <1> QED BY <1>1, <1>3 DEF r, s

LEMMA SetupStep == ASSUME UsbInv, Setup PROVE UsbInv'
  <1> USE DEF UsbInv
  <1>1. PICK q \in focus.asks, n \in {8, 7} : SendSetup(focus.to, q, n)
    BY DEF Setup
  <1> DEFINE packet == Packet("setup", focus.to, q, n)
  <1>2. focus.to \in Addresses /\ q.name # "SetAddress"
    BY <1>1, UsbAssumption DEF UsbTypes
  <1>3. packet.pid = "setup" /\ packet.request = q
    BY PacketFields
  <1> HIDE DEF packet
  <1>4. usb' = HandlePacket(usb, packet).tree /\ Transfers(transfer')
    BY <1>1, <1>2, SendSetupForm DEF packet
  <1>5. ~Enumerates /\ UNCHANGED <<focus, given, pending, scan>>
    BY DEF Setup
  <1>6. TreeShape(usb') /\ AddressesInv' /\ PlacedInv' /\ TransferInv' /\ ControlInv'
    BY <1>2, <1>3, <1>4, <1>5, ControlPacket
  <1>7. UsbTypes'
    BY <1>4, <1>5 DEF UsbTypes
  <1> QED BY <1>6, <1>7

LEMMA InTokenStep == ASSUME UsbInv, InToken PROVE UsbInv'
  <1> USE DEF UsbInv
  <1>1. PICK n \in Sizes : SendIn(n)
    BY DEF InToken
  <1> DEFINE packet == Packet("in", transfer.to, NoRequest, n)
  <1>2. packet.pid = "in"
    BY PacketFields
  <1> HIDE DEF packet
  <1>3. usb' = HandlePacket(usb, packet).tree /\ Transfers(transfer')
    BY <1>1, SendInForm DEF packet, UsbTypes
  <1>4. ~Enumerates /\ UNCHANGED <<focus, given, pending, scan>>
    BY DEF InToken
  <1>5. TreeShape(usb') /\ AddressesInv' /\ PlacedInv' /\ TransferInv' /\ ControlInv'
    BY <1>2, <1>3, <1>4, ControlPacket
  <1>6. UsbTypes'
    BY <1>3, <1>4 DEF UsbTypes
  <1> QED BY <1>5, <1>6

LEMMA OutTokenStep == ASSUME UsbInv, OutToken PROVE UsbInv'
  <1> USE DEF UsbInv
  <1>1. PICK n \in Sizes : SendOut(n)
    BY DEF OutToken
  <1> DEFINE packet == Packet("out", transfer.to, NoRequest, n)
  <1>2. packet.pid = "out"
    BY PacketFields
  <1> HIDE DEF packet
  <1>3. usb' = HandlePacket(usb, packet).tree /\ Transfers(transfer')
    BY <1>1, SendOutForm DEF packet, UsbTypes
  <1>4. ~Enumerates /\ UNCHANGED <<focus, given, pending, scan>>
    BY DEF OutToken
  <1>5. TreeShape(usb') /\ AddressesInv' /\ PlacedInv' /\ TransferInv' /\ ControlInv'
    BY <1>2, <1>3, <1>4, ControlPacket
  <1>6. UsbTypes'
    BY <1>3, <1>4 DEF UsbTypes
  <1> QED BY <1>5, <1>6

LEMMA PollStep == ASSUME UsbInv, Poll PROVE UsbInv'
  <1> USE DEF UsbInv
  <1> DEFINE ep == IF given[focus.to] \in Hubs THEN 1 ELSE 2
  <1>1. PICK n \in {0, 1, 2}, pid \in {"in", "out"} :
            usb' = HandlePacket(usb, [Packet(pid, focus.to, NoRequest, n) EXCEPT !.ep = ep]).tree
    BY DEF Poll
  <1> DEFINE packet == [Packet(pid, focus.to, NoRequest, n) EXCEPT !.ep = ep]
  <1>2. packet.pid \in {"in", "out"}
    <2> HIDE DEF ep
    <2> QED BY <1>1, PacketFields
  <1> HIDE DEF packet
  <1>3. usb' = HandlePacket(usb, packet).tree
    BY <1>1 DEF packet
  <1>4. ~Enumerates /\ UNCHANGED <<focus, given, pending, scan, transfer>>
    BY DEF Poll
  <1>5. TreeShape(usb') /\ AddressesInv' /\ PlacedInv' /\ TransferInv' /\ ControlInv'
    BY <1>2, <1>3, <1>4, ControlPacket
  <1>6. UsbTypes'
    BY <1>4 DEF UsbTypes
  <1> QED BY <1>5, <1>6

-----------------------------------------------------------------------------
(* Focus "tree": the user, and the registers of the root hub.               *)

\* A step that lets no device in and leaves what the guest gave keeps the invariant.
LEMMA QuietKeeps ==
    ASSUME UsbInv, Enumerates, Quiet(usb, usb'), UNCHANGED <<focus, given, pending>>,
           transfer' = transfer \/ transfer'.stage # "open"
    PROVE  TreeShape(usb') /\ AddressesInv' /\ PlacedInv' /\ TransferInv' /\ ControlInv'
  <1> USE DEF UsbInv
  <1>1. TreeShape(usb') /\ \A d \in Devices : Listens(usb', d) => AsBefore(usb, usb', d)
    BY DEF Quiet
  <1>2. PlacedInv'
    <2> SUFFICES ASSUME NEW d \in Devices, Listens(usb', d) PROVE Placed(d)'
      BY DEF PlacedInv
    <2>1. Listens(usb, d) /\ usb'.dev[d].addr = usb.dev[d].addr
      BY <1>1 DEF AsBefore
    <2> QED BY <2>1 DEF PlacedInv, Placed, Enumerates
  <1>3. TransferInv'
    <2> SUFFICES ASSUME transfer'.stage = "open" PROVE TransferInv'
      BY DEF TransferInv
    <2>1. transfer' = transfer
      OBVIOUS
    <2>2. AskedOfNew(transfer)' \/ AskedOfHub(transfer)'
      BY <2>1 DEF TransferInv, AskedOfNew, AskedOfHub
    <2>3. ASSUME NEW d \in Devices, Listens(usb', d), usb'.dev[d].addr = transfer'.to
          PROVE  /\ usb'.dev[d].request = transfer'.request
                 /\ ~IsRead(transfer'.request) => usb'.dev[d].setup = "ack"
      BY <1>1, <2>1, <2>3 DEF AsBefore, TransferInv
    <2> QED BY <2>2, <2>3 DEF TransferInv
  <1> QED BY <1>1, <1>2, <1>3 DEF AddressesInv, ControlInv, Enumerates

LEMMA QuietItself == ASSUME NEW w, TreeShape(w) PROVE Quiet(w, w)
  BY DEF Quiet, AsBefore, RunsFall

\* The user, and most writes to the registers, let no device in.
LEMMA QuietSteps ==
    ASSUME UsbInv,
           PlugIn \/ Unplug \/ ChangeState \/ Interrupted \/ Look \/ Clear \/ Read \/ Suspend \/ Disable
    PROVE  Quiet(usb, usb') /\ focus' = focus /\ (transfer' = transfer \/ transfer' = NoTransfer)
  <1>1. TreeShape(usb)
    BY DEF UsbInv
  <1>2. CASE PlugIn \/ Unplug
    <2>1. Quiet(usb, usb')
      BY <1>1, <1>2, PlugQuiet, HandleDestroyQuiet, UsbAssumption DEF PlugIn, Unplug
    <2> QED BY <1>2, <2>1 DEF PlugIn, Unplug, guest
  <1>3. CASE ChangeState
    <2>1. PICK s \in {"operational", "suspend", "reset"} :
              /\ usb' = ChangeHcfs(IF s = "operational" THEN SetHubStatus(usb, {"LPSC", "DRWE"}) ELSE usb, s)
              /\ transfer' = transfer \/ transfer' = NoTransfer
      BY <1>3 DEF ChangeState
    <2> DEFINE v == IF s = "operational" THEN SetHubStatus(usb, {"LPSC", "DRWE"}) ELSE usb
    <2>2. Quiet(usb, v) /\ TreeShape(v)
      BY <1>1, SetHubStatusQuiet, QuietItself DEF Quiet
    <2>3. usb' = ChangeHcfs(v, s)
      BY <2>1
    <2> HIDE DEF v
    <2>4. Quiet(usb, usb')
      BY <2>2, <2>3, ChangeHcfsQuiet, QuietTransitive
    <2> QED BY <1>3, <2>1, <2>4 DEF ChangeState
  <1>4. CASE Interrupted \/ Look \/ Read
    <2>1. OnlyRoots(usb, [usb EXCEPT !.intr = {}])
      BY <1>1 DEF OnlyRoots, TreeShape, TreeFields
    <2> QED BY <1>1, <1>4, <2>1, OnlyRootsIsQuiet, QuietItself DEF Interrupted, Look, Read
  <1>5. ASSUME NEW p \in Roots, NEW value, {"PES", "PRS", "LSDA", "PPS"} \cap value = {},
               usb' = PortSetStatus(usb, p, value)
        PROVE  Quiet(usb, usb')
    BY <1>1, <1>5, PortSetStatusQuiet
  <1>6. CASE Clear
    <2>1. scan.at \in Roots /\ scan.seen \subseteq ChangeBits
      BY <1>6 DEF Clear, UsbInv, UsbTypes
    <2> DEFINE more == scan.seen \cup {"CCS"}
    <2>2. {"PES", "PRS", "LSDA", "PPS"} \cap more = {} /\ {"PES", "PRS", "LSDA", "PPS"} \cap scan.seen = {}
      BY <2>1 DEF ChangeBits
    <2>3. usb' = PortSetStatus(usb, scan.at, more) \/ usb' = PortSetStatus(usb, scan.at, scan.seen)
      BY <1>6 DEF Clear
    <2> HIDE DEF more
    <2>4. Quiet(usb, usb')
      BY <1>5, <2>1, <2>2, <2>3
    <2> QED BY <1>6, <2>4 DEF Clear
  <1>7. CASE Suspend
    <2> DEFINE value == {"PSS"}
    <2>1. {"PES", "PRS", "LSDA", "PPS"} \cap value = {}
      OBVIOUS
    <2>2. PICK p \in Roots : usb' = PortSetStatus(usb, p, value)
      BY <1>7 DEF Suspend
    <2> HIDE DEF value
    <2> QED BY <1>5, <1>7, <2>1, <2>2 DEF Suspend, guest
  <1>8. CASE Disable
    <2> DEFINE value == {"CCS"}
    <2>1. {"PES", "PRS", "LSDA", "PPS"} \cap value = {}
      OBVIOUS
    <2>2. Len(pending) = 1 /\ usb' = PortSetStatus(usb, pending[1], value)
      BY <1>8 DEF Disable
    <2> HIDE DEF value
    <2>3. pending \in Devices
      BY <2>2 DEF UsbInv, UsbTypes, NoDevice
    <2>4. pending[1] \in Roots
      BY <2>3, DeviceNames
    <2> QED BY <1>5, <1>8, <2>1, <2>2, <2>4 DEF Disable
  <1> QED BY <1>2, <1>3, <1>4, <1>6, <1>7, <1>8

LEMMA UserStep == ASSUME UsbInv, PlugIn \/ Unplug PROVE UsbInv'
  <1> USE DEF UsbInv
  <1>1. Enumerates /\ UNCHANGED <<focus, given, pending, scan, transfer>>
    BY DEF PlugIn, Unplug, guest
  <1>2. Quiet(usb, usb')
    BY QuietSteps
  <1>3. TreeShape(usb') /\ AddressesInv' /\ PlacedInv' /\ TransferInv' /\ ControlInv'
    BY <1>1, <1>2, QuietKeeps
  <1> QED BY <1>1, <1>3 DEF UsbTypes

LEMMA ScanStep == ASSUME UsbInv, Interrupted \/ Look \/ Read PROVE UsbInv'
  <1> USE DEF UsbInv
  <1>1. Enumerates /\ UNCHANGED <<focus, given, pending, transfer>>
    BY DEF Interrupted, Look, Read
  <1>2. Quiet(usb, usb')
    BY QuietSteps
  <1>3. TreeShape(usb') /\ AddressesInv' /\ PlacedInv' /\ TransferInv' /\ ControlInv'
    BY <1>1, <1>2, QuietKeeps
  <1>4. /\ DOMAIN scan' = {"left", "at", "step", "seen"} /\ scan'.left \subseteq Roots
        /\ scan'.seen \subseteq ChangeBits /\ (scan'.step # "none" => scan'.at \in Roots)
    <2>1. CASE Interrupted
      BY <2>1 DEF Interrupted, NoScan
    <2>2. CASE Read
      BY <2>2 DEF Read, NoScan, UsbTypes
    <2>3. CASE Look
      <3>1. PICK p \in scan.left : 
                scan' = [scan EXCEPT !.at = p, !.step = "clear", !.seen = usb.root[p] \cap ChangeBits]
        BY <2>3 DEF Look
      <3> DEFINE seen == usb.root[p] \cap ChangeBits
      <3>2. seen \subseteq ChangeBits
        OBVIOUS
      <3> HIDE DEF seen
      <3>3. scan' = [scan EXCEPT !.at = p, !.step = "clear", !.seen = seen]
        BY <3>1 DEF seen
      <3> QED BY <3>1, <3>2, <3>3 DEF UsbTypes
    <2> QED BY <2>1, <2>2, <2>3
  <1> QED BY <1>1, <1>3, <1>4 DEF UsbTypes

LEMMA SuspendStep == ASSUME UsbInv, Suspend PROVE UsbInv'
  <1> USE DEF UsbInv
  <1>1. Enumerates /\ UNCHANGED <<focus, given, pending, scan, transfer>>
    BY DEF Suspend, guest
  <1>2. Quiet(usb, usb')
    BY QuietSteps
  <1>3. TreeShape(usb') /\ AddressesInv' /\ PlacedInv' /\ TransferInv' /\ ControlInv'
    BY <1>1, <1>2, QuietKeeps
  <1> QED BY <1>1, <1>3 DEF UsbTypes

LEMMA ChangeStateStep == ASSUME UsbInv, ChangeState PROVE UsbInv'
  <1> USE DEF UsbInv
  <1>1. PICK s \in {"operational", "suspend", "reset"} :
            /\ s # usb.hcfs
            /\ usb' = ChangeHcfs(IF s = "operational" THEN SetHubStatus(usb, {"LPSC", "DRWE"}) ELSE usb, s)
            /\ IF s = "reset"
               THEN /\ given' = [a \in Addresses |-> NoDevice] /\ pending' = NoDevice
                    /\ scan' = NoScan /\ transfer' = NoTransfer
               ELSE UNCHANGED <<given, pending, scan, transfer>>
    BY DEF ChangeState
  <1>2. Enumerates /\ focus' = focus
    BY DEF ChangeState
  <1>3. CASE s = "reset"
    <2>1. usb' = ChangeHcfs(usb, s)
      BY <1>1, <1>3
    <2>2. Closed(usb')
      BY <1>1, <1>3, <2>1, ChangeHcfsQuiet
    <2>3. PlacedInv' /\ TreeShape(usb')
      BY <2>2, DeviceNames DEF Closed, PlacedInv, Listens
    <2>4. TransferInv'
      BY <1>1, <1>3 DEF TransferInv, NoTransfer
    <2>5. AddressesInv' /\ ControlInv'
      BY <1>1, <1>2, <1>3 DEF AddressesInv, ControlInv, Enumerates
    <2>6. UsbTypes'
      BY <1>1, <1>2, <1>3 DEF UsbTypes, Transfers, NoTransfer, NoScan
    <2> QED BY <2>3, <2>4, <2>5, <2>6
  <1>4. CASE s # "reset"
    <2> DEFINE v == IF s = "operational" THEN SetHubStatus(usb, {"LPSC", "DRWE"}) ELSE usb
    <2>1. Quiet(usb, v) /\ TreeShape(v)
      BY SetHubStatusQuiet, QuietItself DEF Quiet
    <2>2. usb' = ChangeHcfs(v, s)
      BY <1>1
    <2> HIDE DEF v
    <2>3. Quiet(usb, usb')
      BY <2>1, <2>2, ChangeHcfsQuiet, QuietTransitive
    <2>4. UNCHANGED <<given, pending, scan, transfer>>
      BY <1>1, <1>4
    <2>5. TreeShape(usb') /\ AddressesInv' /\ PlacedInv' /\ TransferInv' /\ ControlInv'
      BY <1>2, <2>3, <2>4, QuietKeeps
    <2> QED BY <1>2, <2>4, <2>5 DEF UsbTypes
  <1> QED BY <1>3, <1>4

\* A port whose connection changed is disabled, and the guest forgets what was on it.
LEMMA ForgetKeeps ==
    ASSUME UsbInv, Enumerates, NEW p \in Roots, Quiet(usb, usb'), "PES" \notin usb'.root[p],
           focus' = focus, Forget(p), transfer' = IF OnPort(p) THEN NoTransfer ELSE transfer,
           DOMAIN scan' = {"left", "at", "step", "seen"}, scan'.left \subseteq Roots,
           scan'.seen \subseteq ChangeBits, scan'.step # "none" => scan'.at \in Roots
    PROVE  UsbInv'
  <1> USE DEF UsbInv
  <1>1. /\ DOMAIN given' = Addresses
        /\ \A a \in Addresses : given'[a] = IF given[a] # NoDevice /\ given[a][1] = p THEN NoDevice ELSE given[a]
        /\ pending' = IF pending # NoDevice /\ pending[1] = p THEN NoDevice ELSE pending
    BY DEF Forget, Withdrawn
  <1>2. TreeShape(usb') /\ \A d \in Devices : Listens(usb', d) => AsBefore(usb, usb', d) /\ d[1] # p
    BY DEF Quiet, Listens
  <1>3. PlacedInv'
    <2> SUFFICES ASSUME NEW d \in Devices, Listens(usb', d) PROVE Placed(d)'
      BY DEF PlacedInv
    <2>1. Listens(usb, d) /\ usb'.dev[d].addr = usb.dev[d].addr /\ d[1] # p
      BY <1>2 DEF AsBefore
    <2> QED BY <1>1, <2>1 DEF PlacedInv, Placed, Enumerates
  <1>4. AddressesInv' /\ ControlInv'
    BY <1>1 DEF AddressesInv, ControlInv, Enumerates
  <1>5. Transfers(transfer')
    BY DEF UsbTypes, Transfers, NoTransfer
  <1>6. TransferInv'
    <2> SUFFICES ASSUME transfer'.stage = "open" PROVE TransferInv'
      BY DEF TransferInv
    <2>1. transfer' = transfer /\ ~OnPort(p)
      BY DEF NoTransfer
    <2>2. AskedOfNew(transfer) \/ AskedOfHub(transfer)
      BY <2>1 DEF TransferInv
    <2>3. AskedOfNew(transfer)' \/ AskedOfHub(transfer)'
      <3>1. CASE AskedOfNew(transfer)
        <4>1. pending' = pending /\ given'[transfer.request.value] = NoDevice
          BY <1>1, <2>1, <3>1 DEF AskedOfNew, OnPort
        <4> QED BY <2>1, <3>1, <4>1 DEF AskedOfNew
      <3>2. CASE AskedOfHub(transfer)
        <4>1. transfer.to \in Addresses /\ transfer.to # 0 /\ given[transfer.to] \in Hubs
          BY <3>2, UsbAssumption DEF AskedOfHub
        <4>2. given[transfer.to] # NoDevice /\ given[transfer.to][1] # p
          BY <2>1, <4>1, DeviceNames DEF OnPort, Devices
        <4>3. given'[transfer.to] = given[transfer.to]
          BY <1>1, <4>1, <4>2
        <4>4. /\ pending = NoDevice => pending' = NoDevice
              /\ pending = <<given[transfer.to][1], GamepadPort>> => pending' = pending
          <5> DEFINE q == given[transfer.to][1]
          <5>1. <<q, GamepadPort>>[1] = q
            OBVIOUS
          <5> HIDE DEF q
          <5> QED BY <1>1, <4>2, <5>1 DEF q
        <4> QED BY <2>1, <3>2, <4>3, <4>4 DEF AskedOfHub
      <3> QED BY <2>2, <3>1, <3>2
    <2>4. ASSUME NEW d \in Devices, Listens(usb', d), usb'.dev[d].addr = transfer'.to
          PROVE  /\ usb'.dev[d].request = transfer'.request
                 /\ ~IsRead(transfer'.request) => usb'.dev[d].setup = "ack"
      BY <1>2, <2>1, <2>4 DEF AsBefore, TransferInv
    <2> QED BY <2>3, <2>4 DEF TransferInv
  <1>7. UsbTypes'
    BY <1>1, <1>5 DEF UsbTypes
  <1> QED BY <1>2, <1>3, <1>4, <1>6, <1>7

LEMMA ClearStep == ASSUME UsbInv, Clear PROVE UsbInv'
  <1> USE DEF UsbInv
  <1> DEFINE p == scan.at
  <1>1. Enumerates /\ scan.step = "clear" /\ focus' = focus /\ scan' = [scan EXCEPT !.step = "read"]
    BY DEF Clear
  <1>2. p \in Roots
    BY <1>1 DEF UsbTypes
  <1>3. /\ DOMAIN scan' = {"left", "at", "step", "seen"} /\ scan'.left \subseteq Roots
        /\ scan'.seen \subseteq ChangeBits /\ scan'.at \in Roots
    BY <1>1 DEF UsbTypes
  <1>4. CASE "CSC" \in scan.seen
    <2> DEFINE value == scan.seen \cup {"CCS"}
    <2>1. {"PES", "PRS", "LSDA", "PPS"} \cap value = {}
      BY DEF UsbTypes, ChangeBits
    <2>2. /\ usb' = PortSetStatus(usb, p, value) /\ Forget(p)
          /\ transfer' = IF OnPort(p) THEN NoTransfer ELSE transfer
      BY <1>4 DEF Clear
    <2>3. "CCS" \in value
      OBVIOUS
    <2> HIDE DEF value, p
    <2>4. Quiet(usb, usb') /\ "PES" \notin usb'.root[p]
      BY <1>2, <2>1, <2>2, <2>3, PortSetStatusQuiet
    <2> QED BY <1>1, <1>2, <1>3, <2>2, <2>4, ForgetKeeps
  <1>5. CASE "CSC" \notin scan.seen
    <2> DEFINE value == scan.seen
    <2>1. {"PES", "PRS", "LSDA", "PPS"} \cap value = {}
      BY DEF UsbTypes, ChangeBits
    <2>2. usb' = PortSetStatus(usb, p, value) /\ UNCHANGED <<given, pending, transfer>>
      BY <1>5 DEF Clear
    <2> HIDE DEF value, p
    <2>3. Quiet(usb, usb')
      BY <1>2, <2>1, <2>2, PortSetStatusQuiet
    <2>4. TreeShape(usb') /\ AddressesInv' /\ PlacedInv' /\ TransferInv' /\ ControlInv'
      BY <1>1, <2>2, <2>3, QuietKeeps
    <2> QED BY <1>1, <1>3, <2>2, <2>4 DEF UsbTypes
  <1> QED BY <1>4, <1>5

LEMMA ResetPortStep == ASSUME UsbInv, ResetPort PROVE UsbInv'
  <1> USE DEF UsbInv
  <1>1. PICK p \in Roots : /\ usb' = PortSetStatus(usb, p, {"PRS"})
                           /\ given' = Withdrawn(p) /\ pending' = <<p>>
    BY DEF ResetPort
  <1>2. Enumerates /\ pending = NoDevice /\ transfer.stage # "open" /\ UNCHANGED <<focus, transfer, scan>>
    BY DEF ResetPort, Calm
  <1> DEFINE new == <<p>>
  <1>3. new \in Devices /\ new[1] = p /\ new # NoDevice /\ pending' = new
    BY <1>1, HubNames
  <1>4. /\ TreeShape(usb')
        /\ \A d \in Devices : Listens(usb', d) => \/ d[1] # p /\ AsBefore(usb, usb', d)
                                                  \/ d = new /\ usb'.dev[d].addr = 0
    BY <1>1, PortSetStatusResets
  <1>5. /\ DOMAIN given' = Addresses
        /\ \A a \in Addresses : given'[a] = IF given[a] # NoDevice /\ given[a][1] = p THEN NoDevice ELSE given[a]
    BY <1>1 DEF Withdrawn
  <1> HIDE DEF new
  <1>6. PlacedInv'
    <2> SUFFICES ASSUME NEW d \in Devices, Listens(usb', d) PROVE Placed(d)'
      BY DEF PlacedInv
    <2>1. CASE d[1] # p /\ AsBefore(usb, usb', d)
      <3>1. Listens(usb, d) /\ usb'.dev[d].addr = usb.dev[d].addr /\ d # NoDevice
        BY <2>1, DeviceNames DEF AsBefore
      <3>2. usb.dev[d].addr \in Addresses /\ given[usb.dev[d].addr] = d
        BY <1>2, <3>1 DEF PlacedInv, Placed
      <3>3. given'[usb'.dev[d].addr] = d
        BY <1>5, <2>1, <3>1, <3>2
      <3> QED BY <3>1, <3>2, <3>3 DEF Placed
    <2>2. CASE d = new /\ usb'.dev[d].addr = 0
      BY <1>3, <2>2 DEF Placed
    <2> QED BY <1>4, <2>1, <2>2
  <1>7. AddressesInv' /\ ControlInv' /\ TransferInv'
    <2>1. \A a \in Addresses : given'[a] # new
      BY <1>3, <1>5
    <2>2. AddressesInv' /\ ControlInv'
      BY <1>2, <1>3, <1>5, <2>1 DEF AddressesInv, ControlInv, Enumerates
    <2> QED BY <1>2, <2>2 DEF TransferInv
  <1>8. UsbTypes'
    BY <1>2, <1>3, <1>5 DEF UsbTypes
  <1> QED BY <1>4, <1>6, <1>7, <1>8

LEMMA DisableStep == ASSUME UsbInv, Disable PROVE UsbInv'
  <1> USE DEF UsbInv
  <1> DEFINE p == pending[1]
             value == {"CCS"}
  <1>1. /\ Enumerates /\ transfer.stage # "open" /\ Len(pending) = 1 /\ pending' = NoDevice
        /\ usb' = PortSetStatus(usb, p, value) /\ UNCHANGED <<focus, transfer, given, scan>>
    BY DEF Disable, Calm
  <1>2. pending \in Devices
    BY <1>1 DEF UsbTypes, NoDevice
  <1>3. p \in Roots
    BY <1>2, DeviceNames
  <1>4. {"PES", "PRS", "LSDA", "PPS"} \cap value = {} /\ "CCS" \in value
    OBVIOUS
  <1> HIDE DEF value, p
  <1>5. Quiet(usb, usb') /\ "PES" \notin usb'.root[p]
    BY <1>1, <1>3, <1>4, PortSetStatusQuiet
  <1>6. TreeShape(usb') /\ \A d \in Devices : Listens(usb', d) => AsBefore(usb, usb', d) /\ d[1] # p
    BY <1>5 DEF Quiet, Listens
  <1>7. PlacedInv'
    <2> SUFFICES ASSUME NEW d \in Devices, Listens(usb', d) PROVE Placed(d)'
      BY DEF PlacedInv
    <2>1. Listens(usb, d) /\ usb'.dev[d].addr = usb.dev[d].addr /\ d # pending
      BY <1>6 DEF AsBefore, p
    <2>2. usb.dev[d].addr \in Addresses /\ given[usb.dev[d].addr] = d
      BY <1>1, <2>1 DEF PlacedInv, Placed
    <2> QED BY <1>1, <2>1, <2>2 DEF Placed
  <1>8. AddressesInv' /\ ControlInv' /\ TransferInv' /\ UsbTypes'
    BY <1>1 DEF AddressesInv, ControlInv, TransferInv, UsbTypes, Enumerates
  <1> QED BY <1>6, <1>7, <1>8

-----------------------------------------------------------------------------
(* Focus "tree": the guest's transfers.                                     *)

\* What the guest asks is a question whose answer it reads, or a command without data.
LEMMA AskedForms ==
    ASSUME NEW t, AskedOfNew(t) \/ AskedOfHub(t)
    PROVE  /\ ~IsRead(t.request) => t.request.length = 0
           /\ AskedOfNew(t) => t.request.name = "SetAddress"
           /\ AskedOfHub(t) /\ ~IsRead(t.request) =>
                 \/ t.request.name = "SetFeature"
                 \/ t.request.name = "ClearPortFeature" /\ t.request.value = 16
                 \/ /\ t.request.name = "SetPortFeature" /\ t.request.index = GamepadPort /\ t.request.value = 4
                    /\ pending = NoDevice
                 \/ /\ t.request.name = "ClearPortFeature" /\ t.request.index = GamepadPort /\ t.request.value = 1
                    /\ pending = <<given[t.to][1], GamepadPort>>
  BY DEF AskedOfNew, AskedOfHub, Simple, PortStatus, IsRead, ReadRequests

LEMMA NextIsAsked ==
    ASSUME NEW n \in Next0, NEW t, t.to = n.to, t.request = n.request
    PROVE  n.to \in Addresses \cup {0} /\ (AskedOfNew(t) \/ AskedOfHub(t))
  <1> DEFINE Ofs(a) ==
               LET h == given[a]   pad == <<h[1], GamepadPort>>
               IN  (CASE rescan = h -> {PortStatus}
                      [] rescan = NoDevice -> {Simple("ClearPortFeature", 16, GamepadPort)}
                      [] OTHER -> {})
                   \cup (IF pad \in known /\ pending = NoDevice THEN {Simple("SetPortFeature", 4, GamepadPort)} ELSE {})
                   \cup (IF pending = pad /\ "disable" \in focus.acts THEN {Simple("ClearPortFeature", 1, GamepadPort)} ELSE {})
                   \cup (IF "stop" \in focus.acts THEN {Simple("SetFeature", 1, 0)} ELSE {})
  <1>1. \/ \E a \in Addresses : /\ pending # NoDevice /\ given[a] = NoDevice
                                /\ n = [to |-> 0, request |-> Simple("SetAddress", a, 0)]
        \/ \E a \in Addresses : /\ given[a] \in Hubs
                                /\ \E r \in Ofs(a) : n = [to |-> a, request |-> r]
    BY DEF Next0
  <1>2. CASE \E a \in Addresses : /\ pending # NoDevice /\ given[a] = NoDevice
                                  /\ n = [to |-> 0, request |-> Simple("SetAddress", a, 0)]
    <2>1. PICK a \in Addresses : /\ pending # NoDevice /\ given[a] = NoDevice
                                 /\ n = [to |-> 0, request |-> Simple("SetAddress", a, 0)]
      BY <1>2
    <2>2. t.to = 0 /\ t.request = Simple("SetAddress", a, 0) /\ t.request.value = a
      BY <2>1 DEF Simple
    <2> QED BY <2>1, <2>2 DEF AskedOfNew
  <1>3. ASSUME NEW a \in Addresses, given[a] \in Hubs, NEW r \in Ofs(a), n = [to |-> a, request |-> r]
        PROVE  n.to \in Addresses /\ AskedOfHub(t)
    <2>1. t.to = a /\ t.request = r /\ n.to = a
      BY <1>3
    <2>2. \/ r = PortStatus
          \/ r = Simple("SetFeature", 1, 0)
          \/ r = Simple("ClearPortFeature", 16, GamepadPort)
          \/ r = Simple("SetPortFeature", 4, GamepadPort) /\ pending = NoDevice
          \/ r = Simple("ClearPortFeature", 1, GamepadPort) /\ pending = <<given[a][1], GamepadPort>>
      BY <1>3
    <2> QED BY <1>3, <2>1, <2>2 DEF AskedOfHub
  <1> QED BY <1>1, <1>2, <1>3

\* A packet that edits the device that takes it lets nobody in.
LEMMA EditedKeeps ==
    ASSUME UsbInv, Enumerates, NEW d \in Devices, Edited(usb, usb', d), UNCHANGED <<focus, given, pending>>
    PROVE  /\ TreeShape(usb') /\ AddressesInv' /\ PlacedInv' /\ ControlInv'
           /\ \A e \in Devices : Listens(usb', e) => Listens(usb, e) /\ usb'.dev[e].addr = usb.dev[e].addr
           /\ \A e \in Devices : e # d => usb'.dev[e] = usb.dev[e]
  <1> USE DEF UsbInv
  <1>1. /\ TreeShape(usb')
        /\ \A e \in Devices : /\ Listens(usb', e) => Listens(usb, e) /\ usb'.dev[e].addr = usb.dev[e].addr
                              /\ e # d => usb'.dev[e] = usb.dev[e]
    BY EditedListens
  <1>2. PlacedInv'
    <2> SUFFICES ASSUME NEW e \in Devices, Listens(usb', e) PROVE Placed(e)'
      BY DEF PlacedInv
    <2> QED BY <1>1 DEF PlacedInv, Placed, Enumerates
  <1> QED BY <1>1, <1>2 DEF AddressesInv, ControlInv, Enumerates

LEMMA BeginStep == ASSUME UsbInv, Begin PROVE UsbInv'
  <1> USE DEF UsbInv
  <1>1. PICK n \in Next0 : SendSetup(n.to, n.request, 8)
    BY DEF Begin
  <1>2. Enumerates /\ UNCHANGED <<focus, given, pending, scan>>
    BY DEF Begin
  <1>3. n.to \in Addresses \cup {0}
    <2>1. n.to = [to |-> n.to, request |-> n.request].to /\ n.request = [to |-> n.to, request |-> n.request].request
      OBVIOUS
    <2> QED BY <2>1, NextIsAsked
  <1> DEFINE packet == Packet("setup", n.to, n.request, 8)
             r == HandlePacket(usb, packet)
  <1>4. packet.pid = "setup" /\ packet.to = n.to /\ packet.ep = 0 /\ packet.request = n.request /\ packet.size = 8
    BY PacketFields
  <1>5. /\ usb' = r.tree /\ Transfers(transfer')
        /\ transfer'.stage = "open" => r.status = "ok" /\ transfer'.to = n.to /\ transfer'.request = n.request
    BY <1>1, <1>3, SendSetupForm
  <1>6. UsbTypes'
    BY <1>2, <1>5 DEF UsbTypes
  <1> HIDE DEF packet
  <1>7. \/ r.tree = usb /\ r.status = "nodev"
        \/ \E d \in Devices : /\ Listens(usb, d) /\ usb.dev[d].addr = n.to
                              /\ r = DoTokenSetup(usb, d, n.request, 8)
    BY <1>4, PacketReceiver
  <1> HIDE DEF r
  <1>8. CASE r.tree = usb /\ r.status = "nodev"
    <2>1. Quiet(usb, usb') /\ transfer'.stage # "open"
      BY <1>5, <1>8, QuietItself
    <2>2. TreeShape(usb') /\ AddressesInv' /\ PlacedInv' /\ TransferInv' /\ ControlInv'
      BY <1>2, <2>1, QuietKeeps
    <2> QED BY <1>6, <2>2
  <1>9. ASSUME NEW d \in Devices, Listens(usb, d), usb.dev[d].addr = n.to,
               r = DoTokenSetup(usb, d, n.request, 8)
        PROVE  UsbInv'
    <2>1. /\ Edited(usb, r.tree, d)
          /\ r.status = "ok" => /\ r.tree.dev[d].request = n.request
                                /\ ~IsRead(n.request) /\ n.request.length = 0 => r.tree.dev[d].setup = "ack"
      BY <1>9, SetupEdits
    <2>2. /\ TreeShape(usb') /\ AddressesInv' /\ PlacedInv' /\ ControlInv'
          /\ \A e \in Devices : Listens(usb', e) => Listens(usb, e) /\ usb'.dev[e].addr = usb.dev[e].addr
      BY <1>2, <1>5, <2>1, EditedKeeps
    <2>3. TransferInv'
      <3> SUFFICES ASSUME transfer'.stage = "open" PROVE TransferInv'
        BY DEF TransferInv
      <3>1. r.status = "ok" /\ transfer'.to = n.to /\ transfer'.request = n.request
        BY <1>5
      <3>2. AskedOfNew(transfer') \/ AskedOfHub(transfer')
        BY <3>1, NextIsAsked
      <3>3. AskedOfNew(transfer)' \/ AskedOfHub(transfer)'
        BY <1>2, <3>2 DEF AskedOfNew, AskedOfHub
      <3>4. ~IsRead(n.request) => n.request.length = 0
        BY <3>1, <3>2, AskedForms
      <3>5. ASSUME NEW e \in Devices, Listens(usb', e), usb'.dev[e].addr = transfer'.to PROVE e = d
        <4>1. Listens(usb, e) /\ usb.dev[e].addr = usb.dev[d].addr
          BY <1>9, <2>2, <3>1, <3>5
        <4> QED BY <1>2, <1>9, <4>1, PacketsFindFromInv DEF PacketsFind, NoSharedAddress
      <3>6. /\ usb'.dev[d].request = transfer'.request
            /\ ~IsRead(transfer'.request) => usb'.dev[d].setup = "ack"
        BY <1>5, <2>1, <3>1, <3>4
      <3> QED BY <3>3, <3>5, <3>6 DEF TransferInv
    <2> QED BY <1>6, <2>2, <2>3
  <1> QED BY <1>7, <1>8, <1>9

LEMMA DataStep == ASSUME UsbInv, Data PROVE UsbInv'
  <1> USE DEF UsbInv
  <1> DEFINE packet == Packet("in", transfer.to, NoRequest, 8)
             r == HandlePacket(usb, packet)
             q == transfer.request
  <1>1. Enumerates /\ transfer.stage = "open" /\ IsRead(q) /\ UNCHANGED <<focus, given, pending, scan>>
    BY DEF Data
  <1>2. packet.pid = "in" /\ packet.to = transfer.to /\ packet.ep = 0 /\ packet.size = 8
    BY PacketFields
  <1>3. /\ usb' = r.tree /\ Transfers(transfer')
        /\ transfer'.stage = Stage(r, ~IsRead(q))
        /\ transfer'.stage = "open" => transfer'.to = transfer.to /\ transfer'.request = q
    BY SendInForm DEF Data, UsbTypes
  <1>4. UsbTypes'
    BY <1>1, <1>3 DEF UsbTypes
  <1> HIDE DEF packet
  <1>5. \/ r.tree = usb /\ r.status = "nodev"
        \/ \E d \in Devices : /\ Listens(usb, d) /\ usb.dev[d].addr = transfer.to
                              /\ r = DoTokenIn(usb, d, 8)
    BY <1>2, PacketReceiver
  <1> HIDE DEF r
  <1>6. CASE r.tree = usb /\ r.status = "nodev"
    <2>1. Quiet(usb, usb') /\ transfer'.stage # "open"
      BY <1>3, <1>6, QuietItself DEF Stage
    <2>2. TreeShape(usb') /\ AddressesInv' /\ PlacedInv' /\ TransferInv' /\ ControlInv'
      BY <1>1, <2>1, QuietKeeps
    <2> QED BY <1>4, <2>2
  <1>7. ASSUME NEW d \in Devices, Listens(usb, d), usb.dev[d].addr = transfer.to, r = DoTokenIn(usb, d, 8)
        PROVE  UsbInv'
    <2>1. usb.dev[d].request = q
      BY <1>1, <1>7 DEF TransferInv
    <2>2. Edited(usb, r.tree, d) /\ r.tree.dev[d].request = q
      BY <1>1, <1>7, <2>1, InEffect
    <2>3. /\ TreeShape(usb') /\ AddressesInv' /\ PlacedInv' /\ ControlInv'
          /\ \A e \in Devices : Listens(usb', e) => Listens(usb, e) /\ usb'.dev[e].addr = usb.dev[e].addr
          /\ \A e \in Devices : e # d => usb'.dev[e] = usb.dev[e]
      BY <1>1, <1>3, <2>2, EditedKeeps
    <2>4. TransferInv'
      <3> SUFFICES ASSUME transfer'.stage = "open" PROVE TransferInv'
        BY DEF TransferInv
      <3>1. transfer'.to = transfer.to /\ transfer'.request = q
        BY <1>3
      <3>2. AskedOfNew(transfer)' \/ AskedOfHub(transfer)'
        BY <1>1, <3>1 DEF TransferInv, AskedOfNew, AskedOfHub
      <3>3. ASSUME NEW e \in Devices, Listens(usb', e), usb'.dev[e].addr = transfer'.to
            PROVE  usb'.dev[e].request = transfer'.request
        BY <1>1, <1>3, <2>2, <2>3, <3>1, <3>3 DEF TransferInv
      <3> QED BY <1>1, <3>1, <3>2, <3>3 DEF TransferInv
    <2> QED BY <1>4, <2>3, <2>4
  <1> QED BY <1>5, <1>6, <1>7

LEMMA StatusOutStep == ASSUME UsbInv, StatusOut PROVE UsbInv'
  <1> USE DEF UsbInv
  <1> DEFINE packet == Packet("out", transfer.to, NoRequest, 0)
             r == HandlePacket(usb, packet)
  <1>1. Enumerates /\ IsRead(transfer.request) /\ UNCHANGED <<focus, given, pending, scan>>
    BY DEF StatusOut
  <1>2. packet.pid = "out" /\ packet.to = transfer.to /\ packet.ep = 0 /\ packet.size = 0
    BY PacketFields
  <1>3. /\ usb' = r.tree /\ Transfers(transfer')
        /\ transfer'.stage = Stage(r, IsRead(transfer.request))
    BY SendOutForm DEF StatusOut, UsbTypes
  <1>4. transfer'.stage # "open"
    <2> HIDE DEF r
    <2> QED BY <1>1, <1>3 DEF Stage
  <1>5. UsbTypes' /\ TransferInv'
    BY <1>1, <1>3, <1>4 DEF UsbTypes, TransferInv
  <1> HIDE DEF packet
  <1>6. \/ r.tree = usb
        \/ \E d \in Devices : r = DoTokenOut(usb, d, 0)
    BY <1>2, PacketReceiver
  <1> HIDE DEF r
  <1>7. CASE r.tree = usb
    <2>1. Quiet(usb, usb')
      BY <1>3, <1>7, QuietItself
    <2> QED BY <1>1, <1>4, <1>5, <2>1, QuietKeeps
  <1>8. ASSUME NEW d \in Devices, r = DoTokenOut(usb, d, 0) PROVE UsbInv'
    <2>1. Edited(usb, r.tree, d)
      BY <1>8, OutEdits
    <2> QED BY <1>1, <1>3, <1>5, <2>1, EditedKeeps
  <1> QED BY <1>6, <1>7, <1>8

\* The status stage of a write: nobody hears it, or the device does that was asked.
LEMMA StatusInOutcome ==
    ASSUME UsbInv, StatusIn
    PROVE  \E r :
             /\ usb' = r.tree /\ Transfers(transfer') /\ transfer'.stage # "open"
             /\ transfer'.stage = "over" <=> r.status = "ok"
             /\ \/ /\ r.tree = usb /\ r.status = "nodev"
                   /\ \A d \in Devices : ~(Listens(usb, d) /\ usb.dev[d].addr = transfer.to)
                \/ \E d \in Devices : /\ Listens(usb, d) /\ usb.dev[d].addr = transfer.to
                                      /\ Obeyed(usb, r, d, transfer.request)
  <1> USE DEF UsbInv
  <1> DEFINE packet == Packet("in", transfer.to, NoRequest, 0)
             r == HandlePacket(usb, packet)
             q == transfer.request
  <1>1. Enumerates /\ transfer.stage = "open" /\ ~IsRead(q)
    BY DEF StatusIn
  <1>2. packet.pid = "in" /\ packet.to = transfer.to /\ packet.ep = 0 /\ packet.size = 0
    BY PacketFields
  <1>3. /\ usb' = r.tree /\ Transfers(transfer')
        /\ transfer'.stage = Stage(r, ~IsRead(q))
    BY SendInForm DEF StatusIn, UsbTypes
  <1> HIDE DEF packet
  <1>4. \/ /\ r.tree = usb /\ r.status = "nodev"
           /\ \A d \in Devices : ~(Listens(usb, d) /\ usb.dev[d].addr = transfer.to)
        \/ \E d \in Devices : /\ Listens(usb, d) /\ usb.dev[d].addr = transfer.to
                              /\ r = DoTokenIn(usb, d, 0)
    BY <1>2, PacketReceiver
  <1> HIDE DEF r
  <1>5. transfer'.stage = IF r.status = "ok" THEN "over" ELSE "stalled"
    BY <1>1, <1>3 DEF Stage
  <1>6. ASSUME NEW d \in Devices, Listens(usb, d), usb.dev[d].addr = transfer.to, r = DoTokenIn(usb, d, 0)
        PROVE  Obeyed(usb, r, d, q)
    <2>1. usb.dev[d].request = q /\ usb.dev[d].setup = "ack"
      BY <1>1, <1>6 DEF TransferInv
    <2> QED BY <1>1, <1>6, <2>1, InEffect
  <1>7. \/ /\ r.tree = usb /\ r.status = "nodev"
           /\ \A d \in Devices : ~(Listens(usb, d) /\ usb.dev[d].addr = transfer.to)
        \/ \E d \in Devices : /\ Listens(usb, d) /\ usb.dev[d].addr = transfer.to
                              /\ Obeyed(usb, r, d, transfer.request)
    BY <1>4, <1>6
  <1> QED BY <1>3, <1>5, <1>7

\* What is said of the guest's variables and of the tree is enough after the status stage.
LEMMA StatusInFrame ==
    ASSUME UsbInv, StatusIn, TreeShape(usb'), Transfers(transfer'), transfer'.stage # "open",
           PlacedInv', AddressesInv', DOMAIN given' = Addresses,
           \A a \in Addresses : given'[a] \in Devices \cup {NoDevice}, pending' \in Devices \cup {NoDevice}
    PROVE  UsbInv'
  BY DEF UsbInv, UsbTypes, TransferInv, ControlInv, StatusIn, Enumerates

LEMMA NewAddress ==
    ASSUME UsbInv, StatusIn, AskedOfNew(transfer) PROVE UsbInv'
  <1> USE DEF UsbInv
  <1> DEFINE q == transfer.request
             a == q.value
  <1>1. PICK r :
             /\ usb' = r.tree /\ Transfers(transfer') /\ transfer'.stage # "open"
             /\ transfer'.stage = "over" <=> r.status = "ok"
             /\ \/ /\ r.tree = usb /\ r.status = "nodev"
                   /\ \A d \in Devices : ~(Listens(usb, d) /\ usb.dev[d].addr = transfer.to)
                \/ \E d \in Devices : /\ Listens(usb, d) /\ usb.dev[d].addr = transfer.to
                                      /\ Obeyed(usb, r, d, transfer.request)
    BY StatusInOutcome
  <1>2. /\ q.name = "SetAddress" /\ transfer.to = 0 /\ a \in Addresses /\ pending # NoDevice
        /\ given[a] = NoDevice
    BY AskedForms DEF AskedOfNew
  <1>3. /\ given' = IF r.status = "ok" THEN [given EXCEPT ![a] = pending] ELSE given
        /\ pending' = IF r.status = "ok" THEN NoDevice ELSE pending
    BY <1>1, <1>2 DEF StatusIn
  <1>4. Enumerates /\ focus' = focus
    BY DEF StatusIn
  <1>5. CASE r.tree = usb /\ r.status = "nodev"
    <2>1. Quiet(usb, usb') /\ UNCHANGED <<given, pending>>
      BY <1>1, <1>3, <1>5, QuietItself
    <2>2. TreeShape(usb') /\ AddressesInv' /\ PlacedInv'
      BY <1>1, <1>4, <2>1, QuietKeeps
    <2> QED BY <1>1, <2>1, <2>2, StatusInFrame DEF UsbTypes
  <1>6. ASSUME NEW d \in Devices, Listens(usb, d), usb.dev[d].addr = transfer.to, Obeyed(usb, r, d, q)
        PROVE  UsbInv'
    <2>1. \A b \in Addresses : b \in 1..127
      BY UsbAssumption
    <2>2. pending = d
      BY <1>2, <1>4, <1>6, <2>1 DEF PlacedInv, Placed
    <2>3. /\ TreeShape(r.tree) /\ r.status = "ok" /\ r.tree.dev[d].addr = a % 256
          /\ \A e \in Devices : Listens(r.tree, e)
                => Listens(usb, e) /\ (e # d => r.tree.dev[e].addr = usb.dev[e].addr)
      BY <1>2, <1>6 DEF Obeyed
    <2>4. r.tree.dev[d].addr = a
      <3>1. a \in 1..127
        BY <1>2, <2>1
      <3> QED BY <2>3, <3>1
    <2>5. given' = [given EXCEPT ![a] = d] /\ pending' = NoDevice
      BY <1>3, <2>2, <2>3
    <2>6. DOMAIN given' = Addresses /\ \A b \in Addresses : given'[b] = IF b = a THEN d ELSE given[b]
      BY <2>5 DEF UsbTypes
    <2>7. PlacedInv'
      <3> SUFFICES ASSUME NEW e \in Devices, Listens(usb', e) PROVE Placed(e)'
        BY DEF PlacedInv
      <3>1. CASE e = d
        BY <1>1, <1>2, <2>4, <2>6, <3>1 DEF Placed
      <3>2. CASE e # d
        <4>1. Listens(usb, e) /\ usb'.dev[e].addr = usb.dev[e].addr
          BY <1>1, <2>3, <3>2
        <4>2. usb.dev[e].addr \in Addresses /\ given[usb.dev[e].addr] = e /\ e # NoDevice
          BY <1>4, <2>2, <3>2, <4>1, DeviceNames DEF PlacedInv, Placed
        <4>3. usb.dev[e].addr # a
          BY <1>2, <4>2
        <4> QED BY <2>6, <4>1, <4>2, <4>3 DEF Placed
      <3> QED BY <3>1, <3>2
    <2>8. AddressesInv'
      <3>1. \A b \in Addresses : given[b] # d
        BY <1>2, <1>4, <2>2 DEF AddressesInv
      <3> QED BY <1>4, <2>5, <2>6, <3>1 DEF AddressesInv
    <2>9. \A b \in Addresses : given'[b] \in Devices \cup {NoDevice}
      BY <2>6 DEF UsbTypes
    <2> QED BY <1>1, <2>3, <2>5, <2>6, <2>7, <2>8, <2>9, StatusInFrame
  <1> QED BY <1>1, <1>5, <1>6

LEMMA HubCommand ==
    ASSUME UsbInv, StatusIn, AskedOfHub(transfer) PROVE UsbInv'
  <1> USE DEF UsbInv
  <1> DEFINE q == transfer.request
             h == given[transfer.to]
             pad == <<h[1], GamepadPort>>
  <1>1. PICK r :
             /\ usb' = r.tree /\ Transfers(transfer') /\ transfer'.stage # "open"
             /\ transfer'.stage = "over" <=> r.status = "ok"
             /\ \/ /\ r.tree = usb /\ r.status = "nodev"
                   /\ \A d \in Devices : ~(Listens(usb, d) /\ usb.dev[d].addr = transfer.to)
                \/ \E d \in Devices : /\ Listens(usb, d) /\ usb.dev[d].addr = transfer.to
                                      /\ Obeyed(usb, r, d, transfer.request)
    BY StatusInOutcome
  <1>2. Enumerates /\ focus' = focus /\ ~IsRead(q)
    BY DEF StatusIn
  <1>3. transfer.to \in Addresses /\ transfer.to # 0 /\ h \in Hubs /\ h \in Devices /\ h # NoDevice
    BY UsbAssumption, DeviceNames DEF AskedOfHub, Devices
  <1>4. /\ h = <<h[1]>> /\ IsHub(h) /\ pad \in Devices /\ pad # h /\ ~IsHub(pad) /\ pad[1] = h[1]
        /\ pad # NoDevice
    <2> DEFINE p == h[1]
    <2>1. h = <<p>> /\ IsHub(h) /\ p \in Roots
      BY <1>3, DeviceNames
    <2> HIDE DEF p
    <2>2. <<p, GamepadPort>> \in Devices /\ ~IsHub(<<p, GamepadPort>>) /\ <<p, GamepadPort>>[1] = p
          /\ <<p, GamepadPort>> # NoDevice
      BY <2>1, HubNames
    <2> QED BY <2>1, <2>2 DEF p
  <1> HIDE DEF pad
  <1>5. ASSUME NEW d \in Devices, Listens(usb, d), usb.dev[d].addr = transfer.to PROVE d = h
    BY <1>3, <1>5 DEF PlacedInv, Placed
  <1>6. ASSUME \A d \in Devices : ~(Listens(usb, d) /\ usb.dev[d].addr = transfer.to), pending # h
        PROVE  ~Listens(usb, pad)
    <2> SUFFICES ASSUME Listens(usb, pad) PROVE FALSE
      OBVIOUS
    <2>1. Listens(usb, h)
      BY <1>4 DEF Listens
    <2>2. usb.dev[h].addr \in Addresses /\ given[usb.dev[h].addr] = h
      BY <1>2, <1>3, <1>6, <2>1 DEF PlacedInv, Placed
    <2>3. usb.dev[h].addr = transfer.to
      BY <1>2, <1>3, <2>2 DEF AddressesInv
    <2> QED BY <1>3, <1>6, <2>1, <2>3
  \* ... and the device, if one hears it, is the hub.
  <1>7. \/ /\ r.tree = usb /\ r.status = "nodev"
           /\ pending # h => ~Listens(usb, pad)
        \/ Listens(usb, h) /\ Obeyed(usb, r, h, q)
    BY <1>1, <1>5, <1>6
  <1>8. TreeShape(r.tree)
    BY <1>7 DEF Obeyed
  <1>9. \/ q.name = "SetFeature"
        \/ q.name = "ClearPortFeature" /\ q.value = 16
        \/ q.name = "SetPortFeature" /\ q.index = GamepadPort /\ q.value = 4 /\ pending = NoDevice
        \/ q.name = "ClearPortFeature" /\ q.index = GamepadPort /\ q.value = 1 /\ pending = pad
    BY <1>2, AskedForms DEF pad
  <1>10. CASE q.name = "SetFeature" \/ (q.name = "ClearPortFeature" /\ q.value = 16)
    <2>1. UNCHANGED <<given, pending>>
      BY <1>10 DEF StatusIn
    <2>2. \A e \in Devices : Listens(r.tree, e) => Stays(usb, r.tree, e)
      BY <1>7, <1>10 DEF Obeyed, Stays
    <2>3. PlacedInv' /\ AddressesInv'
      BY <1>1, <1>2, <2>1, <2>2 DEF PlacedInv, Placed, AddressesInv, Stays, Enumerates
    <2> QED BY <1>1, <1>8, <2>1, <2>3, StatusInFrame DEF UsbTypes
  <1>11. CASE q.name = "ClearPortFeature" /\ q.index = GamepadPort /\ q.value = 1 /\ pending = pad
    <2>1. given' = given /\ pending' = NoDevice
      BY <1>11 DEF StatusIn
    <2>2. ~Listens(r.tree, pad) /\ \A e \in Devices : Listens(r.tree, e) => Stays(usb, r.tree, e)
      BY <1>4, <1>7, <1>11 DEF Obeyed, Stays, pad
    <2>3. PlacedInv'
      <3> SUFFICES ASSUME NEW e \in Devices, Listens(usb', e) PROVE Placed(e)'
        BY DEF PlacedInv
      <3>1. Listens(usb, e) /\ usb'.dev[e].addr = usb.dev[e].addr /\ e # pending
        BY <1>1, <1>11, <2>2 DEF Stays
      <3> QED BY <1>2, <2>1, <3>1 DEF PlacedInv, Placed
    <2>4. AddressesInv'
      BY <1>2, <2>1 DEF AddressesInv, Enumerates
    <2> QED BY <1>1, <1>8, <2>1, <2>3, <2>4, StatusInFrame DEF UsbTypes
  <1>12. CASE q.name = "SetPortFeature" /\ q.index = GamepadPort /\ q.value = 4 /\ pending = NoDevice
    <2>1. /\ given' = [a \in Addresses |-> IF given[a] = pad THEN NoDevice ELSE given[a]]
          /\ pending' = IF r.status = "ok" THEN pad ELSE NoDevice
      BY <1>1, <1>12 DEF StatusIn, pad
    <2>2. /\ Listens(r.tree, pad) => r.status = "ok" /\ r.tree.dev[pad].addr = 0
          /\ \A e \in Devices : Listens(r.tree, e) /\ e # pad => Stays(usb, r.tree, e)
      <3>1. CASE r.tree = usb /\ r.status = "nodev" /\ (pending # h => ~Listens(usb, pad))
        BY <1>3, <1>12, <3>1 DEF Stays
      <3>2. CASE Obeyed(usb, r, h, q)
        BY <1>4, <1>12, <3>2 DEF Obeyed, pad
      <3> QED BY <1>7, <3>1, <3>2
    <2>3. PlacedInv'
      <3> SUFFICES ASSUME NEW e \in Devices, Listens(usb', e) PROVE Placed(e)'
        BY DEF PlacedInv
      <3>1. CASE e = pad
        BY <1>1, <2>1, <2>2, <3>1 DEF Placed
      <3>2. CASE e # pad
        <4>1. Listens(usb, e) /\ usb'.dev[e].addr = usb.dev[e].addr /\ e # NoDevice
          BY <1>1, <2>2, <3>2, DeviceNames DEF Stays
        <4>2. usb.dev[e].addr \in Addresses /\ given[usb.dev[e].addr] = e
          BY <1>2, <1>12, <4>1 DEF PlacedInv, Placed
        <4>3. given'[usb.dev[e].addr] = e
          BY <2>1, <3>2, <4>2
        <4> QED BY <4>1, <4>2, <4>3 DEF Placed
      <3> QED BY <3>1, <3>2
    <2>4. AddressesInv'
      BY <1>2, <1>4, <2>1 DEF AddressesInv, Enumerates
    <2>5. /\ DOMAIN given' = Addresses /\ \A a \in Addresses : given'[a] \in Devices \cup {NoDevice}
          /\ pending' \in Devices \cup {NoDevice}
      BY <1>4, <2>1 DEF UsbTypes
    <2> QED BY <1>1, <1>8, <2>3, <2>4, <2>5, StatusInFrame
  <1> QED BY <1>9, <1>10, <1>11, <1>12

LEMMA StatusInStep == ASSUME UsbInv, StatusIn PROVE UsbInv'
  <1>1. AskedOfNew(transfer) \/ AskedOfHub(transfer)
    BY DEF UsbInv, TransferInv, StatusIn
  <1> QED BY <1>1, NewAddress, HubCommand

LEMMA UsbInvInductive == UsbInv /\ [UsbNext]_usbVars => UsbInv'
  <1> SUFFICES ASSUME UsbInv, [UsbNext]_usbVars PROVE UsbInv'
    OBVIOUS
  <1>1. CASE UNCHANGED usbVars
    BY <1>1 DEF usbVars, guest, UsbInv, UsbTypes, AddressesInv, PlacedInv, Placed, TransferInv, ControlInv,
                AskedOfNew, AskedOfHub, Enumerates
  <1> QED BY <1>1, SetupStep, InTokenStep, OutTokenStep, PollStep, UserStep, ChangeStateStep, ScanStep,
             ClearStep, ResetPortStep, SuspendStep, DisableStep, BeginStep, DataStep, StatusOutStep,
             StatusInStep DEF UsbNext

\* A packet reaches the device the guest gave its address to, or nobody: no other device that once
\* had the address, or was moved, reset, plugged in or disabled since, hears it.
\* (USB_FindDevice in usb_pci.cpp, OHCI_FindDevice and OHCI_PortSetStatus in ohci.cpp.)
THEOREM PacketsReachTheirDevice == UsbSpec => []PacketsFind
  <1>1. UsbInit => UsbInv
    BY UsbInitInv
  <1>2. UsbInv /\ [UsbNext]_usbVars => UsbInv'
    BY UsbInvInductive
  <1>3. UsbInv => PacketsFind
    BY PacketsFindFromInv
  <1> QED BY <1>1, <1>2, <1>3, PTL DEF UsbSpec

-----------------------------------------------------------------------------
(* How long the answer to a control read is.                                *)

\* An interface, read into a buffer with room for it.
LEMMA InterfaceRead ==
    ASSUME NEW iface, iface.others = <<>>, Len(iface.endpoints) \in 1..2
    PROVE  ReadInterfaceDesc(iface, 247) = 9 + 7 * Len(iface.endpoints)
  <1> DEFINE parts == iface.endpoints
             Others(f) ==
               [i \in 0..Len(iface.others) |->
                  IF i = 0 THEN 9
                  ELSE IF f[i - 1] = Refused \/ ReadOtherDesc(iface.others[i], 247 - f[i - 1]) = Refused THEN Refused
                  ELSE f[i - 1] + ReadOtherDesc(iface.others[i], 247 - f[i - 1])]
             others == CHOOSE f : f = Others(f)
             start == others[Len(iface.others)]
             Follows(f) ==
               [i \in 0..Len(parts) |->
                  IF i = 0 THEN start
                  ELSE IF f[i - 1] = Refused \/ ReadEndpointDesc(parts[i], 247 - f[i - 1]) = Refused THEN Refused
                  ELSE f[i - 1] + ReadEndpointDesc(parts[i], 247 - f[i - 1])]
             after == CHOOSE f : f = Follows(f)
             sums == [i \in 0..Len(parts) |-> 9 + 7 * i]
  <1>1. ReadInterfaceDesc(iface, 247) = after[Len(parts)]
    BY DEF ReadInterfaceDesc, Follow
  <1> HIDE DEF parts
  <1>2. Len(parts) \in 1..2
    BY DEF parts
  <1>3. start = 9
    <2>1. Len(iface.others) = 0
      OBVIOUS
    <2>2. [i \in 0..0 |-> 9] = Others([i \in 0..0 |-> 9])
      BY <2>1
    <2>3. others = Others(others)
      <3> HIDE DEF Others
      <3> QED BY <2>2
    <2> HIDE DEF others
    <2> QED BY <2>1, <2>3
  <1> HIDE DEF start
  <1>4. sums = Follows(sums)
    <2> DEFINE k == Len(parts)
    <2> HIDE DEF k
    <2>1. k \in 1..2 /\ sums = [i \in 0..k |-> 9 + 7 * i]
      BY <1>2 DEF k
    <2>2. \A i \in 0..k : i # 0 => sums[i - 1] = 2 + 7 * i
      BY <2>1
    <2>3. \A i \in 0..k : i # 0 => ReadEndpointDesc(parts[i], 247 - sums[i - 1]) = 7
      BY <2>1, <2>2 DEF ReadEndpointDesc, Room
    <2>4. sums[0] = 9 /\ DOMAIN sums = 0..k
      BY <2>1
    <2>5. \A i \in 0..k : i # 0 => sums[i] = 9 + 7 * i /\ sums[i - 1] \in Nat
      BY <2>1
    <2>6. \A i \in 0..k : Follows(sums)[i] = sums[i]
      BY <1>3, <2>1, <2>2, <2>3, <2>4, <2>5 DEF k, Refused
    <2>7. DOMAIN Follows(sums) = 0..k /\ Follows(sums) = [i \in 0..k |-> Follows(sums)[i]]
      BY DEF k
    <2>8. sums = [i \in 0..k |-> sums[i]]
      BY <2>1, <2>4
    <2> HIDE DEF Follows
    <2> QED BY <2>6, <2>7, <2>8
  <1>5. after = Follows(after)
    <2> HIDE DEF Follows
    <2> QED BY <1>4
  <1> HIDE DEF after
  <1>6. after[0] = 9
    BY <1>2, <1>3, <1>5
  <1>7. \A e : ReadEndpointDesc(e, 238) = 7 /\ ReadEndpointDesc(e, 231) = 7
    BY DEF ReadEndpointDesc, Room
  <1>8. after[1] = 16
    <2>1. 1 \in 0..Len(parts) /\ 1 # 0 /\ 1 - 1 = 0 /\ 247 - 9 = 238 /\ 9 + 7 = 16
      BY <1>2
    <2>2. after[1] = IF after[0] = Refused \/ ReadEndpointDesc(parts[1], 247 - after[0]) = Refused THEN Refused
                     ELSE after[0] + ReadEndpointDesc(parts[1], 247 - after[0])
      BY <1>5, <2>1
    <2> HIDE DEF Follows
    <2> QED BY <1>6, <1>7, <2>1, <2>2 DEF Refused
  <1>9. 2 <= Len(parts) => after[2] = 23
    <2> SUFFICES ASSUME 2 <= Len(parts) PROVE after[2] = 23
      OBVIOUS
    <2>1. 2 \in 0..Len(parts) /\ 2 # 0 /\ 2 - 1 = 1 /\ 247 - 16 = 231 /\ 16 + 7 = 23
      BY <1>2
    <2>2. after[2] = IF after[1] = Refused \/ ReadEndpointDesc(parts[2], 247 - after[1]) = Refused THEN Refused
                     ELSE after[1] + ReadEndpointDesc(parts[2], 247 - after[1])
      BY <1>5, <2>1
    <2> HIDE DEF Follows
    <2> QED BY <1>7, <1>8, <2>1, <2>2 DEF Refused
  <1>10. Len(parts) = 1 \/ Len(parts) = 2
    BY <1>2
  <1>11. after[Len(parts)] = 9 + 7 * Len(parts)
    <2> HIDE DEF Follows
    <2>1. CASE Len(parts) = 1
      BY <1>8, <2>1
    <2>2. CASE Len(parts) = 2
      BY <1>9, <2>2
    <2> QED BY <1>10, <2>1, <2>2
  <1>12. parts = iface.endpoints
    BY DEF parts
  <1> HIDE DEF Follows
  <1> QED BY <1>1, <1>11, <1>12

\* The configuration of each device, in bytes.
LEMMA ConfigurationRead ==
    ASSUME NEW d, Len(d) \in 1..2
    PROVE  ReadConfigurationDesc(Configurations(d)[1], BufferSize) = IF IsHub(d) THEN 25 ELSE 32
  <1> DEFINE conf == Configurations(d)[1]
             one == <<Endpoint(In + 1)>>
             two == <<Endpoint(In + 2), Endpoint(2)>>
             n == IF IsHub(d) THEN 16 ELSE 23
             Follows(f) ==
               [i \in 0..Len(conf.interfaces) |->
                  IF i = 0 THEN 9
                  ELSE IF f[i - 1] = Refused \/ ReadInterfaceDesc(conf.interfaces[i], BufferSize - f[i - 1]) = Refused THEN Refused
                  ELSE f[i - 1] + ReadInterfaceDesc(conf.interfaces[i], BufferSize - f[i - 1])]
             after == CHOOSE f : f = Follows(f)
             sums == [i \in 0..1 |-> IF i = 0 THEN 9 ELSE 9 + n]
  <1>1. ReadConfigurationDesc(conf, BufferSize) = IF BufferSize < 9 THEN Refused ELSE after[Len(conf.interfaces)]
    BY DEF ReadConfigurationDesc, Follow
  <1>2. Len(conf.interfaces) = 1 /\ ReadInterfaceDesc(conf.interfaces[1], 247) = n
    <2>1. \A e : Interface(e).others = <<>> /\ Interface(e).endpoints = e
      BY DEF Interface
    <2>2. conf.interfaces = IF IsHub(d) THEN <<Interface(one)>> ELSE <<Interface(two)>>
      BY DEF Configurations, Class, IsHub, HubClass, GamepadClass
    <2>3. Len(one) = 1 /\ Len(two) = 2
      OBVIOUS
    <2> HIDE DEF one, two, conf
    <2>4. /\ Interface(one).others = <<>> /\ Len(Interface(one).endpoints) = 1
          /\ Interface(two).others = <<>> /\ Len(Interface(two).endpoints) = 2
      BY <2>1, <2>3
    <2> HIDE DEF Interface
    <2> HIDE DEF one, two
    <2>5. ReadInterfaceDesc(Interface(one), 247) = 16 /\ ReadInterfaceDesc(Interface(two), 247) = 23
      <3>1. \A iface : iface.others = <<>> /\ Len(iface.endpoints) \in 1..2
              => ReadInterfaceDesc(iface, 247) = 9 + 7 * Len(iface.endpoints)
        BY InterfaceRead
      <3>2. 1 \in 1..2 /\ 2 \in 1..2 /\ 9 + 7 * 1 = 16 /\ 9 + 7 * 2 = 23
        OBVIOUS
      <3> HIDE DEF ReadInterfaceDesc
      <3> QED BY <2>4, <3>1, <3>2, Zenon
    <2> HIDE DEF ReadInterfaceDesc
    <2> QED BY <2>2, <2>5
  <1> HIDE DEF conf
  <1>3. n \in {16, 23}
    OBVIOUS
  <1> HIDE DEF n
  <1>4. sums = Follows(sums)
    <2>1. sums[0] = 9
      OBVIOUS
    <2> QED BY <1>2, <1>3 DEF Refused, BufferSize
  <1>5. after = Follows(after)
    <2> HIDE DEF Follows
    <2> QED BY <1>4
  <1> HIDE DEF after
  <1>6. after[0] = 9
    BY <1>2, <1>5
  <1>7. after[1] = 9 + n
    BY <1>2, <1>3, <1>5, <1>6 DEF Refused, BufferSize
  <1> QED BY <1>1, <1>2, <1>7 DEF conf, n, BufferSize

\* A device refuses a descriptor or answers with a number of bytes.
LEMMA DescriptorLength ==
    ASSUME NEW d, Len(d) \in 1..2, NEW type \in Nat, NEW index \in Nat, NEW len \in Nat
    PROVE  GetDescriptor(d, type, index, len) \in Nat \cup {Refused}
  <1>1. ReadDeviceDesc(BufferSize) \in Nat \cup {Refused}
    BY DEF ReadDeviceDesc, Room, BufferSize, Refused
  <1>2. index < Len(Configurations(d)) => ReadConfigurationDesc(Configurations(d)[index + 1], BufferSize) \in Nat
    <2>1. Len(Configurations(d)) = 1
      BY DEF Configurations
    <2>2. ReadConfigurationDesc(Configurations(d)[1], BufferSize) \in Nat
      BY ConfigurationRead
    <2>3. index < Len(Configurations(d)) => index + 1 = 1
      BY <2>1
    <2> HIDE DEF ReadConfigurationDesc
    <2> QED BY <2>2, <2>3
  <1>3. ReadStringDesc(d, index, BufferSize) \in Nat \cup {Refused}
    <2>1. StringLength(d, index) \in Nat \cup {Refused}
      <3>1. Class(d).product \in Nat /\ Class(d).serial \in Nat
        BY DEF Class, HubClass, GamepadClass
      <3>2. \/ StringLength(d, index) = 13 \/ StringLength(d, index) = Class(d).product
            \/ StringLength(d, index) = SerialLength(d) \/ StringLength(d, index) = Refused
        BY DEF StringLength
      <3>3. SerialLength(d) \in Nat
        BY <3>1 DEF SerialLength
      <3> QED BY <3>1, <3>2, <3>3
    <2>2. ReadStringDesc(d, index, BufferSize) \in
            {4, 0, 2 * StringLength(d, index) + 2, 2 * (256 \div 2)} \/ ReadStringDesc(d, index, BufferSize) = Refused
      BY DEF ReadStringDesc, BufferSize
    <2>3. StringLength(d, index) = Refused => 2 * StringLength(d, index) + 2 = 0
      BY DEF Refused
    <2>4. 2 * (256 \div 2) \in Nat
      OBVIOUS
    <2> HIDE DEF ReadStringDesc
    <2> QED BY <2>1, <2>2, <2>3, <2>4
  <1> DEFINE n == CASE type = 1 -> ReadDeviceDesc(BufferSize)
                    [] type = 2 /\ index < Len(Configurations(d)) ->
                         ReadConfigurationDesc(Configurations(d)[index + 1], BufferSize)
                    [] type = 3 -> ReadStringDesc(d, index, BufferSize)
                    [] OTHER -> Refused
  <1>4. n \in Nat \cup {Refused}
    <2>1. \/ n = ReadDeviceDesc(BufferSize)
          \/ /\ index < Len(Configurations(d))
             /\ n = ReadConfigurationDesc(Configurations(d)[index + 1], BufferSize)
          \/ n = ReadStringDesc(d, index, BufferSize)
          \/ n = Refused
      OBVIOUS
    <2> QED BY <1>1, <1>2, <1>3, <2>1
  <1>5. GetDescriptor(d, type, index, len) = IF n > len THEN len ELSE n
    BY DEF GetDescriptor
  <1> HIDE DEF n
  <1> QED BY <1>4, <1>5

\* A device refuses a control read or answers with a number of bytes, and that depends on its
\* configuration only.
LEMMA ReplyLength ==
    ASSUME NEW w, NEW d \in Devices, NEW req, req.value \in Nat, req.length \in Nat
    PROVE  Reply(w, d, req) \in Nat \cup {Refused}
  <1>1. Len(d) \in 1..2
    BY DEF Devices, Hubs, Gamepads
  <1>2. StandardRead(w, d, req) \in Nat \cup {Refused}
    <2> DEFINE n == GetDescriptor(d, req.value \div 256, req.value % 256, req.length)
    <2>1. req.value \div 256 \in Nat /\ req.value % 256 \in Nat
      OBVIOUS
    <2>2. n \in Nat \cup {Refused}
      BY <1>1, <2>1, DescriptorLength
    <2>3. \/ StandardRead(w, d, req) = 2 \/ StandardRead(w, d, req) = 1 \/ StandardRead(w, d, req) = n
          \/ StandardRead(w, d, req) = Refused
      BY DEF StandardRead
    <2> HIDE DEF n
    <2> QED BY <2>2, <2>3
  <1>3. HubRead(req) \in Nat \cup {Refused}
    <2>1. HubRead(req) = 4 \/ HubRead(req) = 10 \/ HubRead(req) = Refused
      BY DEF HubRead
    <2> QED BY <2>1
  <1>4. GamepadRead(req) \in Nat \cup {Refused}
    <2>1. Min2(req.length, 20) \in Nat /\ Min2(req.length, 6) \in Nat
      BY DEF Min2
    <2>2. \/ GamepadRead(req) = req.length \/ GamepadRead(req) = 16
          \/ GamepadRead(req) = Min2(req.length, 20) \/ GamepadRead(req) = Min2(req.length, 6)
          \/ GamepadRead(req) = Refused
      BY DEF GamepadRead
    <2> QED BY <2>1, <2>2
  <1> QED BY <1>2, <1>3, <1>4 DEF Reply

LEMMA ReplyKept ==
    ASSUME NEW w, NEW v, NEW d, NEW req, v.dev[d].configuration = w.dev[d].configuration
    PROVE  Reply(v, d, req) = Reply(w, d, req)
  BY DEF Reply, StandardRead

-----------------------------------------------------------------------------
(* A packet in a control transfer.  The invariant: the device that hears    *)
(* the guest has taken the same SETUP and has got as far as the guest.      *)

\* What the transfer of a device is after a piece of it, and when it is over.
LEMMA PieceFields ==
    ASSUME NEW w, TreeShape(w), NEW d \in Devices, NEW n
    PROVE  LET s == w.dev[d]   t == Piece(w, d, n).dev[d]
           IN  /\ t.index = s.index + n /\ t.setup = IF s.index + n >= s.length THEN "ack" ELSE s.setup
               /\ t.request = s.request /\ t.length = s.length /\ t.ran = s.ran /\ t.data = s.data
               /\ t.configuration = s.configuration
               /\ \A e \in Devices : e # d => Piece(w, d, n).dev[e] = w.dev[e]
  <1> DEFINE s == [w.dev[d] EXCEPT !.index = @ + n,
                                   !.setup = IF w.dev[d].index + n >= w.dev[d].length THEN "ack" ELSE @]
             v == Piece(w, d, n)
  <1>1. DOMAIN w = TreeFields /\ DOMAIN w.dev = Devices /\ DOMAIN w.dev[d] = DeviceFields
    BY DEF TreeShape
  <1>2. v.dev = [w.dev EXCEPT ![d] = s]
    BY <1>1 DEF Piece, TreeFields
  <1>3. /\ s.index = w.dev[d].index + n
        /\ s.setup = IF w.dev[d].index + n >= w.dev[d].length THEN "ack" ELSE w.dev[d].setup
        /\ s.request = w.dev[d].request /\ s.length = w.dev[d].length /\ s.ran = w.dev[d].ran
        /\ s.data = w.dev[d].data /\ s.configuration = w.dev[d].configuration
    BY <1>1 DEF DeviceFields
  <1> HIDE DEF s
  <1>4. v.dev[d] = s /\ \A e \in Devices : e # d => v.dev[e] = w.dev[e]
    BY <1>1, <1>2
  <1> HIDE DEF v
  <1> QED BY <1>3, <1>4 DEF v

LEMMA FinishFields ==
    ASSUME NEW w, TreeShape(w), NEW d \in Devices
    PROVE  LET v == Finish(w, d)
           IN  /\ v.dev[d].setup = "idle" /\ v.dev[d].ran = w.dev[d].ran
               /\ \A e \in Devices : e # d => v.dev[e] = w.dev[e]
  <1> DEFINE s == [w.dev[d] EXCEPT !.setup = "idle", !.request = NoRequest, !.length = 0, !.index = 0,
                                   !.data = NewDevice.data]
             v == Finish(w, d)
  <1>1. DOMAIN w = TreeFields /\ DOMAIN w.dev = Devices /\ DOMAIN w.dev[d] = DeviceFields
    BY DEF TreeShape
  <1>2. v.dev = [w.dev EXCEPT ![d] = s]
    BY <1>1 DEF Finish, TreeFields
  <1>3. s.setup = "idle" /\ s.ran = w.dev[d].ran
    BY <1>1 DEF DeviceFields
  <1> HIDE DEF s
  <1>4. v.dev[d] = s /\ \A e \in Devices : e # d => v.dev[e] = w.dev[e]
    BY <1>1, <1>2
  <1> QED BY <1>3, <1>4

\* A write that takes effect is counted once, on its device.
OneMore(w, v, d) ==
    \A e \in Devices : \/ v.dev[e].ran = w.dev[e].ran \/ v.dev[e].ran = 0
                       \/ e = d /\ v.dev[e].ran = w.dev[e].ran + 1

LEMMA HandleWriteRuns ==
    ASSUME NEW w, TreeShape(w), NEW d \in Devices, NEW q
    PROVE  OneMore(w, HandleWrite(w, d, q).tree, d)
  <1> DEFINE v == [w EXCEPT !.dev[d].ran = @ + 1]
             s == [w.dev[d] EXCEPT !.ran = @ + 1]
             r == HandleWrite(w, d, q)
             a == q.value % 256
             b == q.name = "SetFeature"
             addressed == [v EXCEPT !.dev[d].addr = q.value % 256]
             configured == [v EXCEPT !.dev[d].configuration = q.value]
             woken == [v EXCEPT !.dev[d].wakeup = (q.name = "SetFeature")]
  <1>1. DOMAIN w = TreeFields /\ DOMAIN w.dev = Devices /\ DOMAIN w.dev[d] = DeviceFields
    BY DEF TreeShape
  <1>2. DOMAIN v = TreeFields /\ v.root = w.root /\ v.hub = w.hub /\ v.intr = w.intr /\ v.dev = [w.dev EXCEPT ![d] = s]
    BY <1>1 DEF TreeFields
  <1>3. /\ DOMAIN s = DeviceFields /\ s.attached = w.dev[d].attached /\ s.state = w.dev[d].state
        /\ s.addr = w.dev[d].addr /\ s.plugged = w.dev[d].plugged /\ s.ran = w.dev[d].ran + 1
    BY <1>1 DEF DeviceFields
  <1>4. \/ r = SetAddress(v, d, q) \/ r = SetConfiguration(v, d, q) \/ r = RemoteWakeup(v, d, q)
        \/ IsHub(d) /\ r = SetPortFeature(v, d[1], q)
        \/ IsHub(d) /\ r = ClearPortFeature(v, d[1], q)
        \/ r = SetInterface(v, d, q) \/ r = ClearEndpointFeature(v, d, q) \/ r = HubFeature(v, q)
        \/ r = SetReport(v, q) \/ r = Done(v, "stall")
    BY DEF HandleWrite
  <1>5. \/ r = Done(addressed, "ok") \/ r = Done(configured, "ok") \/ r = Done(woken, "ok")
        \/ IsHub(d) /\ r = SetPortFeature(v, d[1], q)
        \/ IsHub(d) /\ r = ClearPortFeature(v, d[1], q)
        \/ r = Done(v, "ok") \/ r = Done(v, "stall")
    <2> HIDE DEF r, v
    <2> QED BY <1>4 DEF SetAddress, SetConfiguration, RemoteWakeup, SetInterface, ClearEndpointFeature,
                        HubFeature, SetReport
  <1> HIDE DEF s, v, r
  <1>6. /\ DOMAIN v = TreeFields /\ DOMAIN v.dev = Devices /\ v.dev[d] = s
        /\ \A e \in Devices : e # d => v.dev[e] = w.dev[e]
    BY <1>1, <1>2
  <1>7. Edited(w, v, d) /\ TreeShape(v)
    <2>1. Edited(w, v, d)
      BY <1>2, <1>3, <1>6 DEF Edited, OnlyDevice
    <2> QED BY <2>1, EditedListens
  <1>8. ASSUME NEW x, RunsFall(v, x) PROVE OneMore(w, x, d)
    BY <1>3, <1>6, <1>8 DEF RunsFall, OneMore
  <1>9. RunsFall(v, v)
    BY DEF RunsFall
  <1>10. RunsFall(v, addressed) /\ RunsFall(v, configured) /\ RunsFall(v, woken)
    <2>1. DOMAIN v.dev[d] = DeviceFields
      BY <1>3, <1>6
    <2> DEFINE t1 == [v.dev[d] EXCEPT !.addr = a]
               t2 == [v.dev[d] EXCEPT !.configuration = q.value]
               t3 == [v.dev[d] EXCEPT !.wakeup = b]
    <2> HIDE DEF a, b
    <2>2. /\ addressed.dev = [v.dev EXCEPT ![d] = t1] /\ configured.dev = [v.dev EXCEPT ![d] = t2]
          /\ woken.dev = [v.dev EXCEPT ![d] = t3]
      BY <1>6 DEF TreeFields, a, b
    <2>3. t1.ran = v.dev[d].ran /\ t2.ran = v.dev[d].ran /\ t3.ran = v.dev[d].ran
      BY <2>1 DEF DeviceFields
    <2> HIDE DEF t1, t2, t3, addressed, configured, woken
    <2> QED BY <1>6, <2>2, <2>3 DEF RunsFall
  <1>11. ASSUME IsHub(d)
         PROVE  RunsFall(v, SetPortFeature(v, d[1], q).tree) /\ RunsFall(v, ClearPortFeature(v, d[1], q).tree)
    <2>1. d[1] \in Roots
      BY DeviceNames
    <2> QED BY <1>7, <2>1, SetPortFeatureEffect, ClearPortFeatureEffect DEF Quiet
  <1> HIDE DEF addressed, configured, woken
  <1>12. RunsFall(v, r.tree)
    BY <1>5, <1>9, <1>10, <1>11, DoneFields
  <1> QED BY <1>8, <1>12 DEF r

\* What the request q brings from the device d, or takes to it, in bytes.
Total(w, d, q) == IF IsRead(q) THEN Min2(Reply(w, d, q), q.length) ELSE q.length
\* The device d has taken the SETUP with the request q, and n bytes have gone over since.
Serves(w, d, q, n) ==
    LET s == w.dev[d]
    IN  /\ s.request = q /\ s.ran = 0 /\ s.length = Total(w, d, q) /\ s.length \in Nat
        /\ s.index = n /\ n \in 0..s.length
        /\ s.setup \in {"data", "ack"} /\ (s.setup = "ack" => n = s.length)
        /\ IsRead(q) => s.data.of = q

LEMMA AnswerFields ==
    ASSUME NEW u, NEW s
    PROVE  Done(u, s).tree = u /\ Done(u, s).status = s /\ Done(u, s).count = 0
  BY DEF Done

LEMMA SetupServes ==
    ASSUME NEW w, TreeShape(w), NEW d \in Devices, NEW req, req.value \in Nat, req.length \in Nat, NEW size
    PROVE  LET r == DoTokenSetup(w, d, req, size)
           IN  /\ RunsFall(w, r.tree) /\ r.count = 0
               /\ r.status = "ok" => Serves(r.tree, d, req, 0)
  <1> DEFINE s == [w.dev[d] EXCEPT !.request = req, !.length = req.length, !.index = 0, !.ran = 0]
             v == [w EXCEPT !.dev[d].request = req, !.dev[d].length = req.length, !.dev[d].index = 0,
                            !.dev[d].ran = 0]
             n == Reply(w, d, req)
             of == Filled(w, d, req)
             length == Min2(n, req.length)
             stage == IF req.length = 0 THEN "ack" ELSE "data"
             t1 == [s EXCEPT !.data = of, !.setup = "data", !.length = length]
             t2 == [s EXCEPT !.setup = stage]
             v1 == [v EXCEPT !.dev[d].data = Filled(w, d, req), !.dev[d].setup = "data",
                             !.dev[d].length = Min2(n, req.length)]
             v2 == [v EXCEPT !.dev[d].setup = IF req.length = 0 THEN "ack" ELSE "data"]
             r == DoTokenSetup(w, d, req, size)
  <1>1. DOMAIN w = TreeFields /\ DOMAIN w.dev = Devices /\ DOMAIN w.dev[d] = DeviceFields
    BY DEF TreeShape
  <1>2. DOMAIN v = TreeFields /\ v.dev = [w.dev EXCEPT ![d] = s]
    BY <1>1 DEF TreeFields, DeviceFields
  <1>3. r = IF size # 8 THEN Done(w, "stall")
            ELSE IF IsRead(req)
            THEN IF n = Refused THEN Done(v, "stall") ELSE Done(v1, "ok")
            ELSE IF req.length > DataSize THEN Done(v, "stall")
            ELSE Done(v2, "ok")
    BY DEF DoTokenSetup
  <1> HIDE DEF v, r
  <1>4. /\ DOMAIN s = DeviceFields /\ s.request = req /\ s.length = req.length /\ s.index = 0 /\ s.ran = 0
        /\ s.configuration = w.dev[d].configuration
    BY <1>1 DEF DeviceFields
  <1> HIDE DEF s
  <1>5. /\ DOMAIN v.dev = Devices /\ v.dev[d] = s /\ \A e \in Devices : e # d => v.dev[e] = w.dev[e]
    BY <1>1, <1>2
  <1>6. of.of = req
    BY DEF Filled
  <1> HIDE DEF of, length, stage, n
  <1>7. v1.dev = [v.dev EXCEPT ![d] = t1] /\ v2.dev = [v.dev EXCEPT ![d] = t2]
    <2>1. v1.dev = [v.dev EXCEPT ![d] = t1]
      BY <1>2, <1>4, <1>5 DEF TreeFields, DeviceFields, of, length
    <2>2. v2.dev = [v.dev EXCEPT ![d] = t2]
      BY <1>2, <1>4, <1>5 DEF TreeFields, DeviceFields, stage
    <2> QED BY <2>1, <2>2
  <1>8. /\ t1.request = req /\ t1.index = 0 /\ t1.ran = 0 /\ t1.configuration = w.dev[d].configuration
        /\ t1.length = length /\ t1.setup = "data" /\ t1.data = of
        /\ t2.request = req /\ t2.index = 0 /\ t2.ran = 0 /\ t2.configuration = w.dev[d].configuration
        /\ t2.length = req.length /\ t2.setup = stage
    BY <1>4 DEF DeviceFields
  <1> HIDE DEF v1, v2, t1, t2
  <1>9. /\ v1.dev[d] = t1 /\ \A e \in Devices : e # d => v1.dev[e] = w.dev[e]
        /\ v2.dev[d] = t2 /\ \A e \in Devices : e # d => v2.dev[e] = w.dev[e]
    BY <1>5, <1>7
  <1>10. RunsFall(w, w) /\ RunsFall(w, v) /\ RunsFall(w, v1) /\ RunsFall(w, v2)
    BY <1>4, <1>5, <1>8, <1>9 DEF RunsFall
  <1>11. ASSUME IsRead(req), n # Refused PROVE Serves(v1, d, req, 0)
    <2>1. n \in Nat
      BY <1>11, ReplyLength DEF n
    <2>2. length \in Nat
      BY <2>1 DEF length, Min2
    <2>3. Reply(v1, d, req) = n
      BY <1>8, <1>9, ReplyKept DEF n
    <2>4. length = Total(v1, d, req)
      BY <1>11, <2>3 DEF length, Total
    <2>5. 0 \in 0..length
      BY <2>2
    <2> QED BY <1>6, <1>8, <1>9, <2>2, <2>4, <2>5 DEF Serves
  <1>12. ASSUME ~IsRead(req) PROVE Serves(v2, d, req, 0)
    <2>1. stage \in {"data", "ack"} /\ (stage = "ack" => req.length = 0)
      BY DEF stage
    <2>2. Total(v2, d, req) = req.length
      BY <1>12 DEF Total
    <2> QED BY <1>8, <1>9, <1>12, <2>1, <2>2 DEF Serves
  <1>13. \/ r = Done(w, "stall") \/ r = Done(v, "stall")
         \/ IsRead(req) /\ n # Refused /\ r = Done(v1, "ok")
         \/ ~IsRead(req) /\ r = Done(v2, "ok")
    BY <1>3
  <1>14. /\ RunsFall(w, r.tree) /\ r.count = 0
         /\ r.status = "ok" => Serves(r.tree, d, req, 0)
    <2>1. "stall" # "ok"
      OBVIOUS
    <2> QED BY <1>10, <1>11, <1>12, <1>13, <2>1, AnswerFields
  <1> QED BY <1>14 DEF r

LEMMA RestFits ==
    ASSUME NEW s, s.length \in Nat, s.index \in 0..s.length, NEW size \in Nat
    PROVE  /\ Rest(s, size) \in Nat /\ s.index + Rest(s, size) \in 0..s.length
           /\ s.index + Rest(s, size) = Min2(s.index + size, s.length)
           /\ s.index + Rest(s, size) >= s.length <=> s.index + Rest(s, size) = s.length
  BY DEF Rest, Min2

LEMMA PieceServes ==
    ASSUME NEW w, TreeShape(w), NEW d \in Devices, NEW q, NEW n, Serves(w, d, q, n), NEW size \in Nat
    PROVE  LET k == Rest(w.dev[d], size)
           IN  /\ Serves(Piece(w, d, k), d, q, n + k) /\ RunsFall(w, Piece(w, d, k)) /\ k \in Nat
               /\ Total(Piece(w, d, k), d, q) = Total(w, d, q)
  <1> DEFINE k == Rest(w.dev[d], size)
             v == Piece(w, d, k)
             s == w.dev[d]
             t == v.dev[d]
  <1>1. /\ k \in Nat /\ s.index + k \in 0..s.length
        /\ s.index + k >= s.length <=> s.index + k = s.length
    BY RestFits DEF Serves
  <1> HIDE DEF k
  <1>2. /\ t.index = s.index + k /\ t.setup = IF s.index + k >= s.length THEN "ack" ELSE s.setup
        /\ t.request = s.request /\ t.length = s.length /\ t.ran = s.ran /\ t.data = s.data
        /\ t.configuration = s.configuration
        /\ \A e \in Devices : e # d => v.dev[e] = w.dev[e]
    BY PieceFields
  <1> HIDE DEF v
  <1>3. Total(v, d, q) = Total(w, d, q)
    BY <1>2, ReplyKept DEF Total
  <1> HIDE DEF s, t
  <1>4. RunsFall(w, v)
    BY <1>2 DEF RunsFall, s, t
  <1>5. /\ s.request = q /\ s.ran = 0 /\ s.length = Total(w, d, q) /\ s.length \in Nat
        /\ s.index = n /\ n \in 0..s.length
        /\ s.setup \in {"data", "ack"} /\ (s.setup = "ack" => n = s.length)
        /\ IsRead(q) => s.data.of = q
    BY DEF Serves, s
  <1>6. t.setup \in {"data", "ack"} /\ (t.setup = "ack" => n + k = t.length)
    <2>1. s.setup = "ack" => n + k = s.length
      BY <1>1, <1>5
    <2> QED BY <1>1, <1>2, <1>5, <2>1
  <1>7. Serves(v, d, q, n + k)
    BY <1>1, <1>2, <1>3, <1>5, <1>6 DEF Serves, t
  <1> QED BY <1>1, <1>3, <1>4, <1>7 DEF v, k

\* An IN in a transfer: a read goes on where it is, a write takes effect when all of it is there.
LEMMA InServes ==
    ASSUME NEW w, TreeShape(w), NEW d \in Devices, NEW q, NEW n, Serves(w, d, q, n), NEW size \in Nat
    PROVE  LET r == DoTokenIn(w, d, size)
           IN  /\ IsRead(q) => \E k \in Nat :
                     /\ r.status = "ok" /\ r.count = k /\ Serves(r.tree, d, q, n + k) /\ RunsFall(w, r.tree)
                     /\ Total(r.tree, d, q) = Total(w, d, q)
                     /\ k > 0 => r.from = n /\ r.data.of = q
               /\ ~IsRead(q) =>
                     /\ r.count = 0
                     /\ \/ r.status = "stall" /\ RunsFall(w, r.tree)
                        \/ n = q.length /\ r.tree.dev[d].setup = "idle" /\ OneMore(w, r.tree, d)
  <1> DEFINE r == DoTokenIn(w, d, size)
             s == w.dev[d]
             k == Rest(s, size)
             u == Piece(w, d, k)
             written == HandleWrite(w, d, q)
  <1>1. /\ s.request = q /\ s.length = Total(w, d, q) /\ s.length \in Nat /\ s.index = n /\ n \in 0..s.length
        /\ s.setup \in {"data", "ack"} /\ (s.setup = "ack" => n = s.length)
        /\ IsRead(q) => s.data.of = q
    BY DEF Serves
  <1>2. /\ IsRead(q) => r = Done(w, "ok") \/ r = Sent(u, d, k, s.index)
        /\ ~IsRead(q) /\ s.setup = "data" => r = Done(Finish(w, d), "stall")
        /\ ~IsRead(q) /\ s.setup = "ack" => r = Done(Finish(written.tree, d), written.status)
    <2>1. r = CASE s.setup = "ack" /\ ~IsRead(s.request) ->
                     Done(Finish(HandleWrite(w, d, s.request).tree, d), HandleWrite(w, d, s.request).status)
                [] s.setup = "ack" /\ IsRead(s.request) -> Done(w, "ok")
                [] s.setup = "data" /\ IsRead(s.request) -> Sent(u, d, k, s.index)
                [] s.setup = "data" /\ ~IsRead(s.request) -> Done(Finish(w, d), "stall")
                [] OTHER -> Done(w, "stall")
      BY DEF DoTokenIn
    <2> HIDE DEF r, s, u, k
    <2> QED BY <1>1, <2>1
  <1> HIDE DEF r
  <1>3. Serves(u, d, q, n + k) /\ RunsFall(w, u) /\ k \in Nat /\ Total(u, d, q) = Total(w, d, q)
    BY PieceServes
  <1>4. u.dev[d].data = s.data
    <2> HIDE DEF k
    <2> QED BY PieceFields
  <1> HIDE DEF u, k
  <1>5. ASSUME IsRead(q)
        PROVE  \E j \in Nat :
                  /\ r.status = "ok" /\ r.count = j /\ Serves(r.tree, d, q, n + j) /\ RunsFall(w, r.tree)
                  /\ Total(r.tree, d, q) = Total(w, d, q)
                  /\ j > 0 => r.from = n /\ r.data.of = q
    <2>1. CASE r = Done(w, "ok")
      <3>1. r.status = "ok" /\ r.count = 0 /\ r.tree = w
        BY <2>1, AnswerFields
      <3>2. n + 0 = n /\ 0 \in Nat /\ ~(0 > 0)
        BY <1>1
      <3>3. RunsFall(w, w)
        BY DEF RunsFall
      <3> QED BY <3>1, <3>2, <3>3
    <2>2. CASE r = Sent(u, d, k, s.index)
      <3>1. r.status = "ok" /\ r.count = k /\ r.tree = u /\ r.from = n /\ r.data = u.dev[d].data
        BY <1>1, <2>2 DEF Sent
      <3> QED BY <1>1, <1>3, <1>4, <1>5, <3>1
    <2> QED BY <1>2, <1>5, <2>1, <2>2
  <1>6. ASSUME ~IsRead(q), s.setup = "data" PROVE r.status = "stall" /\ r.count = 0 /\ RunsFall(w, r.tree)
    <2>1. r.status = "stall" /\ r.count = 0 /\ r.tree = Finish(w, d)
      BY <1>2, <1>6, AnswerFields
    <2> QED BY <2>1, FinishFields DEF RunsFall
  <1>7. ASSUME ~IsRead(q), s.setup = "ack"
        PROVE  /\ r.count = 0
               /\ n = q.length /\ r.tree.dev[d].setup = "idle" /\ OneMore(w, r.tree, d)
    <2>1. r.count = 0 /\ r.tree = Finish(written.tree, d)
      BY <1>2, <1>7, AnswerFields
    <2>2. n = q.length
      BY <1>1, <1>7 DEF Total
    <2>3. OneMore(w, written.tree, d)
      BY HandleWriteRuns
    <2>4. TreeShape(written.tree)
      BY HandleWriteEffect DEF Obeyed
    <2> HIDE DEF written
    <2>5. /\ r.tree.dev[d].setup = "idle" /\ r.tree.dev[d].ran = written.tree.dev[d].ran
          /\ \A e \in Devices : e # d => r.tree.dev[e] = written.tree.dev[e]
      BY <2>1, <2>4, FinishFields
    <2>6. OneMore(w, r.tree, d)
      BY <2>3, <2>5 DEF OneMore
    <2> QED BY <2>1, <2>2, <2>5, <2>6
  <1> QED BY <1>1, <1>5, <1>6, <1>7 DEF r

\* An OUT in a transfer: a write goes on where it is, a read is over when all of it was given.
LEMMA OutServes ==
    ASSUME NEW w, TreeShape(w), NEW d \in Devices, NEW q, NEW n, Serves(w, d, q, n), NEW size \in Nat
    PROVE  LET r == DoTokenOut(w, d, size)
           IN  /\ r.count = 0 /\ RunsFall(w, r.tree)
               /\ IsRead(q) => \/ r.status = "stall"
                               \/ n = Total(w, d, q) /\ r.tree.dev[d].setup = "idle"
               /\ ~IsRead(q) => r.status = "ok" /\ Serves(r.tree, d, q, Min2(n + size, q.length))
  <1> DEFINE r == DoTokenOut(w, d, size)
             s == w.dev[d]
             k == Rest(s, size)
             u == Piece(w, d, k)
             new == [of |-> q, connected |-> FALSE]
             t == [u.dev[d] EXCEPT !.data = new]
             x == [u EXCEPT !.dev[d].data = new]
  <1>1. /\ s.request = q /\ s.length = Total(w, d, q) /\ s.length \in Nat /\ s.index = n /\ n \in 0..s.length
        /\ s.setup \in {"data", "ack"} /\ (s.setup = "ack" => n = s.length)
    BY DEF Serves
  <1>2. /\ IsRead(q) /\ s.setup = "ack" => r = Done(Finish(w, d), "ok")
        /\ IsRead(q) /\ s.setup = "data" => r = Done(Finish(w, d), "stall")
        /\ ~IsRead(q) /\ s.setup = "ack" => r = Done(w, "ok")
        /\ ~IsRead(q) /\ s.setup = "data" => r = Done(x, "ok")
    <2>1. r = CASE s.setup = "ack" /\ IsRead(s.request) -> Done(Finish(w, d), "ok")
                [] s.setup = "ack" /\ ~IsRead(s.request) -> Done(w, "ok")
                [] s.setup = "data" /\ ~IsRead(s.request) ->
                     Done([u EXCEPT !.dev[d].data = [of |-> s.request, connected |-> FALSE]], "ok")
                [] s.setup = "data" /\ IsRead(s.request) -> Done(Finish(w, d), "stall")
                [] OTHER -> Done(w, "stall")
      BY DEF DoTokenOut
    <2> HIDE DEF r, s, u, k
    <2> QED BY <1>1, <2>1
  <1> HIDE DEF r
  <1>3. Serves(u, d, q, n + k) /\ RunsFall(w, u) /\ k \in Nat
    BY PieceServes
  <1>4. n + k = Min2(n + size, s.length)
    BY <1>1, RestFits
  <1>5. TreeShape(u)
    <2> HIDE DEF k
    <2> QED BY PieceEdits, EditedListens
  <1> HIDE DEF u, k, new, s
  <1>6. ~IsRead(q) => Serves(x, d, q, n + k) /\ RunsFall(w, x)
    <2>1. DOMAIN u = TreeFields /\ DOMAIN u.dev = Devices /\ DOMAIN u.dev[d] = DeviceFields
      BY <1>5 DEF TreeShape
    <2>2. x.dev = [u.dev EXCEPT ![d] = t]
      BY <2>1 DEF TreeFields
    <2>3. /\ t.request = u.dev[d].request /\ t.ran = u.dev[d].ran /\ t.length = u.dev[d].length
          /\ t.index = u.dev[d].index /\ t.setup = u.dev[d].setup
      BY <2>1 DEF DeviceFields
    <2> HIDE DEF x, t
    <2>4. x.dev[d] = t /\ \A e \in Devices : e # d => x.dev[e] = u.dev[e]
      BY <2>1, <2>2
    <2>5. RunsFall(w, x)
      BY <1>3, <2>3, <2>4 DEF RunsFall
    <2>6. ~IsRead(q) => Total(x, d, q) = Total(u, d, q)
      BY DEF Total
    <2> QED BY <1>3, <2>3, <2>4, <2>5, <2>6 DEF Serves
  <1> HIDE DEF x
  <1>7. ~IsRead(q) => s.length = q.length
    BY <1>1 DEF Total
  <1>8. CASE IsRead(q)
    <2>1. r = Done(Finish(w, d), "stall") \/ (s.setup = "ack" /\ r = Done(Finish(w, d), "ok"))
      BY <1>1, <1>2, <1>8
    <2>2. r.tree = Finish(w, d) /\ r.count = 0 /\ (r.status = "stall" \/ n = s.length)
      BY <1>1, <2>1, AnswerFields
    <2>3. r.tree.dev[d].setup = "idle" /\ RunsFall(w, r.tree)
      BY <2>2, FinishFields DEF RunsFall
    <2> QED BY <1>1, <1>8, <2>2, <2>3 DEF r
  <1>9. CASE ~IsRead(q)
    <2>1. CASE s.setup = "ack"
      <3>1. r.tree = w /\ r.status = "ok" /\ r.count = 0
        BY <1>2, <1>9, <2>1, AnswerFields
      <3>2. Min2(n + size, q.length) = n
        BY <1>1, <1>7, <1>9, <2>1 DEF Min2
      <3>3. RunsFall(w, w)
        BY DEF RunsFall
      <3> QED BY <1>9, <3>1, <3>2, <3>3 DEF r
    <2>2. CASE s.setup = "data"
      <3>1. r.tree = x /\ r.status = "ok" /\ r.count = 0
        BY <1>2, <1>9, <2>2, AnswerFields
      <3> QED BY <1>4, <1>6, <1>7, <1>9, <3>1 DEF r
    <2> QED BY <1>1, <2>1, <2>2
  <1> QED BY <1>8, <1>9

\* Between two transfers the endpoint of a device stalls.
LEMMA IdleStalls ==
    ASSUME NEW w, NEW d, w.dev[d].setup = "idle", NEW size
    PROVE  /\ DoTokenIn(w, d, size) = Done(w, "stall")
           /\ DoTokenOut(w, d, size) = Done(w, "stall")
  BY DEF DoTokenIn, DoTokenOut

-----------------------------------------------------------------------------
(* The guest and the device stay in step.                                   *)

\* How far the guest believes its transfer to be, and the devices its packets reach.
Moved(t) == IF IsRead(t.request) THEN t.got ELSE t.sent
Hears(d) == Listens(usb, d) /\ usb.dev[d].addr = transfer.to
\* The device that hears the guest has got as far as the guest.
EndpointInv ==
    /\ transfer.got \in Nat /\ transfer.sent \in Nat /\ \A d \in Devices : usb.dev[d].ran \in Nat
    /\ ~Enumerates /\ transfer.stage \in {"open", "over"} => transfer.to = focus.to
    /\ transfer.stage = "open" =>
          /\ transfer.request.value \in Nat /\ transfer.request.length \in Nat
          /\ \A d \in Devices : Hears(d) => Serves(usb, d, transfer.request, Moved(transfer))
    /\ ~Enumerates /\ transfer.stage = "over" =>
          /\ transfer.request = NoRequest
          /\ \A d \in Devices : Hears(d) => usb.dev[d].setup = "idle"

\* The steps of ReadsInOrder and of WritesOnce.
GivesInOrder ==
    /\ transfer'.got > transfer.got
       => /\ answer'.data.of = transfer.request /\ answer'.from = transfer.got
          /\ transfer'.got <= Expected
    /\ /\ transfer.stage = "open" /\ transfer'.stage = "over" /\ IsRead(transfer.request)
       => transfer.got = Expected
TakesOnce ==
    \A d \in Devices :
        usb'.dev[d].ran > usb.dev[d].ran
        => /\ usb.dev[d].ran = 0 /\ usb.dev[d].request = transfer.request
           /\ transfer.sent = transfer.request.length

LEMMA EndpointInit == UsbInit => EndpointInv
  <1> SUFFICES ASSUME UsbInit PROVE EndpointInv
    OBVIOUS
  <1>1. transfer.stage = "none" /\ transfer.got = 0 /\ transfer.sent = 0
    BY DEF UsbInit, NoTransfer
  <1>2. ASSUME NEW d \in Devices PROVE usb.dev[d].ran \in Nat
    <2>1. CASE Enumerates
      BY <2>1 DEF UsbInit, EmptyTree, NewDevice
    <2>2. CASE ~Enumerates
      BY <2>2, EnumeratedAssumption DEF UsbInit
    <2> QED BY <2>1, <2>2
  <1> QED BY <1>1, <1>2 DEF EndpointInv

\* Only one device hears the guest, and it is the one Expected speaks of.
LEMMA OneHears ==
    ASSUME UsbInv, NEW to, Enumerates \/ to # 0, NEW d \in Devices, NEW e \in Devices,
           Listens(usb, d), usb.dev[d].addr = to, Listens(usb, e), usb.dev[e].addr = to
    PROVE  d = e
  BY PacketsFindFromInv DEF PacketsFind, NoSharedAddress

LEMMA ExpectedTotal ==
    ASSUME UsbInv, Enumerates \/ transfer.to # 0, NEW d \in Devices, Hears(d), IsRead(transfer.request)
    PROVE  Expected = Total(usb, d, transfer.request)
  <1> DEFINE x == CHOOSE x \in FindDevice(usb, transfer.to) : TRUE
  <1>1. FindDevice(usb, transfer.to) # {}
    BY SearchFindsListeners DEF Hears
  <1>2. x \in FindDevice(usb, transfer.to)
    BY <1>1
  <1>3. Expected = Min2(Reply(usb, x, transfer.request), transfer.request.length)
    BY DEF Expected
  <1> HIDE DEF x
  <1>4. x \in Devices /\ Listens(usb, x) /\ usb.dev[x].addr = transfer.to
    BY <1>2, SearchFindsListeners
  <1>5. x = d
    BY <1>4, OneHears DEF Hears
  <1> QED BY <1>3, <1>5 DEF Total

\* What is plugged, pulled, reset or written to a register does not touch a transfer.
LEMMA ElsewhereKeeps ==
    ASSUME UsbInv, EndpointInv, RunsFall(usb, usb'), focus' = focus,
           transfer' = transfer \/ transfer' = NoTransfer,
           transfer'.stage = "open" \/ ~Enumerates => \A d \in Devices : Listens(usb', d) => AsBefore(usb, usb', d)
    PROVE  EndpointInv' /\ GivesInOrder /\ TakesOnce
  <1> USE DEF EndpointInv
  <1>1. \A d \in Devices : usb'.dev[d].ran \in Nat /\ ~(usb'.dev[d].ran > usb.dev[d].ran)
    BY DEF RunsFall
  <1>2. /\ NoTransfer.stage = "none" /\ NoTransfer.got = 0 /\ NoTransfer.sent = 0
    BY DEF NoTransfer
  <1>3. /\ transfer'.got \in Nat /\ transfer'.sent \in Nat /\ ~(transfer'.got > transfer.got)
        /\ ~(transfer.stage = "open" /\ transfer'.stage = "over")
        /\ transfer'.stage \in {"open", "over"} => transfer' = transfer
    BY <1>2
  <1>4. ASSUME transfer' = transfer, NEW d \in Devices, Listens(usb', d), usb'.dev[d].addr = transfer'.to,
               AsBefore(usb, usb', d)
        PROVE  /\ Hears(d) /\ usb'.dev[d] = usb.dev[d]
               /\ \A q, n : Serves(usb, d, q, n) => Serves(usb', d, q, n)
    <2>1. Hears(d) /\ usb'.dev[d] = usb.dev[d]
      BY <1>4 DEF AsBefore, Hears
    <2>2. \A q : Total(usb', d, q) = Total(usb, d, q)
      BY <2>1, ReplyKept DEF Total
    <2> QED BY <2>1, <2>2 DEF Serves
  <1>5. transfer'.stage = "open" =>
          /\ transfer'.request.value \in Nat /\ transfer'.request.length \in Nat
          /\ \A d \in Devices : Listens(usb', d) /\ usb'.dev[d].addr = transfer'.to
                => Serves(usb', d, transfer'.request, Moved(transfer'))
    <2> SUFFICES ASSUME transfer'.stage = "open"
                 PROVE  /\ transfer'.request.value \in Nat /\ transfer'.request.length \in Nat
                        /\ \A d \in Devices : Listens(usb', d) /\ usb'.dev[d].addr = transfer'.to
                              => Serves(usb', d, transfer'.request, Moved(transfer'))
      OBVIOUS
    <2>1. transfer' = transfer
      BY <1>3
    <2> QED BY <1>4, <2>1
  <1>6. ~Enumerates' /\ transfer'.stage = "over" =>
          /\ transfer'.request = NoRequest
          /\ \A d \in Devices : Listens(usb', d) /\ usb'.dev[d].addr = transfer'.to => usb'.dev[d].setup = "idle"
    BY <1>3, <1>4 DEF Enumerates
  <1>7. ~Enumerates' /\ transfer'.stage \in {"open", "over"} => transfer'.to = focus'.to
    BY <1>3 DEF Enumerates
  <1>8. EndpointInv'
    BY <1>1, <1>3, <1>5, <1>6, <1>7 DEF Hears
  <1> QED BY <1>1, <1>3, <1>8 DEF GivesInOrder, TakesOnce

\* The fields of a transfer after a packet.
LEMMA KeptFields ==
    ASSUME NEW t
    PROVE  /\ t.stage = "open" => Kept(t) = t
           /\ t.stage # "open" => /\ Kept(t).to = t.to /\ Kept(t).stage = t.stage
                                  /\ Kept(t).request = NoRequest /\ Kept(t).got = 0 /\ Kept(t).sent = 0
  BY DEF Kept, NoTransfer

LEMMA SetupFields ==
    ASSUME NEW to, NEW request, NEW size, SendSetup(to, request, size)
    PROVE  LET r == HandlePacket(usb, Packet("setup", to, request, size))
           IN  /\ usb' = r.tree /\ transfer'.got = 0 /\ transfer'.sent = 0 /\ transfer'.to = to
               /\ transfer'.stage = IF r.status = "ok" THEN "open" ELSE "stalled"
               /\ transfer'.stage = "open" => transfer'.request = request
  <1> DEFINE r == HandlePacket(usb, Packet("setup", to, request, size))
             next == Opened(to, request, r)
             s == IF r.status = "ok" THEN "open" ELSE "stalled"
  <1>1. usb' = r.tree /\ transfer' = Kept(next)
    BY DEF SendSetup, Handle
  <1> HIDE DEF r
  <1>2. next.to = to /\ next.request = request /\ next.stage = s /\ next.got = 0 /\ next.sent = 0
    <2>1. next = [NoTransfer EXCEPT !.to = to, !.request = request, !.stage = s]
      BY DEF Opened
    <2> HIDE DEF next, s
    <2> QED BY <2>1 DEF NoTransfer
  <1> HIDE DEF next
  <1>3. /\ transfer'.got = 0 /\ transfer'.sent = 0 /\ transfer'.to = to /\ transfer'.stage = s
        /\ transfer'.stage = "open" => transfer'.request = request
    BY <1>1, <1>2, KeptFields
  <1> QED BY <1>1, <1>3 DEF r

LEMMA InFields ==
    ASSUME Transfers(transfer), NEW size, SendIn(size)
    PROVE  LET r == HandlePacket(usb, Packet("in", transfer.to, NoRequest, size))
           IN  /\ usb' = r.tree /\ answer' = Answer(r) /\ transfer'.to = transfer.to
               /\ transfer'.stage = Stage(r, ~IsRead(transfer.request))
               /\ transfer'.stage = "open" => /\ transfer'.request = transfer.request
                                              /\ transfer'.got = transfer.got + r.count
                                              /\ transfer'.sent = transfer.sent
               /\ transfer'.stage # "open" => /\ transfer'.request = NoRequest
                                              /\ transfer'.got = 0 /\ transfer'.sent = 0
  <1> DEFINE r == HandlePacket(usb, Packet("in", transfer.to, NoRequest, size))
             s == Stage(r, ~IsRead(transfer.request))
             n == transfer.got + r.count
             next == [transfer EXCEPT !.got = n, !.stage = s]
  <1>1. usb' = r.tree /\ answer' = Answer(r) /\ transfer' = Kept(next)
    BY DEF SendIn, Handle, Transfers
  <1> HIDE DEF r, s, n
  <1>2. /\ next.to = transfer.to /\ next.request = transfer.request /\ next.stage = s
        /\ next.got = n /\ next.sent = transfer.sent
    BY DEF Transfers
  <1> HIDE DEF next
  <1>3. /\ transfer'.to = transfer.to /\ transfer'.stage = s
        /\ transfer'.stage = "open" => transfer'.request = transfer.request /\ transfer'.got = n /\ transfer'.sent = transfer.sent
        /\ transfer'.stage # "open" => transfer'.request = NoRequest /\ transfer'.got = 0 /\ transfer'.sent = 0
    BY <1>1, <1>2, KeptFields
  <1> QED BY <1>1, <1>3 DEF r, s, n

LEMMA OutFields ==
    ASSUME Transfers(transfer), NEW size, SendOut(size)
    PROVE  LET r == HandlePacket(usb, Packet("out", transfer.to, NoRequest, size))
           IN  /\ usb' = r.tree /\ transfer'.to = transfer.to
               /\ transfer'.stage = Stage(r, IsRead(transfer.request))
               /\ transfer'.stage = "open" =>
                     /\ transfer'.request = transfer.request /\ transfer'.got = transfer.got
                     /\ transfer'.sent = IF IsRead(transfer.request) THEN transfer.sent
                                         ELSE Min2(transfer.sent + size, transfer.request.length)
               /\ transfer'.stage # "open" => /\ transfer'.request = NoRequest
                                              /\ transfer'.got = 0 /\ transfer'.sent = 0
  <1> DEFINE r == HandlePacket(usb, Packet("out", transfer.to, NoRequest, size))
             s == Stage(r, IsRead(transfer.request))
             n == IF IsRead(transfer.request) THEN transfer.sent
                  ELSE Min2(transfer.sent + size, transfer.request.length)
             next == [transfer EXCEPT !.sent = n, !.stage = s]
  <1>1. usb' = r.tree /\ transfer' = Kept(next)
    BY DEF SendOut, Handle
  <1> HIDE DEF r, s, n
  <1>2. /\ next.to = transfer.to /\ next.request = transfer.request /\ next.stage = s
        /\ next.got = transfer.got /\ next.sent = n
    BY DEF Transfers
  <1> HIDE DEF next
  <1>3. /\ transfer'.to = transfer.to /\ transfer'.stage = s
        /\ transfer'.stage = "open" => transfer'.request = transfer.request /\ transfer'.got = transfer.got /\ transfer'.sent = n
        /\ transfer'.stage # "open" => transfer'.request = NoRequest /\ transfer'.got = 0 /\ transfer'.sent = 0
    BY <1>1, <1>2, KeptFields
  <1> QED BY <1>1, <1>3 DEF r, s, n

\* A SETUP starts a transfer at its beginning, on the device that takes it.
LEMMA SetupEndpoint ==
    ASSUME UsbInv, EndpointInv, NEW to, Enumerates \/ to # 0, ~Enumerates => to = focus.to,
           NEW request, request.value \in Nat, request.length \in Nat, NEW size,
           SendSetup(to, request, size), focus' = focus
    PROVE  EndpointInv' /\ GivesInOrder /\ TakesOnce
  <1> DEFINE packet == Packet("setup", to, request, size)
             r == HandlePacket(usb, packet)
  <1>1. /\ usb' = r.tree /\ transfer'.got = 0 /\ transfer'.sent = 0 /\ transfer'.to = to
        /\ transfer'.stage = IF r.status = "ok" THEN "open" ELSE "stalled"
        /\ transfer'.stage = "open" => transfer'.request = request
    BY SetupFields
  <1>2. packet.pid = "setup" /\ packet.to = to /\ packet.ep = 0 /\ packet.request = request /\ packet.size = size
    BY PacketFields
  <1> HIDE DEF packet
  <1>3. \/ r.tree = usb /\ r.status = "nodev"
        \/ \E d \in Devices : /\ Listens(usb, d) /\ usb.dev[d].addr = to
                              /\ r = DoTokenSetup(usb, d, request, size)
    BY <1>2, PacketReceiver
  <1> HIDE DEF r
  <1>4. RunsFall(usb, usb')
    <2>1. CASE r.tree = usb
      BY <1>1, <2>1 DEF RunsFall
    <2>2. ASSUME NEW d \in Devices, r = DoTokenSetup(usb, d, request, size) PROVE RunsFall(usb, usb')
      BY <1>1, <2>2, SetupServes DEF UsbInv
    <2> QED BY <1>3, <2>1, <2>2
  <1>5. ASSUME transfer'.stage = "open", NEW e \in Devices, Listens(usb', e), usb'.dev[e].addr = to
        PROVE  Serves(usb', e, request, 0)
    <2>1. r.status = "ok"
      BY <1>1, <1>5
    <2>2. PICK d \in Devices : /\ Listens(usb, d) /\ usb.dev[d].addr = to
                               /\ r = DoTokenSetup(usb, d, request, size)
      BY <1>3, <2>1
    <2>3. Edited(usb, usb', d) /\ Serves(usb', d, request, 0)
      BY <1>1, <2>1, <2>2, SetupEdits, SetupServes DEF UsbInv
    <2>4. Listens(usb, e) /\ usb.dev[e].addr = to
      BY <1>5, <2>3, EditedListens DEF UsbInv
    <2>5. e = d
      BY <2>2, <2>4, OneHears
    <2> QED BY <2>3, <2>5
  <1>6. Moved(transfer') = 0
    BY <1>1 DEF Moved
  <1>7. \A d \in Devices : usb'.dev[d].ran \in Nat /\ ~(usb'.dev[d].ran > usb.dev[d].ran)
    BY <1>4 DEF RunsFall, EndpointInv
  <1>8. transfer'.stage # "over"
    BY <1>1
  <1>9. EndpointInv'
    BY <1>1, <1>5, <1>6, <1>7, <1>8 DEF EndpointInv, Hears, Enumerates
  <1> QED BY <1>1, <1>7, <1>8, <1>9 DEF GivesInOrder, TakesOnce, EndpointInv

\* An IN takes a read on by what it gives, and lets a write take effect that has all its data.
LEMMA InEndpoint ==
    ASSUME UsbInv, UsbInv', EndpointInv, NEW size \in Nat, SendIn(size), focus' = focus,
           transfer.stage = "open" \/ (~Enumerates /\ transfer.stage = "over"),
           ~Enumerates => given' = given
    PROVE  EndpointInv' /\ GivesInOrder /\ TakesOnce
  <1> DEFINE packet == Packet("in", transfer.to, NoRequest, size)
             r == HandlePacket(usb, packet)
             q == transfer.request
             n == Moved(transfer)
  <1>1. /\ usb' = r.tree /\ answer' = Answer(r) /\ transfer'.to = transfer.to
        /\ transfer'.stage = Stage(r, ~IsRead(q))
        /\ transfer'.stage = "open" => /\ transfer'.request = q /\ transfer'.got = transfer.got + r.count
                                       /\ transfer'.sent = transfer.sent
        /\ transfer'.stage # "open" => transfer'.request = NoRequest /\ transfer'.got = 0 /\ transfer'.sent = 0
    BY InFields DEF UsbInv, UsbTypes
  <1>2. packet.pid = "in" /\ packet.to = transfer.to /\ packet.ep = 0 /\ packet.size = size
    BY PacketFields
  <1> HIDE DEF packet
  <1>3. \/ r.tree = usb /\ r.status = "nodev"
        \/ \E d \in Devices : Hears(d) /\ r = DoTokenIn(usb, d, size)
    BY <1>2, PacketReceiver DEF Hears
  <1> HIDE DEF r
  <1>4. /\ TreeShape(usb) /\ transfer.got \in Nat /\ transfer.sent \in Nat
        /\ \A d \in Devices : usb.dev[d].ran \in Nat
        /\ ~Enumerates => transfer.to = focus.to
    BY DEF UsbInv, EndpointInv
  <1>5. ~Enumerates => focus.to \in Addresses /\ focus.to # 0
    BY UsbAssumption DEF UsbInv, UsbTypes
  <1>6. /\ ~IsRead(q) => transfer'.stage \in {"over", "stalled"}
        /\ IsRead(q) => transfer'.stage \in {transfer.stage, "stalled"}
        /\ r.status # "ok" => transfer'.stage = "stalled"
    <2> HIDE DEF q
    <2> QED BY <1>1 DEF Stage
  <1>7. "stalled" # "open" /\ "stalled" # "over" /\ "over" # "open" /\ ~IsRead(NoRequest)
    BY DEF IsRead, ReadRequests, NoRequest
  <1>8. ASSUME transfer'.stage = "stalled", RunsFall(usb, usb') PROVE EndpointInv' /\ GivesInOrder /\ TakesOnce
    <2>1. transfer'.got = 0 /\ transfer'.sent = 0
      BY <1>1, <1>7, <1>8
    <2>2. \A d \in Devices : usb'.dev[d].ran \in Nat /\ ~(usb'.dev[d].ran > usb.dev[d].ran)
      BY <1>4, <1>8 DEF RunsFall
    <2>3. EndpointInv'
      BY <1>7, <1>8, <2>1, <2>2 DEF EndpointInv
    <2> QED BY <1>4, <1>7, <1>8, <2>1, <2>2, <2>3 DEF GivesInOrder, TakesOnce
  <1>9. CASE r.tree = usb /\ r.status # "ok"
    BY <1>1, <1>6, <1>8, <1>9 DEF RunsFall
  <1>10. ASSUME NEW d \in Devices, Hears(d), r = DoTokenIn(usb, d, size), transfer.stage = "over"
         PROVE  r.tree = usb /\ r.status # "ok"
    <2>1. usb.dev[d].setup = "idle"
      BY <1>7, <1>10 DEF EndpointInv
    <2>2. r = Done(usb, "stall")
      BY <1>10, <2>1, IdleStalls
    <2> QED BY <2>2, AnswerFields
  <1>11. ASSUME NEW d \in Devices, Hears(d), r = DoTokenIn(usb, d, size), transfer.stage = "open", IsRead(q)
         PROVE  EndpointInv' /\ GivesInOrder /\ TakesOnce
    <2>1. Serves(usb, d, q, n)
      BY <1>11 DEF EndpointInv
    <2>2. usb.dev[d].request = q
      BY <2>1 DEF Serves
    <2> HIDE DEF q, n
    <2>3. PICK k \in Nat :
              /\ r.status = "ok" /\ r.count = k /\ Serves(r.tree, d, q, n + k) /\ RunsFall(usb, r.tree)
              /\ Total(r.tree, d, q) = Total(usb, d, q)
              /\ k > 0 => r.from = n /\ r.data.of = q
      BY <1>4, <1>11, <2>1, InServes
    <2>4. transfer'.stage = "open"
      BY <1>1, <1>11, <2>3 DEF Stage
    <2>5. transfer'.request = q /\ transfer'.got = n + k /\ transfer'.sent = transfer.sent /\ n = transfer.got
      BY <1>1, <1>11, <2>3, <2>4 DEF n, q, Moved
    <2>6. Moved(transfer') = n + k
      BY <1>11, <2>5 DEF Moved
    <2>7. ASSUME NEW e \in Devices, Listens(usb', e), usb'.dev[e].addr = transfer'.to
          PROVE  Serves(usb', e, q, n + k)
      <3>1. Edited(usb, usb', d)
        BY <1>1, <1>4, <1>11, <2>2, InEffect
      <3>2. Listens(usb, e) /\ usb.dev[e].addr = transfer.to
        BY <1>1, <1>4, <2>7, <3>1, EditedListens
      <3>3. e = d
        BY <1>4, <1>5, <1>11, <3>2, OneHears DEF Hears
      <3> QED BY <1>1, <2>3, <3>3
    <2>8. \A e \in Devices : usb'.dev[e].ran \in Nat /\ ~(usb'.dev[e].ran > usb.dev[e].ran)
      BY <1>1, <1>4, <2>3 DEF RunsFall
    <2>9. q.value \in Nat /\ q.length \in Nat
      BY <1>11 DEF EndpointInv, q
    <2>10. n + k \in Nat /\ transfer'.got \in Nat /\ transfer'.sent \in Nat
      BY <1>4, <2>5
    <2>11. EndpointInv'
      BY <1>1, <1>4, <1>7, <2>4, <2>5, <2>6, <2>7, <2>8, <2>9, <2>10 DEF EndpointInv, Hears, Enumerates
    <2>12. n + k <= Expected
      <3>1. n + k \in 0..r.tree.dev[d].length /\ r.tree.dev[d].length = Total(r.tree, d, q)
            /\ r.tree.dev[d].length \in Nat
        BY <2>3 DEF Serves
      <3>2. Expected = Total(usb, d, q)
        BY <1>4, <1>5, <1>11, ExpectedTotal DEF q
      <3> QED BY <2>3, <3>1, <3>2
    <2>13. k > 0 => answer' = [from |-> r.from, data |-> r.data]
      BY <1>1, <2>3 DEF Answer
    <2>14. transfer'.got > transfer.got => k > 0
      BY <1>4, <2>5
    <2>15. transfer'.got > transfer.got => answer'.data.of = q /\ answer'.from = transfer.got
      BY <2>3, <2>5, <2>13, <2>14
    <2> QED BY <1>7, <2>4, <2>5, <2>8, <2>11, <2>12, <2>15 DEF GivesInOrder, TakesOnce, q
  <1>12. ASSUME NEW d \in Devices, Hears(d), r = DoTokenIn(usb, d, size), transfer.stage = "open", ~IsRead(q)
         PROVE  EndpointInv' /\ GivesInOrder /\ TakesOnce
    <2>1. Serves(usb, d, q, n)
      BY <1>12 DEF EndpointInv
    <2> HIDE DEF q, n
    <2>2. \/ r.status = "stall" /\ RunsFall(usb, r.tree)
          \/ n = q.length /\ r.tree.dev[d].setup = "idle" /\ OneMore(usb, r.tree, d)
      BY <1>4, <1>12, <2>1, InServes
    <2>3. CASE r.status = "stall" /\ RunsFall(usb, r.tree)
      BY <1>1, <1>6, <1>8, <2>3
    <2>4. CASE n = q.length /\ r.tree.dev[d].setup = "idle" /\ OneMore(usb, r.tree, d)
      <3>1. transfer'.stage # "open" /\ transfer'.got = 0 /\ transfer'.sent = 0 /\ transfer'.request = NoRequest
        BY <1>1, <1>6, <1>7, <1>12
      <3>2. \A e \in Devices : usb'.dev[e].ran \in Nat /\ (usb'.dev[e].ran > usb.dev[e].ran => e = d)
        BY <1>1, <1>4, <2>4 DEF OneMore
      <3>3. ASSUME ~Enumerates, NEW e \in Devices, Listens(usb', e), usb'.dev[e].addr = transfer'.to
            PROVE  usb'.dev[e].setup = "idle"
        <4>1. given'[focus.to] = e
          BY <1>1, <1>4, <1>5, <3>3 DEF UsbInv, PlacedInv, Placed
        <4>2. given[focus.to] = d
          BY <1>4, <1>5, <1>12, <3>3 DEF UsbInv, PlacedInv, Placed, Hears
        <4> QED BY <1>1, <2>4, <3>3, <4>1, <4>2
      <3>4. EndpointInv'
        BY <1>1, <1>4, <3>1, <3>2, <3>3 DEF EndpointInv, Hears, Enumerates
      <3>5. usb.dev[d].ran = 0 /\ usb.dev[d].request = q /\ transfer.sent = q.length
        BY <1>12, <2>1, <2>4 DEF Serves, n, q, Moved
      <3> QED BY <1>4, <1>12, <3>1, <3>2, <3>4, <3>5 DEF GivesInOrder, TakesOnce, q
    <2> QED BY <2>2, <2>3, <2>4
  <1>13. "nodev" # "ok"
    OBVIOUS
  <1> QED BY <1>3, <1>9, <1>10, <1>11, <1>12, <1>13

\* An OUT takes a write on by its data, and ends a read that has given everything.
LEMMA OutEndpoint ==
    ASSUME UsbInv, EndpointInv, NEW size \in Nat, SendOut(size), focus' = focus,
           transfer.stage = "open" \/ (~Enumerates /\ transfer.stage = "over")
    PROVE  EndpointInv' /\ GivesInOrder /\ TakesOnce
  <1> DEFINE packet == Packet("out", transfer.to, NoRequest, size)
             r == HandlePacket(usb, packet)
             q == transfer.request
             n == Moved(transfer)
  <1>1. /\ usb' = r.tree /\ transfer'.to = transfer.to
        /\ transfer'.stage = Stage(r, IsRead(q))
        /\ transfer'.stage = "open" => /\ transfer'.request = q /\ transfer'.got = transfer.got
                                       /\ transfer'.sent = IF IsRead(q) THEN transfer.sent
                                                           ELSE Min2(transfer.sent + size, q.length)
        /\ transfer'.stage # "open" => transfer'.request = NoRequest /\ transfer'.got = 0 /\ transfer'.sent = 0
    BY OutFields DEF UsbInv, UsbTypes
  <1>2. packet.pid = "out" /\ packet.to = transfer.to /\ packet.ep = 0 /\ packet.size = size
    BY PacketFields
  <1> HIDE DEF packet
  <1>3. \/ r.tree = usb /\ r.status = "nodev"
        \/ \E d \in Devices : Hears(d) /\ r = DoTokenOut(usb, d, size)
    BY <1>2, PacketReceiver DEF Hears
  <1> HIDE DEF r
  <1>4. /\ TreeShape(usb) /\ transfer.got \in Nat /\ transfer.sent \in Nat
        /\ \A d \in Devices : usb.dev[d].ran \in Nat
        /\ ~Enumerates => transfer.to = focus.to
    BY DEF UsbInv, EndpointInv
  <1>5. ~Enumerates => focus.to # 0
    BY UsbAssumption DEF UsbInv, UsbTypes
  <1>6. /\ IsRead(q) => transfer'.stage \in {"over", "stalled"}
        /\ ~IsRead(q) => transfer'.stage \in {transfer.stage, "stalled"}
        /\ r.status # "ok" => transfer'.stage = "stalled"
    <2> HIDE DEF q
    <2> QED BY <1>1 DEF Stage
  <1>7. "stalled" # "open" /\ "stalled" # "over" /\ "over" # "open"
    OBVIOUS
  <1>8. ASSUME transfer'.stage = "stalled", RunsFall(usb, usb') PROVE EndpointInv' /\ GivesInOrder /\ TakesOnce
    <2>1. transfer'.got = 0 /\ transfer'.sent = 0
      BY <1>1, <1>7, <1>8
    <2>2. \A d \in Devices : usb'.dev[d].ran \in Nat /\ ~(usb'.dev[d].ran > usb.dev[d].ran)
      BY <1>4, <1>8 DEF RunsFall
    <2>3. EndpointInv'
      BY <1>7, <1>8, <2>1, <2>2 DEF EndpointInv
    <2> QED BY <1>4, <1>7, <1>8, <2>1, <2>2, <2>3 DEF GivesInOrder, TakesOnce
  <1>9. CASE r.tree = usb /\ r.status # "ok"
    BY <1>1, <1>6, <1>8, <1>9 DEF RunsFall
  <1>10. ASSUME NEW d \in Devices, Hears(d), r = DoTokenOut(usb, d, size), transfer.stage = "over"
         PROVE  r.tree = usb /\ r.status # "ok"
    <2>1. usb.dev[d].setup = "idle"
      BY <1>7, <1>10 DEF EndpointInv
    <2>2. r = Done(usb, "stall")
      BY <1>10, <2>1, IdleStalls
    <2> QED BY <2>2, AnswerFields
  <1>11. ASSUME NEW d \in Devices, Hears(d), r = DoTokenOut(usb, d, size), transfer.stage = "open"
         PROVE  EndpointInv' /\ GivesInOrder /\ TakesOnce
    <2>1. Serves(usb, d, q, n) /\ q.value \in Nat /\ q.length \in Nat
      BY <1>11 DEF EndpointInv
    <2> HIDE DEF q, n
    <2>2. /\ RunsFall(usb, usb')
          /\ IsRead(q) => r.status = "stall" \/ (n = Total(usb, d, q) /\ usb'.dev[d].setup = "idle")
          /\ ~IsRead(q) => r.status = "ok" /\ Serves(usb', d, q, Min2(n + size, q.length))
      BY <1>1, <1>4, <1>11, <2>1, OutServes
    <2>3. \A e \in Devices : usb'.dev[e].ran \in Nat /\ ~(usb'.dev[e].ran > usb.dev[e].ran)
      BY <1>4, <2>2 DEF RunsFall
    <2>4. ASSUME NEW e \in Devices, Listens(usb', e), usb'.dev[e].addr = transfer'.to PROVE e = d
      <3>1. Edited(usb, usb', d)
        BY <1>1, <1>4, <1>11, OutEdits
      <3>2. Listens(usb, e) /\ usb.dev[e].addr = transfer.to
        BY <1>1, <1>4, <2>4, <3>1, EditedListens
      <3> QED BY <1>4, <1>5, <1>11, <3>2, OneHears DEF Hears
    <2>5. CASE IsRead(q) /\ r.status = "stall"
      BY <1>6, <1>8, <2>2, <2>5
    <2>6. CASE IsRead(q) /\ n = Total(usb, d, q) /\ usb'.dev[d].setup = "idle"
      <3>1. transfer'.stage # "open" /\ transfer'.got = 0 /\ transfer'.sent = 0 /\ transfer'.request = NoRequest
        BY <1>1, <1>6, <1>7, <2>6
      <3>2. EndpointInv'
        <4>1. ASSUME NEW e \in Devices, Listens(usb', e), usb'.dev[e].addr = transfer'.to
              PROVE  usb'.dev[e].setup = "idle"
          BY <2>4, <2>6, <4>1
        <4>2. ~Enumerates' => transfer'.to = focus'.to
          BY <1>1, <1>4 DEF Enumerates
        <4>3. transfer'.got \in Nat /\ transfer'.sent \in Nat
          BY <3>1
        <4> QED BY <2>3, <3>1, <4>1, <4>2, <4>3 DEF EndpointInv, Hears
      <3>3. transfer.got = Expected
        <4>1. Expected = Total(usb, d, q)
          BY <1>4, <1>5, <1>11, <2>6, ExpectedTotal DEF q
        <4> QED BY <2>6, <4>1 DEF n, q, Moved
      <3> QED BY <1>4, <2>3, <3>1, <3>2, <3>3 DEF GivesInOrder, TakesOnce
    <2>7. CASE ~IsRead(q)
      <3>1. r.status = "ok" /\ Serves(usb', d, q, Min2(n + size, q.length))
        BY <2>2, <2>7
      <3>2. transfer'.stage = "open"
        BY <1>1, <1>11, <2>7, <3>1 DEF Stage
      <3>3. /\ transfer'.request = q /\ transfer'.got = transfer.got
            /\ transfer'.sent = Min2(n + size, q.length)
        BY <1>1, <2>7, <3>2 DEF n, q, Moved
      <3>4. Moved(transfer') = Min2(n + size, q.length)
        BY <2>7, <3>3 DEF Moved
      <3>5. n \in Nat /\ Min2(n + size, q.length) \in Nat
        <4>1. n = transfer.sent
          BY <2>7 DEF n, q, Moved
        <4> QED BY <1>4, <2>1, <4>1 DEF Min2
      <3>6. EndpointInv'
        BY <1>1, <1>4, <1>7, <2>1, <2>3, <2>4, <3>1, <3>2, <3>3, <3>4, <3>5 DEF EndpointInv, Hears, Enumerates
      <3> QED BY <1>4, <1>7, <2>3, <3>2, <3>3, <3>6 DEF GivesInOrder, TakesOnce
    <2> QED BY <2>2, <2>5, <2>6, <2>7
  <1>12. "nodev" # "ok"
    OBVIOUS
  <1> QED BY <1>3, <1>9, <1>10, <1>11, <1>12

LEMMA QuietEndpoint ==
    ASSUME UsbInv, EndpointInv,
           \/ PlugIn \/ Unplug \/ ChangeState \/ Interrupted \/ Look \/ Clear \/ Read \/ Suspend \/ Disable
           \/ ResetPort \/ Poll \/ UNCHANGED usbVars
    PROVE  EndpointInv' /\ GivesInOrder /\ TakesOnce
  <1>1. TreeShape(usb)
    BY DEF UsbInv
  <1>2. CASE PlugIn \/ Unplug \/ ChangeState \/ Interrupted \/ Look \/ Clear \/ Read \/ Suspend \/ Disable
    <2>1. Quiet(usb, usb') /\ focus' = focus /\ (transfer' = transfer \/ transfer' = NoTransfer)
      BY <1>2, QuietSteps
    <2> QED BY <2>1, ElsewhereKeeps DEF Quiet
  <1>3. CASE ResetPort
    <2>1. PICK p \in Roots : usb' = PortSetStatus(usb, p, {"PRS"})
      BY <1>3 DEF ResetPort
    <2>2. RunsFall(usb, usb')
      BY <1>1, <2>1, PortSetStatusResets
    <2>3. Enumerates /\ transfer' = transfer /\ transfer.stage # "open" /\ focus' = focus
      BY <1>3 DEF ResetPort, Calm
    <2> QED BY <2>2, <2>3, ElsewhereKeeps
  <1>4. CASE Poll
    <2> DEFINE ep == IF given[focus.to] \in Hubs THEN 1 ELSE 2
    <2>1. PICK n \in {0, 1, 2}, pid \in {"in", "out"} :
              usb' = HandlePacket(usb, [Packet(pid, focus.to, NoRequest, n) EXCEPT !.ep = ep]).tree
      BY <1>4 DEF Poll
    <2> DEFINE packet == [Packet(pid, focus.to, NoRequest, n) EXCEPT !.ep = ep]
    <2>2. packet.pid \in {"in", "out"} /\ packet.ep # 0
      <3>1. ep # 0
        OBVIOUS
      <3> HIDE DEF ep
      <3> QED BY <2>1, <3>1 DEF Packet
    <2> HIDE DEF packet
    <2>3. usb' = HandlePacket(usb, packet).tree
      BY <2>1 DEF packet
    <2>4. usb' = usb
      BY <2>2, <2>3, PacketReceiver
    <2>5. focus' = focus /\ transfer' = transfer
      BY <1>4 DEF Poll
    <2>6. Quiet(usb, usb')
      BY <1>1, <2>4, QuietItself
    <2> QED BY <2>5, <2>6, ElsewhereKeeps DEF Quiet
  <1>5. CASE UNCHANGED usbVars
    <2>1. usb' = usb /\ focus' = focus /\ transfer' = transfer
      BY <1>5 DEF usbVars, guest
    <2>2. Quiet(usb, usb')
      BY <1>1, <2>1, QuietItself
    <2> QED BY <2>1, <2>2, ElsewhereKeeps DEF Quiet
  <1> QED BY <1>2, <1>3, <1>4, <1>5

LEMMA AskedNumbers ==
    ASSUME NEW t, AskedOfNew(t) \/ AskedOfHub(t)
    PROVE  t.request.value \in Nat /\ t.request.length \in Nat
  <1>1. CASE AskedOfNew(t)
    <2> DEFINE a == t.request.value
    <2>1. a \in Addresses /\ t.request = Simple("SetAddress", a, 0)
      BY <1>1 DEF AskedOfNew
    <2> HIDE DEF a
    <2>2. t.request.length = 0
      BY <2>1 DEF Simple
    <2>3. a \in Nat
      BY <2>1, UsbAssumption
    <2> QED BY <2>2, <2>3 DEF a
  <1>2. CASE AskedOfHub(t)
    <2>1. /\ t.request.length = 4 \/ t.request.length = 0
          /\ t.request.value \in {0, 1, 4, 16}
      BY <1>2 DEF AskedOfHub, Simple, PortStatus
    <2> QED BY <2>1
  <1> QED BY <1>1, <1>2

LEMMA EndpointStep ==
    ASSUME UsbInv, UsbInv', EndpointInv, [UsbNext]_usbVars
    PROVE  EndpointInv' /\ GivesInOrder /\ TakesOnce
  <1>1. focus.to \in Addresses /\ focus.to # 0 /\ Sizes \subseteq Nat /\ 8 \in Nat /\ 0 \in Nat
    BY UsbAssumption DEF UsbInv, UsbTypes
  <1>2. CASE Setup
    <2>1. PICK q \in focus.asks, n \in {8, 7} : SendSetup(focus.to, q, n)
      BY <1>2 DEF Setup
    <2>2. q.value \in Nat /\ q.length \in Nat
      BY UsbAssumption DEF UsbInv, UsbTypes
    <2>3. focus' = focus
      BY <1>2 DEF Setup
    <2> QED BY <1>1, <2>1, <2>2, <2>3, SetupEndpoint
  <1>3. CASE InToken
    <2>1. PICK n \in Sizes : SendIn(n)
      BY <1>3 DEF InToken
    <2>2. /\ ~Enumerates /\ transfer.stage \in {"open", "over"} /\ focus' = focus /\ given' = given
      BY <1>3 DEF InToken
    <2> QED BY <1>1, <2>1, <2>2, InEndpoint
  <1>4. CASE OutToken
    <2>1. PICK n \in Sizes : SendOut(n)
      BY <1>4 DEF OutToken
    <2>2. ~Enumerates /\ transfer.stage \in {"open", "over"} /\ focus' = focus
      BY <1>4 DEF OutToken
    <2> QED BY <1>1, <2>1, <2>2, OutEndpoint
  <1>5. CASE Begin
    <2>1. PICK n \in Next0 : SendSetup(n.to, n.request, 8)
      BY <1>5 DEF Begin
    <2>2. Enumerates /\ focus' = focus
      BY <1>5 DEF Begin
    <2> DEFINE t == [to |-> n.to, request |-> n.request]
    <2>3. t.to = n.to /\ t.request = n.request
      OBVIOUS
    <2> HIDE DEF t
    <2>4. n.request.value \in Nat /\ n.request.length \in Nat
      BY <2>3, NextIsAsked, AskedNumbers
    <2> QED BY <2>1, <2>2, <2>4, SetupEndpoint
  <1>6. CASE Data
    BY <1>1, <1>6, InEndpoint DEF Data
  <1>7. CASE StatusOut
    BY <1>1, <1>7, OutEndpoint DEF StatusOut
  <1>8. CASE StatusIn
    <2>1. Enumerates /\ transfer.stage = "open" /\ SendIn(0) /\ focus' = focus
      BY <1>8 DEF StatusIn
    <2> QED BY <1>1, <2>1, InEndpoint
  <1> QED BY <1>2, <1>3, <1>4, <1>5, <1>6, <1>7, <1>8, QuietEndpoint DEF UsbNext

\* What a control read gives is the answer to the request of its last SETUP, in order, without a gap
\* and all of it; a control write takes effect once, after the last byte of its data, on the device
\* that took its SETUP, whatever is plugged, pulled, reset or disabled between its packets.
\* (USB_DoTokenSetup, DoTokenIn and DoTokenOut in usb_pci.cpp.)
THEOREM TransfersAreFaithful == UsbSpec => TransfersFaithful
  <1>1. UsbInit => UsbInv /\ EndpointInv
    BY UsbInitInv, EndpointInit
  <1>2. UsbInv /\ EndpointInv /\ [UsbNext]_usbVars => (UsbInv /\ EndpointInv)'
    BY UsbInvInductive, EndpointStep
  <1>3. UsbInv /\ EndpointInv /\ [UsbNext]_usbVars => [GivesInOrder]_usbVars /\ [TakesOnce]_usbVars
    BY UsbInvInductive, EndpointStep
  <1>4. UsbSpec => [][GivesInOrder]_usbVars /\ [][TakesOnce]_usbVars
    BY <1>1, <1>2, <1>3, PTL DEF UsbSpec
  <1>5. ([][GivesInOrder]_usbVars => ReadsInOrder) /\ ([][TakesOnce]_usbVars => WritesOnce)
    BY DEF ReadsInOrder, WritesOnce, GivesInOrder, TakesOnce
  <1> QED BY <1>4, <1>5, PTL DEF TransfersFaithful

-----------------------------------------------------------------------------
(* What the operations do to connections: whether a device is on a port,    *)
(* whether the port says so, and whether it says that this has changed.     *)

Pad(p) == <<p, GamepadPort>>
Seen(w, p)      == "CONNECTION" \in w.hub[p][GamepadPort].status
Announced(w, p) == "CONNECTION" \in w.hub[p][GamepadPort].change
SameDevices(w, v) ==
    \A d \in Devices : v.dev[d].attached = w.dev[d].attached /\ v.dev[d].plugged = w.dev[d].plugged
\* From w to v nothing was connected or disconnected, and what was announced still is, except by the
\* hubs on the ports "but".
SamePorts(w, v, but) ==
    /\ "RHSC" \in w.intr => "RHSC" \in v.intr
    /\ SameDevices(w, v)
    /\ \A p \in Roots : /\ "CCS" \in v.root[p] <=> "CCS" \in w.root[p]
                        /\ Seen(v, p) <=> Seen(w, p)
                        /\ p \notin but => (Announced(v, p) <=> Announced(w, p))

LEMMA SamePortsItself == ASSUME NEW w, NEW but PROVE SamePorts(w, w, but)
  BY DEF SamePorts, SameDevices

LEMMA SamePortsTransitive ==
    ASSUME NEW u, NEW v, NEW w, NEW but, SamePorts(u, v, but), SamePorts(v, w, but)
    PROVE  SamePorts(u, w, but)
  BY DEF SamePorts, SameDevices

LEMMA SamePortsWider ==
    ASSUME NEW w, NEW v, NEW but, SamePorts(w, v, {}) PROVE SamePorts(w, v, but)
  BY DEF SamePorts

LEMMA EditedSame ==
    ASSUME NEW w, NEW v, NEW d \in Devices, Edited(w, v, d) PROVE SamePorts(w, v, {})
  <1>1. SameDevices(w, v)
    BY DEF Edited, OnlyDevice, SameDevices
  <1> QED BY <1>1 DEF Edited, OnlyDevice, SamePorts, Seen, Announced

\* An interrupt, and a root port whose connection stays as it is.
LEMMA SetInterruptSame ==
    ASSUME NEW w, TreeShape(w), NEW event
    PROVE  /\ SamePorts(w, SetInterrupt(w, event), {})
           /\ event \in SetInterrupt(w, event).intr
           /\ SetInterrupt(w, event).dev = w.dev /\ SetInterrupt(w, event).hub = w.hub
           /\ SetInterrupt(w, event).root = w.root /\ SetInterrupt(w, event).hcfs = w.hcfs
  <1> DEFINE v == SetInterrupt(w, event)
  <1>1. /\ v.intr = w.intr \cup {event} /\ v.dev = w.dev /\ v.hub = w.hub /\ v.root = w.root
        /\ v.hcfs = w.hcfs
    BY DEF SetInterrupt, TreeShape, TreeFields
  <1> HIDE DEF v
  <1>2. SamePorts(w, v, {}) /\ event \in v.intr
    BY <1>1 DEF SamePorts, SameDevices, Seen, Announced
  <1> QED BY <1>1, <1>2 DEF v

\* The new status of a root port, announced if it differs.
LEMMA SetRootAnnounces ==
    ASSUME NEW w, TreeShape(w), NEW p \in Roots, NEW s
    PROVE  LET v == SetRoot(w, p, s)
           IN  /\ v.dev = w.dev /\ v.hub = w.hub /\ v.hcfs = w.hcfs
               /\ \A q \in Roots : v.root[q] = IF q = p THEN s ELSE w.root[q]
               /\ w.intr \subseteq v.intr /\ (s # w.root[p] => "RHSC" \in v.intr)
  <1> DEFINE v == SetRoot(w, p, s)
             u == [w EXCEPT !.root[p] = s]
  <1>1. CASE s = w.root[p]
    <2>1. v = w
      BY <1>1 DEF SetRoot
    <2> HIDE DEF v
    <2>2. /\ v.dev = w.dev /\ v.hub = w.hub /\ v.hcfs = w.hcfs
          /\ \A q \in Roots : v.root[q] = IF q = p THEN s ELSE w.root[q]
          /\ w.intr \subseteq v.intr /\ (s # w.root[p] => "RHSC" \in v.intr)
      BY <1>1, <2>1
    <2> QED BY <2>2 DEF v
  <1>2. CASE s # w.root[p]
    <2>1. /\ DOMAIN u = TreeFields /\ u.dev = w.dev /\ u.hub = w.hub /\ u.root = [w.root EXCEPT ![p] = s]
          /\ u.hcfs = w.hcfs /\ u.intr = w.intr
      BY DEF TreeShape, TreeFields
    <2>2. v = SetInterrupt(u, "RHSC")
      BY <1>2 DEF SetRoot
    <2> HIDE DEF u
    <2>3. /\ v.dev = w.dev /\ v.hub = w.hub /\ v.root = [w.root EXCEPT ![p] = s]
          /\ v.hcfs = w.hcfs /\ v.intr = w.intr \cup {"RHSC"}
      BY <2>1, <2>2 DEF SetInterrupt, TreeFields
    <2> HIDE DEF v
    <2>4. /\ v.dev = w.dev /\ v.hub = w.hub /\ v.hcfs = w.hcfs
          /\ \A q \in Roots : v.root[q] = IF q = p THEN s ELSE w.root[q]
          /\ w.intr \subseteq v.intr /\ (s # w.root[p] => "RHSC" \in v.intr)
      BY <2>3 DEF TreeShape
    <2> QED BY <2>4 DEF v
  <1> QED BY <1>1, <1>2

LEMMA SetRootSame ==
    ASSUME NEW w, TreeShape(w), NEW p \in Roots, NEW s, "CCS" \in s <=> "CCS" \in w.root[p]
    PROVE  SamePorts(w, SetRoot(w, p, s), {})
  <1> DEFINE v == SetRoot(w, p, s)
  <1>1. /\ v.dev = w.dev /\ v.hub = w.hub
        /\ \A q \in Roots : v.root[q] = IF q = p THEN s ELSE w.root[q]
        /\ w.intr \subseteq v.intr
    BY SetRootAnnounces
  <1> HIDE DEF v
  <1>2. SamePorts(w, v, {})
    BY <1>1 DEF SamePorts, SameDevices, Seen, Announced
  <1> QED BY <1>2 DEF v

\* A wakeup changes no connection, and resumes a suspended bus.
LEMMA WakeupSame ==
    ASSUME NEW w, TreeShape(w), NEW p \in Roots
    PROVE  /\ SamePorts(w, Wakeup(w, p), {}) /\ Wakeup(w, p).dev = w.dev /\ Wakeup(w, p).hub = w.hub
           /\ w.hcfs = "suspend" /\ w.dev[<<p>>].wakeup /\ w.dev[<<p>>].plugged
              => Wakeup(w, p).hcfs = "resume" /\ "RD" \in Wakeup(w, p).intr
  <1> DEFINE s == (w.root[p] \ {"PSS"}) \cup {"PSSC"}
             v == IF "PSS" \in w.root[p] THEN SetRoot(w, p, s) ELSE w
             u == [w EXCEPT !.root = v.root, !.hcfs = "resume"]
             x == SetInterrupt(u, "RD")
  <1>1. /\ \A q \in Roots : "CCS" \in v.root[q] <=> "CCS" \in w.root[q]
        /\ \A q \in Roots : "PES" \in v.root[q] => "CCS" \in v.root[q]
        /\ \A q \in Roots : "PRS" \notin v.root[q]
    <2>1. \A q \in Roots : v.root[q] = w.root[q] \/ v.root[q] = (w.root[q] \ {"PSS"}) \cup {"PSSC"}
      <3> HIDE DEF s
      <3>1. \A q \in Roots : SetRoot(w, p, s).root[q] = IF q = p THEN s ELSE w.root[q]
        BY SetRootAnnounces
      <3> QED BY <3>1 DEF s
    <2> HIDE DEF v
    <2> QED BY <2>1 DEF TreeShape
  <1>2. SamePorts(w, v, {}) /\ v.dev = w.dev /\ v.hub = w.hub /\ TreeShape(v)
    <2>1. ("CCS" \in s <=> "CCS" \in w.root[p]) /\ ("PES" \in s => "PES" \in w.root[p] /\ "CCS" \in s) /\ "PRS" \notin s
      BY DEF TreeShape
    <2> HIDE DEF s
    <2>2. SamePorts(w, SetRoot(w, p, s), {}) /\ SetRoot(w, p, s).dev = w.dev /\ SetRoot(w, p, s).hub = w.hub
      BY <2>1, SetRootSame, SetRootAnnounces
    <2>3. TreeShape(SetRoot(w, p, s))
      BY <2>1, SetRootOnlyRoots, OnlyRootsShape
    <2> QED BY <2>2, <2>3, SamePortsItself
  <1> HIDE DEF v
  <1>3. /\ DOMAIN u = TreeFields /\ u.root = v.root /\ u.dev = w.dev /\ u.hub = w.hub
        /\ u.hcfs = "resume" /\ u.intr = w.intr
    BY DEF TreeShape, TreeFields
  <1> HIDE DEF u
  <1>4. SamePorts(w, u, {}) /\ TreeShape(u)
    BY <1>1, <1>2, <1>3 DEF SamePorts, SameDevices, Seen, Announced, TreeShape
  <1>5. SamePorts(w, x, {}) /\ x.dev = w.dev /\ x.hub = w.hub /\ x.hcfs = "resume" /\ "RD" \in x.intr
    BY <1>3, <1>4, SetInterruptSame, SamePortsTransitive
  <1> HIDE DEF x
  <1>6. Wakeup(w, p) = IF w.dev[<<p>>].wakeup /\ w.dev[<<p>>].plugged
                       THEN IF w.hcfs = "suspend" THEN x ELSE v
                       ELSE w
    BY DEF Wakeup, OhciWakeup, x, u, v
  <1> QED BY <1>2, <1>5, <1>6, SamePortsItself

\* A port tells what is connected to it.
PortTells(w, p) ==
    /\ w.dev[<<p>>].attached = ("CCS" \in w.root[p])
    /\ \A d \in {<<p>>, Pad(p)} : w.dev[d].attached \in BOOLEAN /\ w.dev[d].plugged = w.dev[d].attached
    /\ w.dev[Pad(p)].attached => w.dev[<<p>>].attached
    /\ w.dev[<<p>>].attached => w.dev[Pad(p)].attached = Seen(w, p)
PortsTell(w) == \A p \in Roots : PortTells(w, p)
\* From w to v every change is announced, as far as the guest can ask for it.
TellsRoot(w, v, p) == \/ "RHSC" \in v.intr
                      \/ "RHSC" \notin w.intr /\ v.dev[<<p>>].attached = w.dev[<<p>>].attached
TellsPad(w, v, p) ==
    Listens(v, <<p>>) => \/ Announced(v, p)
                         \/ ~Announced(w, p) /\ v.dev[Pad(p)].attached = w.dev[Pad(p)].attached
Tells(w, v) == PortsTell(v) /\ \A p \in Roots : TellsRoot(w, v, p) /\ TellsPad(w, v, p)

\* Nothing changed on p.
SamePort(w, v, p) ==
    /\ \A d \in {<<p>>, Pad(p)} : v.dev[d].attached = w.dev[d].attached /\ v.dev[d].plugged = w.dev[d].plugged
    /\ ("CCS" \in v.root[p] <=> "CCS" \in w.root[p]) /\ (Seen(v, p) <=> Seen(w, p))

LEMMA SamePortTells ==
    ASSUME NEW w, NEW v, NEW p \in Roots, SamePort(w, v, p), PortTells(w, p)
    PROVE  /\ PortTells(v, p)
           /\ ("RHSC" \in w.intr => "RHSC" \in v.intr) => TellsRoot(w, v, p)
           /\ (Announced(w, p) => Announced(v, p)) => TellsPad(w, v, p)
  <1>1. ("CCS" \in v.root[p]) = ("CCS" \in w.root[p]) /\ Seen(v, p) = Seen(w, p)
    <2>1. Seen(v, p) \in BOOLEAN /\ Seen(w, p) \in BOOLEAN
      BY DEF Seen
    <2> QED BY <2>1 DEF SamePort
  <1>2. PortTells(v, p)
    BY <1>1 DEF SamePort, PortTells
  <1> QED BY <1>2 DEF SamePort, TellsRoot, TellsPad

LEMMA SamePortsTell ==
    ASSUME NEW w, NEW v, NEW but, SamePorts(w, v, but), PortsTell(w)
    PROVE  /\ PortsTell(v)
           /\ \A p \in Roots : TellsRoot(w, v, p) /\ (p \notin but => TellsPad(w, v, p))
  <1>1. \A p \in Roots : <<p>> \in Devices /\ Pad(p) \in Devices
    BY HubNames DEF Pad
  <1>2. ASSUME NEW p \in Roots PROVE SamePort(w, v, p)
    BY <1>1 DEF SamePorts, SameDevices, SamePort
  <1>3. ASSUME NEW p \in Roots
        PROVE  /\ "RHSC" \in w.intr => "RHSC" \in v.intr
               /\ p \notin but /\ Announced(w, p) => Announced(v, p)
    BY DEF SamePorts
  <1> QED BY <1>2, <1>3, SamePortTells DEF PortsTell

LEMMA HubResetPorts ==
    ASSUME NEW w, TreeShape(w), NEW p \in Roots
    PROVE  LET v == HubReset(w, p)
           IN  /\ v.dev = w.dev /\ v.root = w.root /\ v.intr = w.intr
               /\ \A q \in Roots : q # p => v.hub[q] = w.hub[q]
               /\ Seen(v, p) <=> w.dev[Pad(p)].attached
               /\ Announced(v, p) <=> w.dev[Pad(p)].attached
  <1> DEFINE v == HubReset(w, p)
             ports == [i \in 1..HubPorts |->
                           IF i = GamepadPort /\ w.dev[<<p, i>>].attached
                           THEN [status |-> {"POWER", "CONNECTION"}, change |-> {"CONNECTION"}]
                           ELSE NoPort]
  <1>1. /\ "CONNECTION" \in ports[GamepadPort].status <=> w.dev[Pad(p)].attached
        /\ "CONNECTION" \in ports[GamepadPort].change <=> w.dev[Pad(p)].attached
    BY HubPortNames DEF NoPort, Pad
  <1>2. v = [w EXCEPT !.hub[p] = ports]
    BY DEF HubReset
  <1> HIDE DEF ports, v
  <1>3. v.dev = w.dev /\ v.root = w.root /\ v.intr = w.intr /\ v.hub = [w.hub EXCEPT ![p] = ports]
    BY <1>2 DEF TreeShape, TreeFields
  <1>4. v.hub[p] = ports /\ \A q \in Roots : q # p => v.hub[q] = w.hub[q]
    BY <1>3 DEF TreeShape
  <1>5. (Seen(v, p) <=> w.dev[Pad(p)].attached) /\ (Announced(v, p) <=> w.dev[Pad(p)].attached)
    BY <1>1, <1>4 DEF Seen, Announced
  <1> QED BY <1>3, <1>4, <1>5 DEF v

\* A reset disconnects nothing; a hub announces again what it carries.
LEMMA DeviceResetPorts ==
    ASSUME NEW w, TreeShape(w), NEW d \in Devices
    PROVE  LET v == DeviceReset(w, d)   p == d[1]
           IN  /\ v.root = w.root /\ v.intr = w.intr /\ SameDevices(w, v)
               /\ \A q \in Roots : q # p \/ ~IsHub(d) => v.hub[q] = w.hub[q]
               /\ IsHub(d) /\ w.dev[d].attached =>
                     /\ Seen(v, p) <=> v.dev[Pad(p)].attached
                     /\ Announced(v, p) <=> v.dev[Pad(p)].attached
  <1> DEFINE p == d[1]
             v == DeviceReset(w, d)
             s == [w.dev[d] EXCEPT !.wakeup = FALSE, !.addr = 0, !.state = "default"]
             u == [w EXCEPT !.dev[d].wakeup = FALSE, !.dev[d].addr = 0, !.dev[d].state = "default"]
  <1>1. p \in Roots /\ Pad(p) \in Devices
    BY DeviceNames, HubNames DEF Pad
  <1> HIDE DEF p
  <1>2. CASE ~w.dev[d].attached
    <2>1. v = w
      BY <1>2 DEF DeviceReset
    <2> HIDE DEF v
    <2>2. /\ v.root = w.root /\ v.intr = w.intr /\ SameDevices(w, v)
          /\ \A q \in Roots : v.hub[q] = w.hub[q]
      BY <2>1 DEF SameDevices
    <2> QED BY <1>2, <2>2 DEF v, p
  <1>3. CASE w.dev[d].attached
    <2>1. v = IF IsHub(d) THEN HubReset(u, d[1]) ELSE u
      BY <1>3 DEF DeviceReset
    <2>2. DOMAIN u = TreeFields /\ u.root = w.root /\ u.hub = w.hub /\ u.intr = w.intr /\ u.dev = [w.dev EXCEPT ![d] = s]
      BY DEF TreeShape, TreeFields
    <2>3. DOMAIN s = DeviceFields /\ s.attached = w.dev[d].attached /\ s.plugged = w.dev[d].plugged
      BY DEF TreeShape, DeviceFields
    <2> HIDE DEF u, s, v
    <2>4. TreeShape(u) /\ SameDevices(w, u)
      BY <2>2, <2>3 DEF TreeShape, SameDevices
    <2>5. CASE ~IsHub(d)
      <3>1. v.root = w.root /\ v.intr = w.intr /\ SameDevices(w, v) /\ \A q \in Roots : v.hub[q] = w.hub[q]
        BY <2>1, <2>2, <2>4, <2>5
      <3> QED BY <2>5, <3>1 DEF v, p
    <2>6. CASE IsHub(d)
      <3>1. v = HubReset(u, p)
        BY <2>1, <2>6 DEF p
      <3>2. /\ v.dev = u.dev /\ v.root = u.root /\ v.intr = u.intr
            /\ \A q \in Roots : q # p => v.hub[q] = u.hub[q]
            /\ Seen(v, p) <=> v.dev[Pad(p)].attached
            /\ Announced(v, p) <=> v.dev[Pad(p)].attached
        BY <1>1, <2>4, <3>1, HubResetPorts
      <3>3. v.root = w.root /\ v.intr = w.intr /\ SameDevices(w, v)
        BY <2>2, <2>4, <3>2 DEF SameDevices
      <3> QED BY <2>2, <2>6, <3>2, <3>3 DEF v, p
    <2> QED BY <2>5, <2>6
  <1> QED BY <1>2, <1>3

LEMMA OhciAttachPorts ==
    ASSUME NEW w, TreeShape(w), NEW p \in Roots
    PROVE  LET v == OhciAttach(w, p)
           IN  /\ v.dev = w.dev /\ v.hub = w.hub /\ w.intr \subseteq v.intr
               /\ "CCS" \in v.root[p] /\ ("CCS" \notin w.root[p] => "RHSC" \in v.intr)
               /\ \A q \in Roots : q # p => v.root[q] = w.root[q]
  <1> DEFINE u == IF w.hcfs = "suspend" THEN SetInterrupt(w, "RD") ELSE w
             s == (u.root[p] \cup {"CCS", "CSC"}) \ {"LSDA"}
             v == SetRoot(u, p, s)
  <1>1. /\ TreeShape(u) /\ u.dev = w.dev /\ u.hub = w.hub /\ u.root = w.root /\ w.intr \subseteq u.intr
    <2>1. TreeShape(SetInterrupt(w, "RD"))
      BY SetInterruptOnlyRoots, OnlyRootsShape
    <2>2. w.intr \subseteq SetInterrupt(w, "RD").intr
      BY DEF SetInterrupt, TreeShape, TreeFields
    <2> QED BY <2>1, <2>2, SetInterruptSame
  <1>2. "CCS" \in s /\ ("CCS" \notin w.root[p] => s # u.root[p])
    BY <1>1
  <1>3. OhciAttach(w, p) = v
    BY DEF OhciAttach
  <1> HIDE DEF u, s
  <1>4. /\ v.dev = u.dev /\ v.hub = u.hub /\ \A q \in Roots : v.root[q] = IF q = p THEN s ELSE u.root[q]
        /\ u.intr \subseteq v.intr /\ (s # u.root[p] => "RHSC" \in v.intr)
    BY <1>1, SetRootAnnounces
  <1> HIDE DEF v
  <1>5. /\ v.dev = w.dev /\ v.hub = w.hub /\ w.intr \subseteq v.intr
        /\ "CCS" \in v.root[p] /\ ("CCS" \notin w.root[p] => "RHSC" \in v.intr)
        /\ \A q \in Roots : q # p => v.root[q] = w.root[q]
    BY <1>1, <1>2, <1>4
  <1> QED BY <1>3, <1>5

LEMMA OhciDetachPorts ==
    ASSUME NEW w, TreeShape(w), NEW p \in Roots
    PROVE  LET v == OhciDetach(w, p)
           IN  /\ v.dev = w.dev /\ v.hub = w.hub /\ w.intr \subseteq v.intr
               /\ "CCS" \notin v.root[p] /\ ("CCS" \in w.root[p] => "RHSC" \in v.intr)
               /\ \A q \in Roots : q # p => v.root[q] = w.root[q]
  <1> DEFINE s == IF "CCS" \in w.root[p] THEN (w.root[p] \ {"CCS"}) \cup {"CSC"} ELSE w.root[p]
             t == IF "PES" \in s THEN (s \ {"PES"}) \cup {"PESC"} ELSE s
             v == SetRoot(w, p, t)
  <1>1. "CCS" \notin t
    OBVIOUS
  <1>2. OhciDetach(w, p) = v
    BY DEF OhciDetach
  <1> HIDE DEF t
  <1>3. /\ v.dev = w.dev /\ v.hub = w.hub /\ \A q \in Roots : v.root[q] = IF q = p THEN t ELSE w.root[q]
        /\ w.intr \subseteq v.intr /\ (t # w.root[p] => "RHSC" \in v.intr)
    BY SetRootAnnounces
  <1> HIDE DEF v
  <1>4. /\ v.dev = w.dev /\ v.hub = w.hub /\ w.intr \subseteq v.intr
        /\ "CCS" \notin v.root[p] /\ ("CCS" \in w.root[p] => "RHSC" \in v.intr)
        /\ \A q \in Roots : q # p => v.root[q] = w.root[q]
    BY <1>1, <1>3
  <1> QED BY <1>2, <1>4

\* The state and the configuration of a device are no connection.
LEMMA StateEdited ==
    ASSUME NEW w, TreeShape(w), NEW d \in Devices, NEW x
    PROVE  LET v == [w EXCEPT !.dev[d].state = x]
           IN  /\ TreeShape(v) /\ v.root = w.root /\ v.hub = w.hub /\ v.intr = w.intr /\ v.hcfs = w.hcfs
               /\ SameDevices(w, v) /\ v.dev[d].state = x
  <1> DEFINE s == [w.dev[d] EXCEPT !.state = x]
             v == [w EXCEPT !.dev[d].state = x]
  <1>1. DOMAIN w = TreeFields /\ DOMAIN w.dev = Devices /\ DOMAIN w.dev[d] = DeviceFields
    BY DEF TreeShape
  <1>2. /\ DOMAIN v = TreeFields /\ v.root = w.root /\ v.hub = w.hub /\ v.intr = w.intr /\ v.hcfs = w.hcfs
        /\ v.dev = [w.dev EXCEPT ![d] = s]
    BY <1>1 DEF TreeFields
  <1>3. DOMAIN s = DeviceFields /\ s.attached = w.dev[d].attached /\ s.plugged = w.dev[d].plugged /\ s.state = x
    BY <1>1 DEF DeviceFields
  <1> HIDE DEF s, v
  <1>4. TreeShape(v) /\ SameDevices(w, v) /\ v.dev[d].state = x
    BY <1>2, <1>3 DEF TreeShape, SameDevices
  <1> QED BY <1>2, <1>4 DEF v

\* A hub that attaches is announced by its root port.
LEMMA HubAttaches ==
    ASSUME NEW w, TreeShape(w), NEW p \in Roots
    PROVE  LET v == Attach(w, <<p>>)
           IN  /\ SameDevices(w, v) /\ v.hub = w.hub /\ w.intr \subseteq v.intr
               /\ "CCS" \in v.root[p] /\ ("CCS" \notin w.root[p] => "RHSC" \in v.intr)
               /\ \A q \in Roots : q # p => v.root[q] = w.root[q]
               /\ v.dev[<<p>>].state = "attached"
  <1> DEFINE d == <<p>>
             u == OhciAttach(w, p)
             v == [u EXCEPT !.dev[d].state = "attached"]
  <1>1. d \in Devices /\ IsHub(d) /\ d[1] = p
    BY HubNames
  <1>2. Attach(w, d) = v
    BY <1>1 DEF Attach
  <1> HIDE DEF d
  <1>3. TreeShape(u)
    BY OhciAttachOnlyRoots, OnlyRootsShape
  <1>4. /\ u.dev = w.dev /\ u.hub = w.hub /\ w.intr \subseteq u.intr
        /\ "CCS" \in u.root[p] /\ ("CCS" \notin w.root[p] => "RHSC" \in u.intr)
        /\ \A q \in Roots : q # p => u.root[q] = w.root[q]
    BY OhciAttachPorts
  <1> HIDE DEF u
  <1>5. v.root = u.root /\ v.hub = u.hub /\ v.intr = u.intr /\ SameDevices(u, v) /\ v.dev[d].state = "attached"
    BY <1>1, <1>3, StateEdited
  <1> HIDE DEF v
  <1>6. SameDevices(w, v)
    BY <1>4, <1>5 DEF SameDevices
  <1>7. /\ SameDevices(w, v) /\ v.hub = w.hub /\ w.intr \subseteq v.intr
        /\ "CCS" \in v.root[p] /\ ("CCS" \notin w.root[p] => "RHSC" \in v.intr)
        /\ \A q \in Roots : q # p => v.root[q] = w.root[q]
        /\ v.dev[d].state = "attached"
    BY <1>4, <1>5, <1>6
  <1> QED BY <1>2, <1>7 DEF d

\* A gamepad that attaches is announced by its hub, and wakes the host.
LEMMA PadAttaches ==
    ASSUME NEW w, TreeShape(w), NEW p \in Roots
    PROVE  LET v == Attach(w, Pad(p))
           IN  /\ SameDevices(w, v) /\ ("RHSC" \in w.intr => "RHSC" \in v.intr)
               /\ \A q \in Roots : "CCS" \in v.root[q] <=> "CCS" \in w.root[q]
               /\ \A q \in Roots : q # p => v.hub[q] = w.hub[q]
               /\ Seen(v, p) /\ Announced(v, p)
               /\ w.hcfs = "suspend" /\ w.dev[<<p>>].wakeup /\ w.dev[<<p>>].plugged
                  => v.hcfs = "resume" /\ "RD" \in v.intr
  <1> DEFINE d == Pad(p)
             i == GamepadPort
             port == w.hub[p][i]
             new == [status |-> (port.status \cup {"CONNECTION"}) \ {"LOW_SPEED"},
                     change |-> port.change \cup {"CONNECTION"}]
             u == [w EXCEPT !.hub[p][i] = new]
             x == Wakeup(u, p)
             v == [x EXCEPT !.dev[d].state = "attached", !.dev[d].configuration = 0]
  <1>1. d \in Devices /\ ~IsHub(d) /\ d[1] = p /\ d[2] = i /\ i \in 1..HubPorts
    BY HubNames, HubPortNames DEF Pad
  <1>2. HubAttach(w, p, i) = x
    BY DEF HubAttach
  <1> HIDE DEF d, i
  <1>3. Attach(w, d) = v
    BY <1>1, <1>2 DEF Attach
  <1>4. /\ DOMAIN new = {"status", "change"} /\ "CONNECTION" \in new.status /\ "CONNECTION" \in new.change
        /\ "ENABLE" \in new.status => "ENABLE" \in port.status
    OBVIOUS
  <1> HIDE DEF new
  <1>5. /\ DOMAIN u = TreeFields /\ u.dev = w.dev /\ u.root = w.root /\ u.intr = w.intr /\ u.hcfs = w.hcfs
        /\ u.hub = [w.hub EXCEPT ![p] = [w.hub[p] EXCEPT ![i] = new]]
    BY DEF TreeShape, TreeFields
  <1> HIDE DEF u
  <1>6. TreeShape(u)
    BY <1>1, <1>4, <1>5 DEF TreeShape
  <1>7. u.hub[p][i] = new /\ \A q \in Roots : q # p => u.hub[q] = w.hub[q]
    BY <1>1, <1>5 DEF TreeShape
  <1>8. /\ SamePorts(u, x, {}) /\ x.dev = u.dev /\ x.hub = u.hub /\ TreeShape(x)
        /\ u.hcfs = "suspend" /\ u.dev[<<p>>].wakeup /\ u.dev[<<p>>].plugged
           => x.hcfs = "resume" /\ "RD" \in x.intr
    BY <1>6, WakeupSame, WakeupOnlyRoots, OnlyRootsShape
  <1> HIDE DEF x
  <1>9. /\ v.root = x.root /\ v.hub = x.hub /\ v.intr = x.intr /\ v.hcfs = x.hcfs /\ SameDevices(x, v)
    <2> DEFINE s == [x.dev[d] EXCEPT !.state = "attached", !.configuration = 0]
    <2>1. DOMAIN x = TreeFields /\ DOMAIN x.dev = Devices /\ DOMAIN x.dev[d] = DeviceFields
      BY <1>1, <1>8 DEF TreeShape
    <2>2. /\ v.root = x.root /\ v.hub = x.hub /\ v.intr = x.intr /\ v.hcfs = x.hcfs
          /\ v.dev = [x.dev EXCEPT ![d] = s]
      BY <2>1 DEF TreeFields
    <2>3. s.attached = x.dev[d].attached /\ s.plugged = x.dev[d].plugged
      BY <2>1 DEF DeviceFields
    <2> HIDE DEF s, v
    <2> QED BY <2>1, <2>2, <2>3 DEF SameDevices
  <1> HIDE DEF v
  <1>10. SameDevices(w, v)
    BY <1>5, <1>8, <1>9 DEF SameDevices
  <1>11. Seen(v, p) /\ Announced(v, p)
    BY <1>4, <1>7, <1>8, <1>9 DEF Seen, Announced, i
  <1>12. /\ "RHSC" \in w.intr => "RHSC" \in v.intr
         /\ \A q \in Roots : "CCS" \in v.root[q] <=> "CCS" \in w.root[q]
         /\ \A q \in Roots : q # p => v.hub[q] = w.hub[q]
         /\ w.hcfs = "suspend" /\ w.dev[<<p>>].wakeup /\ w.dev[<<p>>].plugged
            => v.hcfs = "resume" /\ "RD" \in v.intr
    BY <1>5, <1>7, <1>8, <1>9 DEF SamePorts
  <1> QED BY <1>3, <1>10, <1>11, <1>12 DEF d

\* What Hub::Init and XidGamepad::Init set before they attach.
LEMMA PlugForm ==
    ASSUME NEW w, TreeShape(w), NEW d \in Devices
    PROVE  \E x : /\ Plug(w, d) = Attach(x, d) /\ TreeShape(x)
                  /\ x.root = w.root /\ x.intr = w.intr /\ x.hcfs = w.hcfs
                  /\ \A q \in Roots : q # d[1] \/ ~IsHub(d) => x.hub[q] = w.hub[q]
                  /\ IsHub(d) => ~Seen(x, d[1])
                  /\ x.dev[d].plugged = TRUE /\ x.dev[d].attached = TRUE
                  /\ \A e \in Devices : e # d => x.dev[e] = w.dev[e]
  <1> DEFINE new == [NewDevice EXCEPT !.plugged = TRUE]
             ports == IF IsHub(d) THEN [i \in 1..HubPorts |-> NoPort] ELSE w.hub[d[1]]
             v == [w EXCEPT !.dev[d] = new, !.hub[d[1]] = ports]
             s == [v.dev[d] EXCEPT !.attached = TRUE]
             x == [v EXCEPT !.dev[d].attached = TRUE]
  <1>1. d[1] \in Roots
    BY DeviceNames
  <1>2. DOMAIN new = DeviceFields /\ new.plugged = TRUE
    BY DEF NewDevice, DeviceFields
  <1>3. /\ DOMAIN ports = 1..HubPorts
        /\ \A i \in 1..HubPorts : DOMAIN ports[i] = {"status", "change"}
        /\ IsHub(d) => "CONNECTION" \notin ports[GamepadPort].status
        /\ ~IsHub(d) => ports = w.hub[d[1]]
    BY <1>1, HubPortNames DEF NoPort, TreeShape
  <1>4. Plug(w, d) = Attach(x, d)
    BY DEF Plug, DeviceAttach
  <1> HIDE DEF new, ports
  <1>5. /\ DOMAIN v = TreeFields /\ v.dev = [w.dev EXCEPT ![d] = new] /\ v.root = w.root /\ v.intr = w.intr
        /\ v.hcfs = w.hcfs /\ v.hub = [w.hub EXCEPT ![d[1]] = ports]
    BY DEF TreeShape, TreeFields
  <1> HIDE DEF v
  <1>6. /\ DOMAIN x = TreeFields /\ x.dev = [v.dev EXCEPT ![d] = s] /\ x.root = v.root /\ x.intr = v.intr
        /\ x.hcfs = v.hcfs /\ x.hub = v.hub
    BY <1>5 DEF TreeFields
  <1>7. DOMAIN v.dev = Devices /\ v.dev[d] = new /\ \A e \in Devices : e # d => v.dev[e] = w.dev[e]
    BY <1>5 DEF TreeShape
  <1>8. DOMAIN s = DeviceFields /\ s.attached = TRUE /\ s.plugged = TRUE
    BY <1>2, <1>7 DEF DeviceFields
  <1> HIDE DEF x, s
  <1>9. x.dev[d] = s /\ \A e \in Devices : e # d => x.dev[e] = w.dev[e]
    BY <1>6, <1>7
  <1>10. x.hub[d[1]] = ports /\ \A q \in Roots : q # d[1] => x.hub[q] = w.hub[q]
    <2>1. DOMAIN w.hub = Roots /\ x.hub = [w.hub EXCEPT ![d[1]] = ports]
      BY <1>5, <1>6 DEF TreeShape
    <2> DEFINE p == d[1]
    <2>2. p \in Roots /\ x.hub = [w.hub EXCEPT ![p] = ports]
      BY <1>1, <2>1
    <2> HIDE DEF p
    <2>3. x.hub[p] = ports /\ \A q \in Roots : q # p => x.hub[q] = w.hub[q]
      BY <2>1, <2>2
    <2> QED BY <2>3 DEF p
  <1>11. TreeShape(x)
    BY <1>3, <1>5, <1>6, <1>7, <1>8, <1>9, <1>10 DEF TreeShape
  <1>12. IsHub(d) => ~Seen(x, d[1])
    BY <1>3, <1>10 DEF Seen
  <1>13. /\ x.root = w.root /\ x.intr = w.intr /\ x.hcfs = w.hcfs
         /\ \A q \in Roots : q # d[1] \/ ~IsHub(d) => x.hub[q] = w.hub[q]
         /\ x.dev[d].plugged = TRUE /\ x.dev[d].attached = TRUE
    BY <1>3, <1>5, <1>6, <1>8, <1>9, <1>10
  <1> QED BY <1>4, <1>9, <1>11, <1>12, <1>13

\* The other devices are elsewhere.
LEMMA OtherPorts ==
    ASSUME NEW p \in Roots, NEW q \in Roots, q # p
    PROVE  /\ <<q>> \in Devices /\ Pad(q) \in Devices
           /\ <<q>> # <<p>> /\ <<q>> # Pad(p) /\ Pad(q) # <<p>> /\ Pad(q) # Pad(p)
           /\ <<q>>[1] = q /\ Pad(q)[1] = q
  BY HubNames DEF Pad

LEMMA PlugTellsHub ==
    ASSUME NEW w, TreeShape(w), PortsTell(w), NEW p \in Roots, CanPlug(w, <<p>>)
    PROVE  Tells(w, Plug(w, <<p>>))
  <1> DEFINE d == <<p>>
             v == Plug(w, d)
  <1>1. d \in Devices /\ IsHub(d) /\ d[1] = p /\ Pad(p) \in Devices /\ Pad(p) # d
    BY HubNames DEF Pad
  <1>2. ~w.dev[d].attached /\ "CCS" \notin w.root[p] /\ w.dev[Pad(p)].attached = FALSE
        /\ w.dev[Pad(p)].plugged = FALSE
    BY DEF PortsTell, PortTells, CanPlug
  <1> HIDE DEF d
  <1>0. PICK x : /\ Plug(w, d) = Attach(x, d) /\ TreeShape(x)
                 /\ x.root = w.root /\ x.intr = w.intr /\ x.hcfs = w.hcfs
                 /\ \A q \in Roots : q # d[1] \/ ~IsHub(d) => x.hub[q] = w.hub[q]
                 /\ IsHub(d) => ~Seen(x, d[1])
                 /\ x.dev[d].plugged = TRUE /\ x.dev[d].attached = TRUE
                 /\ \A e \in Devices : e # d => x.dev[e] = w.dev[e]
    BY <1>1, PlugForm
  <1>3. /\ v = Attach(x, d) /\ TreeShape(x)
        /\ x.root = w.root /\ x.intr = w.intr
        /\ \A q \in Roots : q # p => x.hub[q] = w.hub[q]
        /\ ~Seen(x, p)
        /\ x.dev[d].plugged = TRUE /\ x.dev[d].attached = TRUE
        /\ \A e \in Devices : e # d => x.dev[e] = w.dev[e]
    BY <1>0, <1>1
  <1> HIDE DEF v
  <1>4. /\ SameDevices(x, v) /\ v.hub = x.hub /\ x.intr \subseteq v.intr
        /\ "CCS" \in v.root[p] /\ ("CCS" \notin x.root[p] => "RHSC" \in v.intr)
        /\ \A q \in Roots : q # p => v.root[q] = x.root[q]
        /\ v.dev[d].state = "attached"
    BY <1>3, HubAttaches DEF d
  <1>5. "RHSC" \in v.intr
    BY <1>2, <1>3, <1>4
  <1>6. PortTells(v, p) /\ TellsPad(w, v, p)
    <2>1. /\ v.dev[d].attached = TRUE /\ v.dev[d].plugged = TRUE
          /\ v.dev[Pad(p)].attached = FALSE /\ v.dev[Pad(p)].plugged = FALSE
      BY <1>1, <1>2, <1>3, <1>4 DEF SameDevices
    <2>2. Seen(v, p) = FALSE
      BY <1>3, <1>4 DEF Seen
    <2>3. ~Listens(v, d)
      BY <1>1, <1>4 DEF Listens, d
    <2> QED BY <1>4, <2>1, <2>2, <2>3 DEF PortTells, TellsPad, d
  <1>7. ASSUME NEW q \in Roots, q # p PROVE PortTells(v, q) /\ TellsPad(w, v, q)
    <2>1. SamePort(w, v, q)
      BY <1>3, <1>4, <1>7, OtherPorts DEF SamePort, SameDevices, Seen, d
    <2>2. Announced(w, q) => Announced(v, q)
      BY <1>3, <1>4, <1>7 DEF Announced
    <2> QED BY <2>1, <2>2, SamePortTells DEF PortsTell
  <1>8. Tells(w, v)
    BY <1>5, <1>6, <1>7 DEF Tells, PortsTell, TellsRoot
  <1> QED BY <1>8 DEF v, d

LEMMA PlugTellsPad ==
    ASSUME NEW w, TreeShape(w), PortsTell(w), NEW p \in Roots, CanPlug(w, Pad(p))
    PROVE  /\ Tells(w, Plug(w, Pad(p)))
           /\ \A q \in Roots : q # p => Plug(w, Pad(p)).dev[Pad(q)].attached = w.dev[Pad(q)].attached
           /\ w.hcfs = "suspend" /\ w.dev[<<p>>].wakeup
              => Plug(w, Pad(p)).hcfs = "resume" /\ "RD" \in Plug(w, Pad(p)).intr
  <1> DEFINE d == Pad(p)
             v == Plug(w, d)
  <1>1. d \in Devices /\ ~IsHub(d) /\ d[1] = p /\ <<p>> \in Devices /\ <<p>> # d
    BY HubNames DEF Pad
  <1>2. /\ w.dev[<<p>>].plugged /\ w.dev[<<p>>].attached = TRUE /\ w.dev[<<p>>].plugged = TRUE
        /\ w.dev[<<p>>].attached = ("CCS" \in w.root[p])
    BY <1>1 DEF PortsTell, PortTells, CanPlug
  <1> HIDE DEF d
  <1>0. PICK x : /\ Plug(w, d) = Attach(x, d) /\ TreeShape(x)
                 /\ x.root = w.root /\ x.intr = w.intr /\ x.hcfs = w.hcfs
                 /\ \A q \in Roots : q # d[1] \/ ~IsHub(d) => x.hub[q] = w.hub[q]
                 /\ IsHub(d) => ~Seen(x, d[1])
                 /\ x.dev[d].plugged = TRUE /\ x.dev[d].attached = TRUE
                 /\ \A e \in Devices : e # d => x.dev[e] = w.dev[e]
    BY <1>1, PlugForm
  <1>3. /\ v = Attach(x, d) /\ TreeShape(x)
        /\ x.root = w.root /\ x.intr = w.intr /\ x.hcfs = w.hcfs
        /\ \A q \in Roots : x.hub[q] = w.hub[q]
        /\ x.dev[d].plugged = TRUE /\ x.dev[d].attached = TRUE
        /\ \A e \in Devices : e # d => x.dev[e] = w.dev[e]
    BY <1>0, <1>1
  <1> HIDE DEF v
  <1>4. /\ SameDevices(x, v) /\ ("RHSC" \in x.intr => "RHSC" \in v.intr)
        /\ \A q \in Roots : "CCS" \in v.root[q] <=> "CCS" \in x.root[q]
        /\ \A q \in Roots : q # p => v.hub[q] = x.hub[q]
        /\ Seen(v, p) /\ Announced(v, p)
        /\ x.hcfs = "suspend" /\ x.dev[<<p>>].wakeup /\ x.dev[<<p>>].plugged
           => v.hcfs = "resume" /\ "RD" \in v.intr
    BY <1>3, PadAttaches DEF d
  <1>5. PortTells(v, p) /\ TellsRoot(w, v, p) /\ TellsPad(w, v, p)
    <2>1. /\ v.dev[d].attached = TRUE /\ v.dev[d].plugged = TRUE
          /\ v.dev[<<p>>].attached = TRUE /\ v.dev[<<p>>].plugged = TRUE
      BY <1>1, <1>2, <1>3, <1>4 DEF SameDevices
    <2>2. Seen(v, p) = TRUE
      BY <1>4 DEF Seen
    <2>3. ("CCS" \in v.root[p]) = TRUE
      BY <1>2, <1>3, <1>4
    <2> QED BY <1>2, <1>3, <1>4, <2>1, <2>2, <2>3 DEF PortTells, TellsPad, TellsRoot, d
  <1>6. ASSUME NEW q \in Roots, q # p
        PROVE  PortTells(v, q) /\ TellsRoot(w, v, q) /\ TellsPad(w, v, q) /\ v.dev[Pad(q)].attached = w.dev[Pad(q)].attached
    <2>1. SamePort(w, v, q)
      BY <1>3, <1>4, <1>6, OtherPorts DEF SamePort, SameDevices, Seen, d
    <2>2. (Announced(w, q) => Announced(v, q)) /\ ("RHSC" \in w.intr => "RHSC" \in v.intr)
      BY <1>3, <1>4, <1>6 DEF Announced
    <2> QED BY <2>1, <2>2, SamePortTells DEF PortsTell, SamePort
  <1>7. Tells(w, v)
    BY <1>5, <1>6 DEF Tells, PortsTell
  <1>8. w.hcfs = "suspend" /\ w.dev[<<p>>].wakeup => v.hcfs = "resume" /\ "RD" \in v.intr
    BY <1>1, <1>2, <1>3, <1>4
  <1> QED BY <1>6, <1>7, <1>8 DEF v, d

LEMMA HandleDestroyTells ==
    ASSUME NEW w, TreeShape(w), PortsTell(w), NEW p \in Roots, w.dev[<<p>>].plugged
    PROVE  /\ Tells(w, HandleDestroy(w, p))
           /\ \A q \in Roots : HandleDestroy(w, p).dev[Pad(q)].attached => w.dev[Pad(q)].attached
  <1> DEFINE t == OhciDetach(w, p)
             u == [t EXCEPT !.dev[<<p>>].state = "notattached"]
             v == [u EXCEPT !.dev = [d \in Devices |-> IF d[1] = p THEN NewDevice ELSE @[d]]]
  <1>1. <<p>> \in Devices /\ <<p>>[1] = p /\ Pad(p) \in Devices /\ Pad(p)[1] = p
    BY HubNames DEF Pad
  <1>2. HandleDestroy(w, p) = v
    BY <1>1 DEF HandleDestroy, Detach
  <1>3. /\ t.dev = w.dev /\ t.hub = w.hub /\ w.intr \subseteq t.intr
        /\ "CCS" \notin t.root[p] /\ ("CCS" \in w.root[p] => "RHSC" \in t.intr)
        /\ \A q \in Roots : q # p => t.root[q] = w.root[q]
    BY OhciDetachPorts
  <1>4. TreeShape(t)
    BY OhciDetachOnlyRoots, OnlyRootsShape
  <1> HIDE DEF t
  <1>5. TreeShape(u) /\ u.root = t.root /\ u.hub = t.hub /\ u.intr = t.intr /\ SameDevices(t, u)
    BY <1>1, <1>4, StateEdited
  <1> HIDE DEF u
  <1>6. /\ v.root = u.root /\ v.hub = u.hub /\ v.intr = u.intr
        /\ v.dev = [d \in Devices |-> IF d[1] = p THEN NewDevice ELSE u.dev[d]]
    BY <1>5 DEF TreeShape, TreeFields
  <1>7. NewDevice.attached = FALSE /\ NewDevice.plugged = FALSE
    BY DEF NewDevice
  <1> HIDE DEF v
  <1>8. /\ v.dev[<<p>>].attached = FALSE /\ v.dev[<<p>>].plugged = FALSE
        /\ v.dev[Pad(p)].attached = FALSE /\ v.dev[Pad(p)].plugged = FALSE
    BY <1>1, <1>6, <1>7
  <1>9. "RHSC" \in v.intr /\ ("CCS" \in v.root[p]) = FALSE
    BY <1>1, <1>3, <1>5, <1>6 DEF PortsTell, PortTells
  <1>10. PortTells(v, p) /\ TellsPad(w, v, p)
    <2>1. ~Listens(v, <<p>>)
      BY <1>1, <1>8 DEF Listens
    <2> QED BY <1>8, <1>9, <2>1 DEF PortTells, TellsPad
  <1>11. ASSUME NEW q \in Roots, q # p
         PROVE  PortTells(v, q) /\ TellsPad(w, v, q) /\ v.dev[Pad(q)].attached = w.dev[Pad(q)].attached
    <2>1. v.dev[<<q>>] = u.dev[<<q>>] /\ v.dev[Pad(q)] = u.dev[Pad(q)]
      BY <1>6, <1>11, OtherPorts
    <2>2. SamePort(w, v, q)
      BY <1>3, <1>5, <1>6, <1>11, <2>1, OtherPorts DEF SamePort, SameDevices, Seen
    <2>3. Announced(w, q) => Announced(v, q)
      BY <1>3, <1>5, <1>6 DEF Announced
    <2> QED BY <2>2, <2>3, SamePortTells DEF PortsTell, SamePort
  <1>12. Tells(w, v) /\ \A q \in Roots : v.dev[Pad(q)].attached => w.dev[Pad(q)].attached
    BY <1>8, <1>9, <1>10, <1>11 DEF Tells, PortsTell, TellsRoot
  <1> QED BY <1>2, <1>12

\* The reset of a root port announces what is on it, and the hub there what is on its own.
LEMMA PortResetPorts ==
    ASSUME NEW w, TreeShape(w), NEW p \in Roots, w.dev[<<p>>].attached
    PROVE  LET v == PortReset(w, <<p>>)
           IN  /\ TreeShape(v) /\ SameDevices(w, v)
               /\ "CCS" \in v.root[p] /\ "RHSC" \in v.intr
               /\ Seen(v, p) <=> v.dev[Pad(p)].attached
               /\ \A q \in Roots : q # p => v.root[q] = w.root[q] /\ v.hub[q] = w.hub[q]
  <1> DEFINE d == <<p>>
             t == OhciDetach(w, p)
             u == [t EXCEPT !.dev[d].state = "notattached"]
             x == Attach(u, d)
             v == DeviceReset(x, d)
  <1>1. d \in Devices /\ d \in Hubs /\ IsHub(d) /\ d[1] = p
    BY HubNames
  <1>2. PortReset(w, d) = v
    BY <1>1 DEF PortReset, Detach
  <1>3. t.dev = w.dev /\ t.hub = w.hub /\ "CCS" \notin t.root[p] /\ \A q \in Roots : q # p => t.root[q] = w.root[q]
    BY OhciDetachPorts
  <1>4. TreeShape(t)
    BY OhciDetachOnlyRoots, OnlyRootsShape
  <1> HIDE DEF t
  <1>5. TreeShape(u) /\ u.root = t.root /\ u.hub = t.hub /\ SameDevices(t, u)
    BY <1>1, <1>4, StateEdited
  <1> HIDE DEF u
  <1>6. /\ SameDevices(u, x) /\ x.hub = u.hub
        /\ "CCS" \in x.root[p] /\ ("CCS" \notin u.root[p] => "RHSC" \in x.intr)
        /\ \A q \in Roots : q # p => x.root[q] = u.root[q]
    BY <1>5, HubAttaches
  <1>7. TreeShape(x)
    BY <1>1, <1>5, AttachQuiet DEF Quiet
  <1> HIDE DEF x, d
  <1>8. SameDevices(w, x) /\ x.dev[d].attached
    BY <1>1, <1>3, <1>5, <1>6 DEF SameDevices, d
  <1>9. /\ v.root = x.root /\ v.intr = x.intr /\ SameDevices(x, v)
        /\ \A q \in Roots : q # p => v.hub[q] = x.hub[q]
        /\ Seen(v, p) <=> v.dev[Pad(p)].attached
    <2>1. /\ v.root = x.root /\ v.intr = x.intr /\ SameDevices(x, v)
          /\ \A q \in Roots : q # d[1] \/ ~IsHub(d) => v.hub[q] = x.hub[q]
          /\ IsHub(d) /\ x.dev[d].attached => (Seen(v, d[1]) <=> v.dev[Pad(d[1])].attached)
      BY <1>1, <1>7, DeviceResetPorts
    <2> QED BY <1>1, <1>8, <2>1
  <1>10. TreeShape(v)
    BY <1>1, <1>7, DeviceResetEffect
  <1> HIDE DEF v
  <1>11. SameDevices(w, v)
    BY <1>8, <1>9 DEF SameDevices
  <1>12. /\ "CCS" \in v.root[p] /\ "RHSC" \in v.intr
         /\ \A q \in Roots : q # p => v.root[q] = w.root[q] /\ v.hub[q] = w.hub[q]
    BY <1>3, <1>5, <1>6, <1>9
  <1> QED BY <1>2, <1>9, <1>10, <1>11, <1>12 DEF d

\* A reset of the controller announces every hub again, and lets nobody listen.
LEMMA ResetHostPorts ==
    ASSUME NEW w, TreeShape(w), PortsTell(w)
    PROVE  LET v == ResetHost(w)
           IN  /\ TreeShape(v) /\ PortsTell(v) /\ SameDevices(w, v)
               /\ \A p \in Roots : v.dev[<<p>>].attached => "RHSC" \in v.intr
               /\ \A d \in Devices : ~Listens(v, d)
  <1> DEFINE On(p) == w.dev[<<p>>].attached
             Same(v) == TreeShape(v) /\ SameDevices(w, v) /\ \A q \in Roots : On(q) => v.dev[Pad(q)].attached = Seen(v, q)
             Good(v, n) == /\ Same(v)
                           /\ \A q \in Roots : "CCS" \in v.root[q] <=> q <= n /\ On(q)
                           /\ \A q \in Roots : q <= n /\ On(q) => "RHSC" \in v.intr
  <1>0. \A q \in Roots : <<q>> \in Devices /\ Pad(q) \in Devices
    BY HubNames DEF Pad
  <1>1. PICK after :
              /\ /\ TreeShape(after[0]) /\ after[0].dev = w.dev /\ after[0].hub = w.hub
                 /\ \A p \in Roots : after[0].root[p] = {}
              /\ \A p \in Roots : after[p] = IF w.dev[<<p>>].attached THEN PortReset(after[p - 1], <<p>>)
                                             ELSE after[p - 1]
              /\ ResetHost(w) = after[RootPorts]
    BY ResetHostUnrolled
  <1>2. Good(after[0], 0)
    <2>1. \A q \in Roots : q \in Nat \ {0}
      BY RootPortsAssumption DEF Roots
    <2> QED BY <1>1, <2>1 DEF SameDevices, PortsTell, PortTells, Seen
  <1>3. ASSUME NEW p \in Roots, Good(after[p - 1], p - 1) PROVE Good(after[p], p)
    <2> DEFINE u == after[p - 1]
               v == after[p]
    <2> SUFFICES Good(v, p)
      OBVIOUS
    <2>1. v = IF On(p) THEN PortReset(u, <<p>>) ELSE u
      BY <1>1
    <2>2. Good(u, p - 1)
      BY <1>3
    <2> HIDE DEF u, v
    <2>3. \A q \in Roots : q <= p <=> q <= p - 1 \/ q = p
      BY RootPortsAssumption DEF Roots
    <2>4. CASE ~On(p)
      <3>1. v = u
        BY <2>1, <2>4
      <3> QED BY <2>2, <2>3, <2>4, <3>1
    <2>5. CASE On(p)
      <3>1. v = PortReset(u, <<p>>) /\ u.dev[<<p>>].attached
        BY <1>0, <2>1, <2>2, <2>5 DEF SameDevices
      <3>2. /\ TreeShape(v) /\ SameDevices(u, v)
            /\ "CCS" \in v.root[p] /\ "RHSC" \in v.intr
            /\ Seen(v, p) <=> v.dev[Pad(p)].attached
            /\ \A q \in Roots : q # p => v.root[q] = u.root[q] /\ v.hub[q] = u.hub[q]
        BY <2>2, <3>1, PortResetPorts
      <3>3. SameDevices(w, v)
        BY <2>2, <3>2 DEF SameDevices
      <3>4. ASSUME NEW q \in Roots, On(q) PROVE v.dev[Pad(q)].attached = Seen(v, q)
        <4>1. v.dev[Pad(q)].attached = w.dev[Pad(q)].attached /\ u.dev[Pad(q)].attached = w.dev[Pad(q)].attached
          BY <1>0, <2>2, <3>3 DEF SameDevices
        <4>2. w.dev[Pad(q)].attached \in BOOLEAN
          BY DEF PortsTell, PortTells
        <4>4. Seen(v, q) \in BOOLEAN
          BY DEF Seen
        <4>3. q # p => Seen(v, q) = Seen(u, q)
          BY <3>2 DEF Seen
        <4> QED BY <2>2, <3>2, <3>4, <4>1, <4>2, <4>3, <4>4
      <3>5. \A q \in Roots : "CCS" \in v.root[q] <=> q <= p /\ On(q)
        BY <2>2, <2>3, <2>5, <3>2
      <3> QED BY <3>2, <3>3, <3>4, <3>5
    <2> QED BY <2>4, <2>5
  <1> HIDE DEF Good
  <1>4. 1 \in Roots /\ Good(after[1], 1)
    BY <1>2, <1>3, RootPortsAssumption DEF Roots
  <1>5. 2 \in Roots => Good(after[2], 2)
    BY <1>3, <1>4
  <1>6. 3 \in Roots => Good(after[3], 3)
    BY <1>3, <1>5, RootPortsAssumption DEF Roots
  <1>7. 4 \in Roots => Good(after[4], 4)
    BY <1>3, <1>6, RootPortsAssumption DEF Roots
  <1> DEFINE v == ResetHost(w)
  <1>8. Good(v, RootPorts)
    BY <1>1, <1>4, <1>5, <1>6, <1>7, RootPortsAssumption DEF Roots
  <1>9. \A d \in Devices : ~Listens(v, d)
    BY ResetHostClosed, DeviceNames DEF Closed, Listens
  <1> HIDE DEF v
  <1>10. \A q \in Roots : q <= RootPorts
    BY RootPortsAssumption DEF Roots
  <1>11. /\ TreeShape(v) /\ SameDevices(w, v)
         /\ \A q \in Roots : /\ On(q) => v.dev[Pad(q)].attached = Seen(v, q)
                             /\ "CCS" \in v.root[q] <=> On(q)
                             /\ On(q) => "RHSC" \in v.intr
    BY <1>8, <1>10 DEF Good
  <1>12. ASSUME NEW p \in Roots PROVE PortTells(v, p) /\ (v.dev[<<p>>].attached => "RHSC" \in v.intr)
    <2>1. /\ v.dev[<<p>>].attached = w.dev[<<p>>].attached /\ v.dev[<<p>>].plugged = w.dev[<<p>>].plugged
          /\ v.dev[Pad(p)].attached = w.dev[Pad(p)].attached /\ v.dev[Pad(p)].plugged = w.dev[Pad(p)].plugged
      BY <1>0, <1>11 DEF SameDevices
    <2>2. w.dev[<<p>>].attached \in BOOLEAN
      BY DEF PortsTell, PortTells
    <2>3. w.dev[<<p>>].attached = ("CCS" \in v.root[p])
      BY <1>11, <2>2
    <2> QED BY <1>11, <2>1, <2>3 DEF PortsTell, PortTells
  <1> QED BY <1>9, <1>11, <1>12 DEF PortsTell, v

\* Bits that neither power nor reset a port change no connection.
LEMMA PortSetStatusSame ==
    ASSUME NEW w, TreeShape(w), NEW p \in Roots, NEW value,
           {"PES", "PRS", "LSDA", "PPS"} \cap value = {}
    PROVE  SamePorts(w, PortSetStatus(w, p, value), {})
  <1> DEFINE cleared == (w.root[p] \ (value \cap ChangeBits)) \ (IF "CCS" \in value THEN {"PES"} ELSE {})
             s == SetIfConnected(SetIfConnected(cleared, value, "PES"), value, "PSS")
  <1>1. "CCS" \in cleared <=> "CCS" \in w.root[p]
    BY DEF ChangeBits
  <1>2. PortSetStatus(w, p, value) = SetRoot(w, p, s)
    BY DEF PortSetStatus, SetIfConnected
  <1> HIDE DEF cleared
  <1>3. s = cleared \/ s = cleared \cup {"PSS"} \/ s = cleared \cup {"CSC"}
    BY DEF SetIfConnected
  <1> HIDE DEF s
  <1>4. "CCS" \in s <=> "CCS" \in w.root[p]
    BY <1>1, <1>3
  <1> QED BY <1>2, <1>4, SetRootSame

\* The reset of a port makes its hub announce again what it carries.
LEMMA PortSetStatusTells ==
    ASSUME NEW w, TreeShape(w), PortsTell(w), NEW p \in Roots
    PROVE  LET v == PortSetStatus(w, p, {"PRS"})
           IN  /\ PortsTell(v) /\ SameDevices(w, v)
               /\ \A q \in Roots : TellsRoot(w, v, q) /\ (q # p => TellsPad(w, v, q))
               /\ Listens(v, <<p>>) => Announced(v, p) \/ v.dev[Pad(p)].attached = FALSE
  <1> DEFINE value == {"PRS"}
             bits == w.root[p]
             d == <<p>>
             v == PortSetStatus(w, p, value)
  <1>1. d \in Devices /\ IsHub(d) /\ d[1] = p /\ Pad(p) \in Devices
    BY HubNames DEF Pad
  <1>2. CASE "CCS" \in bits
    <2> DEFINE s == bits \cup {"PES", "PRSC"}
               u == DeviceReset(w, d)
               x == SetRoot(u, p, s)
    <2>1. v = x
      BY <1>2 DEF PortSetStatus, SetIfConnected, ChangeBits, TreeShape
    <2> HIDE DEF d
    <2>2. /\ u.root = w.root /\ u.intr = w.intr /\ SameDevices(w, u)
          /\ \A q \in Roots : q # p => u.hub[q] = w.hub[q]
          /\ w.dev[d].attached => (Seen(u, p) <=> u.dev[Pad(p)].attached) /\ (Announced(u, p) <=> u.dev[Pad(p)].attached)
      <3>1. LET k == DeviceReset(w, d)   a == d[1]
            IN  /\ k.root = w.root /\ k.intr = w.intr /\ SameDevices(w, k)
                /\ \A q \in Roots : q # a \/ ~IsHub(d) => k.hub[q] = w.hub[q]
                /\ IsHub(d) /\ w.dev[d].attached =>
                      /\ Seen(k, a) <=> k.dev[Pad(a)].attached
                      /\ Announced(k, a) <=> k.dev[Pad(a)].attached
        BY <1>1, DeviceResetPorts
      <3> QED BY <1>1, <3>1
    <2>3. TreeShape(u)
      BY <1>1, DeviceResetEffect
    <2>4. w.dev[d].attached /\ "CCS" \in s /\ "CCS" \in u.root[p]
      BY <1>2, <2>2 DEF PortsTell, PortTells, d
    <2> HIDE DEF u, s, x, v
    <2>5. SamePorts(u, x, {}) /\ x.hub = u.hub /\ x.dev = u.dev
      BY <2>3, <2>4, SetRootSame, SetRootAnnounces DEF x
    <2>6. SameDevices(w, v) /\ ("RHSC" \in w.intr => "RHSC" \in v.intr)
          /\ \A q \in Roots : "CCS" \in v.root[q] <=> "CCS" \in w.root[q]
      BY <2>1, <2>2, <2>5 DEF SamePorts, SameDevices
    <2>7. /\ \A q \in Roots : q # p => v.hub[q] = w.hub[q]
          /\ Seen(v, p) <=> v.dev[Pad(p)].attached
          /\ Announced(v, p) <=> v.dev[Pad(p)].attached
      BY <2>1, <2>2, <2>4, <2>5 DEF Seen, Announced
    <2>8. ASSUME NEW q \in Roots PROVE SamePort(w, v, q)
      <3>1. q # p => (Seen(v, q) <=> Seen(w, q))
        BY <2>7 DEF Seen
      <3>2. Seen(v, p) <=> Seen(w, p)
        BY <1>1, <2>4, <2>6, <2>7 DEF PortsTell, PortTells, SameDevices, d
      <3>3. <<q>> \in Devices /\ Pad(q) \in Devices
        BY HubNames DEF Pad
      <3> QED BY <2>6, <3>1, <3>2, <3>3 DEF SamePort, SameDevices
    <2>9. \A q \in Roots : q # p => (Announced(w, q) => Announced(v, q))
      BY <2>7 DEF Announced
    <2>10. \A q \in Roots : PortTells(v, q) /\ TellsRoot(w, v, q) /\ (q # p => TellsPad(w, v, q))
      BY <2>6, <2>8, <2>9, SamePortTells DEF PortsTell
    <2>11. Announced(v, p) \/ v.dev[Pad(p)].attached = FALSE
      BY <2>7, <2>10 DEF PortTells
    <2> QED BY <2>6, <2>10, <2>11 DEF PortsTell, v
  <1>3. CASE "CCS" \notin bits
    <2>1. v = SetRoot(w, p, bits \cup {"CSC"})
      BY <1>3 DEF PortSetStatus, SetIfConnected, ChangeBits, TreeShape
    <2> HIDE DEF v
    <2>2. SamePorts(w, v, {})
      BY <1>3, <2>1, SetRootSame
    <2>3. PortsTell(v) /\ \A q \in Roots : TellsRoot(w, v, q) /\ TellsPad(w, v, q)
      BY <2>2, SamePortsTell
    <2>4. ~Listens(v, d)
      <3>1. ~v.dev[<<p>>].attached
        BY <1>3, <2>2, <2>3 DEF SamePorts, PortsTell, PortTells
      <3> QED BY <1>1, <3>1 DEF Listens
    <2> QED BY <2>2, <2>3, <2>4 DEF v, SamePorts
  <1> QED BY <1>2, <1>3

LEMMA SetHubStatusSame ==
    ASSUME NEW w, TreeShape(w) PROVE SamePorts(w, SetHubStatus(w, {"LPSC", "DRWE"}), {})
  <1> DEFINE value == {"LPSC", "DRWE"}
             down == [p \in Roots |-> IF "LPS" \in value THEN PortPower(w.root[p], FALSE) ELSE w.root[p]]
             up == [p \in Roots |-> IF "LPSC" \in value THEN PortPower(down[p], TRUE) ELSE down[p]]
             rhs == ((w.rhs \ (value \cap {"OCIC"})) \cup (value \cap {"DRWE"}))
                        \ (IF "CRWE" \in value THEN {"DRWE"} ELSE {})
             v == [w EXCEPT !.root = up, !.rhs = rhs]
  <1>1. ASSUME NEW p \in Roots PROVE up[p] = w.root[p] \cup {"PPS"}
    BY DEF PortPower
  <1>2. DOMAIN up = Roots
    OBVIOUS
  <1> HIDE DEF up, rhs
  <1>3. DOMAIN v = TreeFields /\ v.dev = w.dev /\ v.hub = w.hub /\ v.root = up /\ v.intr = w.intr
    BY DEF TreeShape, TreeFields
  <1>4. SetHubStatus(w, value) = IF rhs = w.rhs THEN v ELSE SetInterrupt(v, "RHSC")
    BY DEF SetHubStatus, up, rhs
  <1> HIDE DEF v, value
  <1>5. TreeShape(v)
    BY <1>1, <1>2, <1>3 DEF TreeShape
  <1>6. SamePorts(w, v, {})
    BY <1>1, <1>3 DEF SamePorts, SameDevices, Seen, Announced
  <1>7. SamePorts(w, SetHubStatus(w, value), {})
    BY <1>4, <1>5, <1>6, SetInterruptSame, SamePortsTransitive
  <1> QED BY <1>7 DEF value

LEMMA ChangeHcfsSame ==
    ASSUME NEW w, TreeShape(w), NEW hcfs, hcfs # "reset"
    PROVE  SamePorts(w, ChangeHcfs(w, hcfs), {})
  <1> DEFINE u == [w EXCEPT !.hcfs = hcfs]
  <1>1. u.dev = w.dev /\ u.hub = w.hub /\ u.root = w.root /\ u.intr = w.intr
    BY DEF TreeShape, TreeFields
  <1>2. ChangeHcfs(w, hcfs) = w \/ ChangeHcfs(w, hcfs) = u
    BY DEF ChangeHcfs
  <1> HIDE DEF u
  <1>3. SamePorts(w, u, {})
    BY <1>1 DEF SamePorts, SameDevices, Seen, Announced
  <1> QED BY <1>2, <1>3, SamePortsItself

\* A device keeps its connection.
LEMMA OnlyDeviceSame ==
    ASSUME NEW w, NEW v, NEW d \in Devices, OnlyDevice(w, v, d), v.intr = w.intr,
           v.dev[d].attached = w.dev[d].attached, v.dev[d].plugged = w.dev[d].plugged
    PROVE  SamePorts(w, v, {})
  BY DEF OnlyDevice, SamePorts, SameDevices, Seen, Announced

\* A port of the hub on p changes, but not in what is connected to it.
LEMMA HubPortSame ==
    ASSUME NEW w, TreeShape(w), NEW p \in Roots, NEW i \in 1..HubPorts, NEW port, NEW v, NEW but,
           v.dev = w.dev, v.root = w.root, v.intr = w.intr, v.hub = [w.hub EXCEPT ![p] = [w.hub[p] EXCEPT ![i] = port]],
           "CONNECTION" \in port.status <=> "CONNECTION" \in w.hub[p][i].status,
           p \notin but => ("CONNECTION" \in port.change <=> "CONNECTION" \in w.hub[p][i].change)
    PROVE  SamePorts(w, v, but)
  <1>1. /\ DOMAIN w.hub = Roots /\ DOMAIN w.hub[p] = 1..HubPorts
    BY DEF TreeShape
  <1>2. /\ \A q \in Roots : q # p => v.hub[q] = w.hub[q]
        /\ \A j \in 1..HubPorts : v.hub[p][j] = IF j = i THEN port ELSE w.hub[p][j]
    BY <1>1
  <1>3. GamepadPort \in 1..HubPorts
    BY HubPortNames
  <1>4. ASSUME NEW q \in Roots
        PROVE  (Seen(v, q) <=> Seen(w, q)) /\ (q \notin but => (Announced(v, q) <=> Announced(w, q)))
    <2>1. CASE q # p
      BY <1>2, <2>1 DEF Seen, Announced
    <2>2. CASE q = p
      BY <1>2, <1>3, <2>2 DEF Seen, Announced
    <2> QED BY <2>1, <2>2
  <1> QED BY <1>4 DEF SamePorts, SameDevices

Acknowledges(q) == q.name = "ClearPortFeature" /\ q.value = 16

LEMMA ClearPortFeatureSame ==
    ASSUME NEW w, TreeShape(w), NEW p \in Roots, NEW req, req.name = "ClearPortFeature"
    PROVE  LET r == ClearPortFeature(w, p, req)
           IN  /\ SamePorts(w, r.tree, IF Acknowledges(req) THEN {p} ELSE {})
               /\ Acknowledges(req) /\ req.index = GamepadPort => r.status = "ok"
  <1> DEFINE i == req.index
             r == ClearPortFeature(w, p, req)
             but == IF Acknowledges(req) THEN {p} ELSE {}
             cleared == [w.hub[p][i] EXCEPT !.status = @ \ {ClearedStatus[req.value]}]
             change == [w.hub[p][i] EXCEPT !.change = @ \ {ClearedChange[req.value]}]
             v1 == [w EXCEPT !.hub[p][i].status = @ \ {ClearedStatus[req.value]}]
             v2 == [w EXCEPT !.hub[p][i].change = @ \ {ClearedChange[req.value]}]
  <1>1. \/ r = Done(w, "stall")
        \/ i \in 1..HubPorts /\ req.value \in DOMAIN ClearedStatus /\ r = Done(v1, "ok")
        \/ i \in 1..HubPorts /\ req.value \in DOMAIN ClearedChange /\ r = Done(v2, "ok")
    BY DEF ClearPortFeature
  <1>2. Acknowledges(req) /\ i = GamepadPort => r = Done(v2, "ok")
    BY HubPortNames DEF ClearPortFeature, Acknowledges, ClearedStatus, ClearedChange
  <1>3. ASSUME i \in 1..HubPorts
        PROVE  /\ cleared.status = w.hub[p][i].status \ {ClearedStatus[req.value]}
               /\ cleared.change = w.hub[p][i].change
               /\ change.status = w.hub[p][i].status
               /\ change.change = w.hub[p][i].change \ {ClearedChange[req.value]}
               /\ v1.dev = w.dev /\ v1.root = w.root /\ v1.intr = w.intr
               /\ v1.hub = [w.hub EXCEPT ![p] = [w.hub[p] EXCEPT ![i] = cleared]]
               /\ v2.dev = w.dev /\ v2.root = w.root /\ v2.intr = w.intr
               /\ v2.hub = [w.hub EXCEPT ![p] = [w.hub[p] EXCEPT ![i] = change]]
    <2> DEFINE a == ClearedStatus[req.value]
               b == ClearedChange[req.value]
    <2> HIDE DEF a, b
    <2>1. DOMAIN w.hub[p][i] = {"status", "change"} /\ DOMAIN w = TreeFields
      BY <1>3 DEF TreeShape
    <2>2. /\ cleared.status = w.hub[p][i].status \ {a} /\ cleared.change = w.hub[p][i].change
          /\ change.status = w.hub[p][i].status /\ change.change = w.hub[p][i].change \ {b}
      BY <2>1 DEF a, b
    <2>3. /\ v1.dev = w.dev /\ v1.root = w.root /\ v1.intr = w.intr
          /\ v1.hub = [w.hub EXCEPT ![p] = [w.hub[p] EXCEPT ![i] = cleared]]
      BY <2>1 DEF TreeFields, a
    <2>4. /\ v2.dev = w.dev /\ v2.root = w.root /\ v2.intr = w.intr
          /\ v2.hub = [w.hub EXCEPT ![p] = [w.hub[p] EXCEPT ![i] = change]]
      BY <2>1 DEF TreeFields, b
    <2> HIDE DEF cleared, change, v1, v2
    <2> QED BY <2>2, <2>3, <2>4 DEF a, b
  <1> HIDE DEF r, cleared, change, v1, v2, but
  <1>4. SamePorts(w, w, but)
    BY SamePortsItself
  <1>5. ASSUME i \in 1..HubPorts, req.value \in DOMAIN ClearedStatus PROVE SamePorts(w, v1, but)
    <2>1. ClearedStatus[req.value] # "CONNECTION"
      BY <1>5 DEF ClearedStatus
    <2>2. "CONNECTION" \in cleared.status <=> "CONNECTION" \in w.hub[p][i].status
      BY <1>3, <1>5, <2>1
    <2> QED BY <1>3, <1>5, <2>2, HubPortSame
  <1>6. ASSUME i \in 1..HubPorts, req.value \in DOMAIN ClearedChange PROVE SamePorts(w, v2, but)
    <2>1. p \notin but => ClearedChange[req.value] # "CONNECTION"
      BY <1>6 DEF ClearedChange, Acknowledges, but
    <2>2. p \notin but => ("CONNECTION" \in change.change <=> "CONNECTION" \in w.hub[p][i].change)
      BY <1>3, <1>6, <2>1
    <2> QED BY <1>3, <1>6, <2>2, HubPortSame
  <1>7. SamePorts(w, r.tree, but) /\ (Acknowledges(req) /\ i = GamepadPort => r.status = "ok")
    BY <1>1, <1>2, <1>4, <1>5, <1>6, DoneFields
  <1> QED BY <1>7 DEF r, but

LEMMA ResetHubPortSame ==
    ASSUME NEW w, TreeShape(w), NEW p \in Roots, NEW i
    PROVE  SamePorts(w, ResetHubPort(w, p, i), {})
  <1> DEFINE pad == <<p, GamepadPort>>
             v == ResetHubPort(w, p, i)
             u == DeviceReset(w, pad)
             port == [status |-> u.hub[p][i].status \cup {"ENABLE"}, change |-> u.hub[p][i].change \cup {"RESET"}]
             x == [u EXCEPT !.hub[p][i] = port]
  <1>1. pad \in Devices /\ ~IsHub(pad) /\ pad[1] = p
    BY HubNames
  <1>2. CASE i # GamepadPort \/ ~w.dev[pad].attached
    <2>1. v = w
      BY <1>2 DEF ResetHubPort
    <2> QED BY <2>1, SamePortsItself
  <1>3. CASE ~(i # GamepadPort \/ ~w.dev[pad].attached)
    <2>1. v = Wakeup(x, p)
      BY <1>3 DEF ResetHubPort
    <2> HIDE DEF pad
    <2>2. TreeShape(u)
      BY <1>1, DeviceResetEffect
    <2>3. SamePorts(w, u, {})
      <3>1. u.root = w.root /\ u.intr = w.intr /\ SameDevices(w, u) /\ \A q \in Roots : u.hub[q] = w.hub[q]
        <4>1. LET k == DeviceReset(w, pad)   a == pad[1]
              IN  /\ k.root = w.root /\ k.intr = w.intr /\ SameDevices(w, k)
                  /\ \A q \in Roots : q # a \/ ~IsHub(pad) => k.hub[q] = w.hub[q]
          BY <1>1, DeviceResetPorts
        <4> QED BY <1>1, <4>1
      <3> HIDE DEF u
      <3> QED BY <3>1 DEF SamePorts, Seen, Announced
    <2>4. /\ i \in 1..HubPorts /\ DOMAIN port = {"status", "change"}
          /\ "CONNECTION" \in port.status <=> "CONNECTION" \in u.hub[p][i].status
      BY <1>3, HubPortNames
    <2>7. "CONNECTION" \in port.change <=> "CONNECTION" \in u.hub[p][i].change
      OBVIOUS
    <2> HIDE DEF u, v, port
    <2>5. /\ DOMAIN x = TreeFields /\ x.dev = u.dev /\ x.root = u.root /\ x.intr = u.intr
          /\ x.hub = [u.hub EXCEPT ![p] = [u.hub[p] EXCEPT ![i] = port]]
      BY <2>2 DEF TreeShape, TreeFields
    <2> HIDE DEF x
    <2>6. TreeShape(x)
      BY <2>2, <2>4, <2>5 DEF TreeShape
    <2>8. SamePorts(u, x, {})
      BY <2>2, <2>4, <2>5, <2>7, HubPortSame
    <2>9. SamePorts(x, v, {})
      BY <2>1, <2>6, WakeupSame
    <2> QED BY <2>3, <2>8, <2>9, SamePortsTransitive DEF v
  <1> QED BY <1>2, <1>3

LEMMA SetPortFeatureSame ==
    ASSUME NEW w, TreeShape(w), NEW p \in Roots, NEW req
    PROVE  SamePorts(w, SetPortFeature(w, p, req).tree, {})
  <1> DEFINE i == req.index
             r == SetPortFeature(w, p, req)
             port == [w.hub[p][i] EXCEPT !.status = @ \cup {"SUSPEND"}]
             v == [w EXCEPT !.hub[p][i].status = @ \cup {"SUSPEND"}]
             x == ResetHubPort(w, p, i)
  <1>1. \/ r = Done(w, "stall") \/ r = Done(w, "ok")
        \/ i \in 1..HubPorts /\ r = Done(v, "ok")
        \/ r = Done(x, "ok")
    BY DEF SetPortFeature
  <1>2. SamePorts(w, x, {}) /\ SamePorts(w, w, {})
    BY ResetHubPortSame, SamePortsItself
  <1>3. ASSUME i \in 1..HubPorts PROVE SamePorts(w, v, {})
    <2>1. DOMAIN w.hub[p][i] = {"status", "change"} /\ DOMAIN w = TreeFields
      BY <1>3 DEF TreeShape
    <2>2. /\ "CONNECTION" \in port.status <=> "CONNECTION" \in w.hub[p][i].status
          /\ "CONNECTION" \in port.change <=> "CONNECTION" \in w.hub[p][i].change
      BY <2>1
    <2>3. /\ v.dev = w.dev /\ v.root = w.root /\ v.intr = w.intr
          /\ v.hub = [w.hub EXCEPT ![p] = [w.hub[p] EXCEPT ![i] = port]]
      BY <2>1 DEF TreeFields
    <2> HIDE DEF v, port
    <2> QED BY <1>3, <2>2, <2>3, HubPortSame
  <1> HIDE DEF r, v, x
  <1>4. SamePorts(w, r.tree, {})
    BY <1>1, <1>2, <1>3, DoneFields
  <1> QED BY <1>4 DEF r

\* No control write connects or disconnects; one takes back what the hub announced.
LEMMA HandleWriteSame ==
    ASSUME NEW w, TreeShape(w), NEW d \in Devices, NEW q
    PROVE  LET r == HandleWrite(w, d, q)
           IN  /\ SamePorts(w, r.tree, IF Acknowledges(q) THEN {d[1]} ELSE {})
               /\ Acknowledges(q) /\ q.index = GamepadPort /\ IsHub(d) => r.status = "ok"
  <1> DEFINE v == [w EXCEPT !.dev[d].ran = @ + 1]
             s == [w.dev[d] EXCEPT !.ran = @ + 1]
             r == HandleWrite(w, d, q)
             but == IF Acknowledges(q) THEN {d[1]} ELSE {}
             a == q.value % 256
             b == q.name = "SetFeature"
             addressed == [v EXCEPT !.dev[d].addr = q.value % 256]
             configured == [v EXCEPT !.dev[d].configuration = q.value]
             woken == [v EXCEPT !.dev[d].wakeup = (q.name = "SetFeature")]
  <1>1. DOMAIN w = TreeFields /\ DOMAIN w.dev = Devices /\ DOMAIN w.dev[d] = DeviceFields
    BY DEF TreeShape
  <1>2. DOMAIN v = TreeFields /\ v.root = w.root /\ v.hub = w.hub /\ v.intr = w.intr /\ v.dev = [w.dev EXCEPT ![d] = s]
    BY <1>1 DEF TreeFields
  <1>3. /\ DOMAIN s = DeviceFields /\ s.attached = w.dev[d].attached /\ s.state = w.dev[d].state
        /\ s.addr = w.dev[d].addr /\ s.plugged = w.dev[d].plugged
    BY <1>1 DEF DeviceFields
  <1>4. \/ r = SetAddress(v, d, q) \/ r = SetConfiguration(v, d, q) \/ r = RemoteWakeup(v, d, q)
        \/ IsHub(d) /\ r = SetPortFeature(v, d[1], q)
        \/ q.name = "ClearPortFeature" /\ IsHub(d) /\ r = ClearPortFeature(v, d[1], q)
        \/ r = SetInterface(v, d, q) \/ r = ClearEndpointFeature(v, d, q) \/ r = HubFeature(v, q)
        \/ r = SetReport(v, q) \/ r = Done(v, "stall")
    BY DEF HandleWrite
  <1>5. \/ r = Done(addressed, "ok") \/ r = Done(configured, "ok") \/ r = Done(woken, "ok")
        \/ IsHub(d) /\ r = SetPortFeature(v, d[1], q)
        \/ q.name = "ClearPortFeature" /\ IsHub(d) /\ r = ClearPortFeature(v, d[1], q)
        \/ r = Done(v, "ok") \/ r = Done(v, "stall")
    <2> HIDE DEF r, v
    <2> QED BY <1>4 DEF SetAddress, SetConfiguration, RemoteWakeup, SetInterface, ClearEndpointFeature,
                        HubFeature, SetReport
  <1>6. Acknowledges(q) /\ IsHub(d) => r = ClearPortFeature(v, d[1], q)
    BY DEF HandleWrite, Acknowledges
  <1> HIDE DEF s, v, r, but
  <1>7. /\ DOMAIN v = TreeFields /\ DOMAIN v.dev = Devices /\ v.dev[d] = s
        /\ \A e \in Devices : e # d => v.dev[e] = w.dev[e]
    BY <1>1, <1>2
  <1>8. SamePorts(w, v, {}) /\ TreeShape(v)
    <2>1. Edited(w, v, d)
      BY <1>2, <1>3, <1>7 DEF Edited, OnlyDevice
    <2> QED BY <2>1, EditedListens, EditedSame
  <1>9. SamePorts(v, addressed, {}) /\ SamePorts(v, configured, {}) /\ SamePorts(v, woken, {})
    <2>1. DOMAIN v.dev[d] = DeviceFields
      BY <1>3, <1>7
    <2> DEFINE t1 == [v.dev[d] EXCEPT !.addr = a]
               t2 == [v.dev[d] EXCEPT !.configuration = q.value]
               t3 == [v.dev[d] EXCEPT !.wakeup = b]
    <2> HIDE DEF a, b
    <2>2. /\ DOMAIN addressed = TreeFields /\ addressed.root = v.root /\ addressed.hub = v.hub
          /\ addressed.intr = v.intr /\ addressed.dev = [v.dev EXCEPT ![d] = t1]
          /\ DOMAIN configured = TreeFields /\ configured.root = v.root /\ configured.hub = v.hub
          /\ configured.intr = v.intr /\ configured.dev = [v.dev EXCEPT ![d] = t2]
          /\ DOMAIN woken = TreeFields /\ woken.root = v.root /\ woken.hub = v.hub
          /\ woken.intr = v.intr /\ woken.dev = [v.dev EXCEPT ![d] = t3]
      BY <1>7 DEF TreeFields, a, b
    <2>3. /\ DOMAIN t1 = DeviceFields /\ t1.attached = v.dev[d].attached /\ t1.plugged = v.dev[d].plugged
          /\ DOMAIN t2 = DeviceFields /\ t2.attached = v.dev[d].attached /\ t2.plugged = v.dev[d].plugged
          /\ DOMAIN t3 = DeviceFields /\ t3.attached = v.dev[d].attached /\ t3.plugged = v.dev[d].plugged
      BY <2>1 DEF DeviceFields
    <2> HIDE DEF t1, t2, t3, addressed, configured, woken
    <2>4. OnlyDevice(v, addressed, d) /\ OnlyDevice(v, configured, d) /\ OnlyDevice(v, woken, d)
      BY <1>7, <2>2, <2>3 DEF OnlyDevice
    <2>5. addressed.dev[d] = t1 /\ configured.dev[d] = t2 /\ woken.dev[d] = t3
      BY <1>7, <2>2
    <2> QED BY <2>2, <2>3, <2>4, <2>5, OnlyDeviceSame
  <1>10. ASSUME IsHub(d)
         PROVE  /\ SamePorts(v, SetPortFeature(v, d[1], q).tree, {})
                /\ q.name = "ClearPortFeature" => SamePorts(v, ClearPortFeature(v, d[1], q).tree, but)
                /\ Acknowledges(q) /\ q.index = GamepadPort => r.status = "ok"
    <2> DEFINE p == d[1]
    <2>1. p \in Roots
      BY DeviceNames
    <2>2. but = IF Acknowledges(q) THEN {p} ELSE {}
      BY DEF but
    <2>3. q.name = "ClearPortFeature" =>
              /\ SamePorts(v, ClearPortFeature(v, p, q).tree, IF Acknowledges(q) THEN {p} ELSE {})
              /\ Acknowledges(q) /\ q.index = GamepadPort => ClearPortFeature(v, p, q).status = "ok"
      BY <1>8, <2>1, ClearPortFeatureSame
    <2>4. SamePorts(v, SetPortFeature(v, p, q).tree, {})
      BY <1>8, <2>1, SetPortFeatureSame
    <2>5. Acknowledges(q) => q.name = "ClearPortFeature" /\ r = ClearPortFeature(v, p, q)
      BY <1>6, <1>10 DEF Acknowledges
    <2> HIDE DEF p
    <2>6. /\ SamePorts(v, SetPortFeature(v, p, q).tree, {})
          /\ q.name = "ClearPortFeature" => SamePorts(v, ClearPortFeature(v, p, q).tree, but)
          /\ Acknowledges(q) /\ q.index = GamepadPort => r.status = "ok"
      BY <2>2, <2>3, <2>4, <2>5
    <2> QED BY <2>6 DEF p
  <1> HIDE DEF addressed, configured, woken
  <1>11. SamePorts(v, r.tree, but)
    BY <1>5, <1>9, <1>10, DoneFields, SamePortsWider, SamePortsItself
  <1>12. SamePorts(w, r.tree, but)
    BY <1>8, <1>11, SamePortsWider, SamePortsTransitive
  <1> QED BY <1>10, <1>12 DEF r, but

\* A packet connects nothing; an IN that takes effect may acknowledge what a hub announced.
LEMMA InSame ==
    ASSUME NEW w, TreeShape(w), NEW d \in Devices, NEW size
    PROVE  LET r == DoTokenIn(w, d, size)   q == w.dev[d].request
           IN  /\ SamePorts(w, r.tree, IF Acknowledges(q) THEN {d[1]} ELSE {})
               /\ w.dev[d].setup = "ack" /\ ~IsRead(q) /\ Acknowledges(q) /\ q.index = GamepadPort /\ IsHub(d)
                  => r.status = "ok"
  <1> DEFINE q == w.dev[d].request
             r == DoTokenIn(w, d, size)
             s == w.dev[d]
             u == Piece(w, d, Rest(s, size))
             written == HandleWrite(w, d, q)
             x == Done(Finish(written.tree, d), written.status)
             but == IF Acknowledges(q) THEN {d[1]} ELSE {}
  <1>1. /\ s.setup = "ack" /\ ~IsRead(q) => r = x
        /\ ~(s.setup = "ack" /\ ~IsRead(q)) =>
              \/ r = Done(w, "ok")
              \/ r = Done(w, "stall")
              \/ r.tree = u
              \/ r = Done(Finish(w, d), "stall")
    <2> HIDE DEF u, written
    <2>1. Sent(u, d, Rest(s, size), s.index).tree = u
      BY DEF Sent
    <2>2. r = CASE s.setup = "ack" /\ ~IsRead(q) -> x
                [] s.setup = "ack" /\ IsRead(q) -> Done(w, "ok")
                [] s.setup = "data" /\ IsRead(q) -> Sent(u, d, Rest(s, size), s.index)
                [] s.setup = "data" /\ ~IsRead(q) -> Done(Finish(w, d), "stall")
                [] OTHER -> Done(w, "stall")
      BY DEF DoTokenIn, u, written
    <2> HIDE DEF r, x, s
    <2> QED BY <2>1, <2>2
  <1> HIDE DEF r, u
  <1>2. /\ TreeShape(written.tree) /\ SamePorts(w, written.tree, but)
        /\ Acknowledges(q) /\ q.index = GamepadPort /\ IsHub(d) => written.status = "ok"
    <2> HIDE DEF q
    <2>1. Obeyed(w, written, d, q)
      BY HandleWriteEffect
    <2>2. /\ SamePorts(w, written.tree, but)
          /\ Acknowledges(q) /\ q.index = GamepadPort /\ IsHub(d) => written.status = "ok"
      BY HandleWriteSame
    <2> HIDE DEF written
    <2> QED BY <2>1, <2>2 DEF Obeyed
  <1> HIDE DEF written
  <1>3. Edited(written.tree, Finish(written.tree, d), d)
    BY <1>2, FinishEdits
  <1>4. /\ Edited(w, u, d) /\ Edited(w, Finish(w, d), d) /\ Edited(w, w, d)
    BY PieceEdits, FinishEdits, UneditedIsEdited DEF u
  <1> HIDE DEF but
  <1>5. SamePorts(written.tree, Finish(written.tree, d), but)
    BY <1>3, EditedSame, SamePortsWider
  <1>6. SamePorts(w, Finish(written.tree, d), but)
    BY <1>2, <1>5, SamePortsTransitive
  <1>7. x.tree = Finish(written.tree, d) /\ x.status = written.status
    BY DoneFields
  <1>8. SamePorts(w, u, but) /\ SamePorts(w, Finish(w, d), but) /\ SamePorts(w, w, but)
    BY <1>4, EditedSame, SamePortsWider
  <1> HIDE DEF x, s, q
  <1>9. /\ SamePorts(w, r.tree, but)
        /\ s.setup = "ack" /\ ~IsRead(q) /\ Acknowledges(q) /\ q.index = GamepadPort /\ IsHub(d) => r.status = "ok"
    <2>1. CASE s.setup = "ack" /\ ~IsRead(q)
      BY <1>1, <1>2, <1>6, <1>7, <2>1
    <2>2. CASE ~(s.setup = "ack" /\ ~IsRead(q))
      BY <1>1, <1>8, <2>2, DoneFields
    <2> QED BY <2>1, <2>2
  <1> QED BY <1>9 DEF r, s, q, but

\* No packet connects or disconnects a device.
LEMMA PacketSame ==
    ASSUME NEW w, TreeShape(w), NEW packet, packet.pid \in {"setup", "in", "out"}
    PROVE  SamePorts(w, HandlePacket(w, packet).tree, Roots)
  <1> DEFINE r == HandlePacket(w, packet)
  <1>1. \/ r.tree = w
        \/ \E d \in Devices : \/ r = DoTokenSetup(w, d, packet.request, packet.size)
                              \/ r = DoTokenIn(w, d, packet.size) \/ r = DoTokenOut(w, d, packet.size)
    BY PacketReceiver
  <1> HIDE DEF r
  <1>2. SamePorts(w, w, Roots)
    BY SamePortsItself
  <1>3. ASSUME NEW d \in Devices
        PROVE  /\ SamePorts(w, DoTokenSetup(w, d, packet.request, packet.size).tree, Roots)
               /\ SamePorts(w, DoTokenIn(w, d, packet.size).tree, Roots)
               /\ SamePorts(w, DoTokenOut(w, d, packet.size).tree, Roots)
    <2>1. /\ Edited(w, DoTokenSetup(w, d, packet.request, packet.size).tree, d)
          /\ Edited(w, DoTokenOut(w, d, packet.size).tree, d)
      BY SetupEdits, OutEdits
    <2>2. SamePorts(w, DoTokenIn(w, d, packet.size).tree,
                    IF Acknowledges(w.dev[d].request) THEN {d[1]} ELSE {})
      BY InSame
    <2>3. SamePorts(w, DoTokenIn(w, d, packet.size).tree, Roots)
      <3>1. d[1] \in Roots
        BY DeviceNames
      <3> QED BY <2>2, <3>1 DEF SamePorts
    <2> QED BY <2>1, <2>3, EditedSame, SamePortsWider
  <1> QED BY <1>1, <1>2, <1>3 DEF r

\* What a hub answers to GetPortStatus is the connection of its port.
LEMMA SetupAnswers ==
    ASSUME NEW w, TreeShape(w), NEW d \in Devices, IsHub(d),
           DoTokenSetup(w, d, PortStatus, 8).status = "ok"
    PROVE  DoTokenSetup(w, d, PortStatus, 8).tree.dev[d].data.connected = Seen(w, d[1])
  <1> DEFINE req == PortStatus
             v == [w EXCEPT !.dev[d].request = req, !.dev[d].length = req.length, !.dev[d].index = 0,
                            !.dev[d].ran = 0]
             n == Reply(w, d, req)
             data == Filled(w, d, req)
             m == Min2(n, req.length)
             x == [v EXCEPT !.dev[d].data = data, !.dev[d].setup = "data", !.dev[d].length = m]
             r == DoTokenSetup(w, d, req, 8)
  <1>1. IsRead(req) /\ req.index = GamepadPort /\ req.name = "GetPortStatus"
    BY DEF PortStatus, IsRead, ReadRequests
  <1>2. data.connected = Seen(w, d[1])
    <2>1. data.connected = (req.name = "GetPortStatus" /\ "CONNECTION" \in w.hub[d[1]][req.index].status)
      BY DEF Filled
    <2>2. data.connected = ("CONNECTION" \in w.hub[d[1]][GamepadPort].status)
      BY <1>1, <2>1
    <2> QED BY <2>2 DEF Seen
  <1> HIDE DEF req
  <1>3. r = Done(v, "stall") \/ r = Done(x, "ok")
    BY <1>1 DEF DoTokenSetup
  <1>4. DOMAIN w = TreeFields /\ DOMAIN w.dev = Devices /\ DOMAIN w.dev[d] = DeviceFields
    BY DEF TreeShape
  <1> HIDE DEF data, m
  <1>5. x.dev[d].data = data
    <2>1. DOMAIN v = TreeFields /\ DOMAIN v.dev = Devices /\ DOMAIN v.dev[d] = DeviceFields
      BY <1>4 DEF TreeFields, DeviceFields
    <2> HIDE DEF v
    <2> QED BY <2>1 DEF TreeFields, DeviceFields
  <1> HIDE DEF v, x, r
  <1>6. r.status = "ok"
    BY DEF r, req
  <1>7. r.tree = x
    BY <1>3, <1>6, DoneFields
  <1>8. r.tree.dev[d].data.connected = Seen(w, d[1])
    BY <1>2, <1>5, <1>7
  <1> QED BY <1>8 DEF r, req

\* An answer goes over in one piece, as the device has kept it since the SETUP.
LEMMA AnswerGoesOver ==
    ASSUME NEW w, TreeShape(w), NEW d \in Devices, NEW n, Serves(w, d, PortStatus, n)
    PROVE  LET r == DoTokenIn(w, d, 8)
           IN  /\ r.tree.dev[d].data = w.dev[d].data
               /\ r.count > 0 => r.data = w.dev[d].data /\ (n = 0 => r.tree.dev[d].setup = "ack")
  <1> DEFINE r == DoTokenIn(w, d, 8)
             s == w.dev[d]
             k == Rest(s, 8)
             u == Piece(w, d, k)
  <1>1. /\ IsRead(PortStatus) /\ s.request = PortStatus /\ s.length \in Nat /\ s.length <= 4 /\ s.index = n
        /\ s.setup \in {"data", "ack"}
    <2>1. IsRead(PortStatus) /\ PortStatus.length = 4
      BY DEF PortStatus, IsRead, ReadRequests
    <2>2. s.length = Total(w, d, PortStatus) /\ s.length \in Nat
      BY DEF Serves
    <2> DEFINE m == Reply(w, d, PortStatus)
    <2>3. s.length = Min2(m, 4)
      BY <2>1, <2>2 DEF Total
    <2> HIDE DEF m
    <2>4. s.length <= 4
      BY <2>2, <2>3 DEF Min2
    <2> QED BY <2>1, <2>2, <2>4 DEF Serves
  <1> HIDE DEF u
  <1>2. /\ u.dev[d].data = s.data
        /\ u.dev[d].setup = IF s.index + k >= s.length THEN "ack" ELSE s.setup
    BY PieceFields DEF u
  <1>3. n = 0 => u.dev[d].setup = "ack"
    <2>1. n = 0 => k = s.length
      BY <1>1 DEF Rest, Min2
    <2> HIDE DEF k, s
    <2> QED BY <1>1, <1>2, <2>1
  <1>4. CASE s.setup = "ack"
    <2>1. r = Done(w, "ok")
      BY <1>1, <1>4 DEF DoTokenIn
    <2> HIDE DEF r
    <2>2. r.tree = w /\ r.count = 0
      BY <2>1, AnswerFields
    <2> QED BY <2>2 DEF r
  <1>5. CASE s.setup = "data"
    <2>1. r = Sent(u, d, k, s.index)
      BY <1>1, <1>5 DEF DoTokenIn, u
    <2> HIDE DEF r
    <2>2. r.tree = u /\ r.data = u.dev[d].data
      BY <2>1 DEF Sent
    <2> QED BY <1>2, <1>3, <2>2 DEF r
  <1> QED BY <1>1, <1>4, <1>5

-----------------------------------------------------------------------------
(* What the guest believes of the ports.                                    *)

\* The guest, who believes c of the gamepad on p, is right or will be told.
Fresh(w, p, c) == Announced(w, p) \/ c = w.dev[Pad(p)].attached
RootsKnown == \A p \in Roots : \/ "RHSC" \in usb.intr \/ p \in scan.left
                               \/ (<<p>> \in known) = usb.dev[<<p>>].attached
PadsKnown == \A p \in Roots : Listens(usb, <<p>>) /\ rescan # <<p>> => Fresh(usb, p, Pad(p) \in known)
\* Once it has acknowledged an announcement, the guest reads the port, and what it reads is no older.
Reading(h) ==
    /\ rescan = h
    /\ Listens(usb, h) =>
          /\ Fresh(usb, h[1], usb.dev[h].data.connected)
          /\ transfer.got > 0 => usb.dev[h].setup = "ack" /\ Fresh(usb, h[1], answer.data.connected)
AskInv ==
    transfer.stage = "open" =>
        /\ transfer.request = Simple("ClearPortFeature", 16, GamepadPort) => rescan = NoDevice
        /\ transfer.request = PortStatus => Reading(given[transfer.to])
ScanInv == scan.step # "none" => scan.at \in scan.left
ConnInv == Enumerates => PortsTell(usb) /\ ScanInv /\ RootsKnown /\ PadsKnown /\ AskInv

LEMMA FreshKept ==
    ASSUME NEW w, NEW v, NEW p \in Roots, TellsPad(w, v, p), Listens(v, <<p>>), NEW c, Fresh(w, p, c)
    PROVE  Fresh(v, p, c)
  BY DEF TellsPad, Fresh

\* The hub that is asked.
LEMMA AskedHub ==
    ASSUME UsbInv, Enumerates, transfer.stage = "open", ~(transfer.request.name = "SetAddress")
    PROVE  LET h == given[transfer.to]
           IN  /\ AskedOfHub(transfer) /\ transfer.to \in Addresses
               /\ h \in Devices /\ h \in Hubs /\ h # NoDevice /\ IsHub(h) /\ h = <<h[1]>> /\ h[1] \in Roots
  <1>1. AskedOfHub(transfer)
    BY AskedForms DEF UsbInv, TransferInv
  <1> QED BY <1>1, DeviceNames DEF AskedOfHub, Devices

LEMMA RequestNames ==
    /\ PortStatus.name = "GetPortStatus" /\ ~Acknowledges(PortStatus) /\ IsRead(PortStatus)
    /\ LET q == Simple("ClearPortFeature", 16, GamepadPort)
       IN  q.name = "ClearPortFeature" /\ Acknowledges(q) /\ ~IsRead(q) /\ q.index = GamepadPort
  BY DEF PortStatus, Simple, Acknowledges, IsRead, ReadRequests

\* A step that lets no hub in, announces what it changes, and leaves alone what the guest knows of the
\* hubs that still listen.
LEMMA PadsKept ==
    ASSUME UsbInv, Enumerates, PadsKnown, AskInv, Quiet(usb, usb'),
           \A p \in Roots :
              Listens(usb', <<p>>) => /\ TellsPad(usb, usb', p)
                                      /\ rescan' = <<p>> <=> rescan = <<p>>
                                      /\ Pad(p) \in known' <=> Pad(p) \in known,
           \/ transfer'.stage # "open"
           \/ /\ transfer' = transfer /\ answer' = answer
              /\ transfer.request.name # "SetAddress" =>
                    /\ given'[transfer.to] = given[transfer.to]
                    /\ rescan \in {NoDevice, given[transfer.to]} => rescan' = rescan
    PROVE  PadsKnown' /\ AskInv'
  <1>1. \A d \in Devices : Listens(usb', d) => Listens(usb, d) /\ usb'.dev[d] = usb.dev[d]
    BY DEF Quiet, AsBefore
  <1>2. PadsKnown'
    <2> SUFFICES ASSUME NEW p \in Roots, Listens(usb', <<p>>), rescan' # <<p>>
                 PROVE  Fresh(usb', p, Pad(p) \in known')
      BY DEF PadsKnown
    <2>1. Listens(usb, <<p>>)
      BY <1>1, HubNames
    <2>2. Fresh(usb, p, Pad(p) \in known)
      BY <2>1 DEF PadsKnown
    <2>3. Fresh(usb', p, Pad(p) \in known)
      BY <2>2, FreshKept
    <2>4. (Pad(p) \in known) = (Pad(p) \in known')
      OBVIOUS
    <2> QED BY <2>3, <2>4
  <1>3. AskInv'
    <2> SUFFICES ASSUME transfer'.stage = "open" PROVE AskInv'
      BY DEF AskInv
    <2>1. /\ transfer' = transfer /\ answer' = answer
          /\ transfer.request.name # "SetAddress" =>
                /\ given'[transfer.to] = given[transfer.to]
                /\ rescan \in {NoDevice, given[transfer.to]} => rescan' = rescan
      OBVIOUS
    <2> DEFINE h == given[transfer.to]
    <2>2. ASSUME transfer.request = PortStatus PROVE Reading(h)'
      <3>0. transfer.request.name # "SetAddress"
        BY <2>2, RequestNames
      <3>1. h \in Devices /\ h = <<h[1]>> /\ h[1] \in Roots
        BY <2>1, <3>0, AskedHub
      <3>2. Reading(h)
        BY <2>1, <2>2 DEF AskInv
      <3> DEFINE p == h[1]
      <3>3. p \in Roots /\ h = <<p>>
        BY <3>1
      <3> HIDE DEF p
      <3>4. ASSUME NEW c, Fresh(usb, p, c), Listens(usb', h) PROVE Fresh(usb', p, c)
        BY <3>3, <3>4, FreshKept
      <3>5. /\ rescan' = h
            /\ Listens(usb', h) =>
                  /\ Fresh(usb', p, usb'.dev[h].data.connected)
                  /\ transfer'.got > 0 => usb'.dev[h].setup = "ack" /\ Fresh(usb', p, answer'.data.connected)
        BY <1>1, <2>1, <3>0, <3>1, <3>2, <3>4 DEF Reading, p
      <3>6. h' = h
        BY <2>1, <3>0
      <3> HIDE DEF h
      <3> QED BY <3>5, <3>6 DEF Reading, p
    <2>3. ASSUME transfer.request = PortStatus PROVE h' = h
      BY <2>1, <2>3, RequestNames
    <2>4. transfer.request = Simple("ClearPortFeature", 16, GamepadPort) => rescan' = NoDevice
      BY <2>1, RequestNames DEF AskInv
    <2>5. transfer'.request = PortStatus => Reading(given[transfer.to])'
      BY <2>1, <2>2, <2>3
    <2> QED BY <2>1, <2>4, <2>5 DEF AskInv
  <1> QED BY <1>2, <1>3

LEMMA RootsKept ==
    ASSUME RootsKnown, \A p \in Roots : TellsRoot(usb, usb', p), scan.left \subseteq scan'.left,
           \A p \in Roots : <<p>> \in known' <=> <<p>> \in known
    PROVE  RootsKnown'
  <1> SUFFICES ASSUME NEW p \in Roots
               PROVE  \/ "RHSC" \in usb'.intr \/ p \in scan'.left
                      \/ (<<p>> \in known') = usb'.dev[<<p>>].attached
    BY DEF RootsKnown
  <1>1. (<<p>> \in known') = (<<p>> \in known)
    OBVIOUS
  <1> QED BY <1>1 DEF RootsKnown, TellsRoot

\* A step that announces what it changes, and of which the guest makes nothing yet.
LEMMA TellsConn ==
    ASSUME UsbInv, Enumerates, ConnInv, Quiet(usb, usb'), Tells(usb, usb'),
           UNCHANGED <<focus, transfer, answer, known, given, rescan>>,
           scan.left \subseteq scan'.left, ScanInv'
    PROVE  ConnInv'
  <1>1. RootsKnown /\ PadsKnown /\ AskInv /\ PortsTell(usb')
    BY DEF ConnInv, Tells
  <1>2. RootsKnown'
    BY <1>1, RootsKept DEF Tells
  <1>3. PadsKnown' /\ AskInv'
    BY <1>1, PadsKept DEF Tells
  <1> QED BY <1>1, <1>2, <1>3 DEF ConnInv

LEMMA SamePortsTells ==
    ASSUME NEW w, NEW v, SamePorts(w, v, {}), PortsTell(w) PROVE Tells(w, v)
  BY SamePortsTell DEF Tells

LEMMA UserConn == ASSUME UsbInv, ConnInv, PlugIn \/ Unplug PROVE ConnInv'
  <1>1. Enumerates /\ UNCHANGED <<focus, transfer, answer, known, given, rescan, scan>>
    BY DEF PlugIn, Unplug, guest
  <1>2. Quiet(usb, usb')
    BY QuietSteps
  <1>3. TreeShape(usb) /\ PortsTell(usb) /\ ScanInv
    BY <1>1 DEF UsbInv, ConnInv
  <1>4. Tells(usb, usb')
    <2>1. CASE PlugIn
      <3>1. PICK d \in Devices : CanPlug(usb, d) /\ usb' = Plug(usb, d)
        BY <2>1, UsbAssumption DEF PlugIn
      <3> DEFINE p == d[1]
      <3>2. p \in Roots /\ (d = <<p>> \/ d = Pad(p))
        BY DeviceNames DEF Pad
      <3> HIDE DEF p
      <3> QED BY <1>3, <3>1, <3>2, PlugTellsHub, PlugTellsPad
    <2>2. CASE Unplug
      <3>1. PICK p \in Roots : usb.dev[<<p>>].plugged /\ usb' = HandleDestroy(usb, p)
        BY <2>2 DEF Unplug
      <3> QED BY <1>3, <3>1, HandleDestroyTells
    <2> QED BY <2>1, <2>2
  <1> QED BY <1>1, <1>2, <1>3, <1>4, TellsConn DEF ScanInv

LEMMA ChangeStateConn == ASSUME UsbInv, ConnInv, ChangeState PROVE ConnInv'
  <1>1. Enumerates /\ UNCHANGED <<focus, answer>>
    BY DEF ChangeState
  <1>2. Quiet(usb, usb')
    BY QuietSteps
  <1>3. TreeShape(usb) /\ PortsTell(usb) /\ ScanInv
    BY <1>1 DEF UsbInv, ConnInv
  <1>4. PICK s \in {"operational", "suspend", "reset"} :
            /\ s # usb.hcfs
            /\ usb' = ChangeHcfs(IF s = "operational" THEN SetHubStatus(usb, {"LPSC", "DRWE"}) ELSE usb, s)
            /\ IF s = "reset"
               THEN known' = {} /\ scan' = NoScan /\ transfer' = NoTransfer
               ELSE UNCHANGED <<known, given, scan, rescan, transfer>>
    BY DEF ChangeState
  <1>5. CASE s # "reset"
    <2> DEFINE v == IF s = "operational" THEN SetHubStatus(usb, {"LPSC", "DRWE"}) ELSE usb
    <2>1. TreeShape(v) /\ SamePorts(usb, v, {})
      BY <1>3, SetHubStatusQuiet, SetHubStatusSame, SamePortsItself DEF Quiet
    <2>2. usb' = ChangeHcfs(v, s)
      BY <1>4
    <2> HIDE DEF v
    <2>3. SamePorts(usb, usb', {})
      BY <1>5, <2>1, <2>2, ChangeHcfsSame, SamePortsTransitive
    <2>4. Tells(usb, usb')
      BY <1>3, <2>3, SamePortsTells
    <2> QED BY <1>1, <1>2, <1>3, <1>4, <1>5, <2>4, TellsConn DEF ScanInv
  <1>6. CASE s = "reset"
    <2>1. usb' = ResetHost(usb)
      BY <1>4, <1>6 DEF ChangeHcfs
    <2>2. /\ PortsTell(usb')
          /\ \A p \in Roots : usb'.dev[<<p>>].attached => "RHSC" \in usb'.intr
          /\ \A d \in Devices : ~Listens(usb', d)
      BY <1>3, <2>1, ResetHostPorts
    <2>3. known' = {} /\ scan'.step = "none" /\ transfer'.stage = "none"
      BY <1>4, <1>6 DEF NoScan, NoTransfer
    <2>4. RootsKnown'
      <3> SUFFICES ASSUME NEW p \in Roots, ~("RHSC" \in usb'.intr)
                   PROVE  (<<p>> \in known') = usb'.dev[<<p>>].attached
        BY DEF RootsKnown
      <3>1. ~usb'.dev[<<p>>].attached /\ usb'.dev[<<p>>].attached \in BOOLEAN
        BY <2>2 DEF PortsTell, PortTells
      <3> QED BY <2>3, <3>1
    <2>5. PadsKnown'
      BY <2>2, HubNames DEF PadsKnown
    <2> QED BY <2>2, <2>3, <2>4, <2>5 DEF ConnInv, ScanInv, AskInv
  <1> QED BY <1>5, <1>6

LEMMA InterruptedConn == ASSUME UsbInv, ConnInv, Interrupted PROVE ConnInv'
  <1>1. /\ Enumerates /\ UNCHANGED <<focus, transfer, answer, known, given, rescan>>
        /\ usb' = [usb EXCEPT !.intr = {}] /\ scan' = [NoScan EXCEPT !.left = Roots]
    BY DEF Interrupted
  <1>2. Quiet(usb, usb')
    BY QuietSteps
  <1>3. usb'.dev = usb.dev /\ usb'.root = usb.root /\ usb'.hub = usb.hub
    BY <1>1 DEF UsbInv, TreeShape, TreeFields
  <1>4. scan'.left = Roots /\ scan'.step = "none"
    BY <1>1 DEF NoScan
  <1>5. PadsKnown /\ AskInv /\ PortsTell(usb)
    BY <1>1 DEF ConnInv
  <1>6. PortsTell(usb')
    BY <1>3, <1>5 DEF PortsTell, PortTells, Seen
  <1>7. \A p \in Roots : TellsPad(usb, usb', p)
    BY <1>3 DEF TellsPad, Announced
  <1>8. PadsKnown' /\ AskInv'
    BY <1>1, <1>2, <1>5, <1>7, PadsKept
  <1> QED BY <1>4, <1>6, <1>8 DEF ConnInv, RootsKnown, ScanInv

LEMMA LookConn == ASSUME UsbInv, ConnInv, Look PROVE ConnInv'
  <1>1. Enumerates /\ UNCHANGED <<usb, focus, transfer, answer, known, given, rescan>>
    BY DEF Look
  <1>2. PICK p \in scan.left : scan' = [scan EXCEPT !.at = p, !.step = "clear", !.seen = usb.root[p] \cap ChangeBits]
    BY DEF Look
  <1> DEFINE seen == usb.root[p] \cap ChangeBits
  <1> HIDE DEF seen
  <1>3. scan' = [scan EXCEPT !.at = p, !.step = "clear", !.seen = seen]
    BY <1>2 DEF seen
  <1>4. scan'.at = p /\ scan'.left = scan.left
    BY <1>3 DEF UsbInv, UsbTypes
  <1>5. ScanInv'
    BY <1>4 DEF ScanInv
  <1>6. Quiet(usb, usb') /\ Tells(usb, usb')
    BY <1>1, QuietItself, SamePortsItself, SamePortsTells DEF UsbInv, ConnInv
  <1> QED BY <1>1, <1>4, <1>5, <1>6, TellsConn

LEMMA ReadConn == ASSUME UsbInv, ConnInv, Read PROVE ConnInv'
  <1> DEFINE p == scan.at
             h == <<p>>
  <1>1. /\ Enumerates /\ UNCHANGED <<usb, focus, transfer, answer, given, rescan>>
        /\ scan.step = "read" /\ scan' = [NoScan EXCEPT !.left = scan.left \ {p}]
        /\ known' = IF "CCS" \in usb.root[p] THEN known \cup {h} ELSE known \ {h}
    BY DEF Read
  <1>2. scan'.left = scan.left \ {p} /\ scan'.step = "none"
    BY <1>1 DEF NoScan
  <1>3. p \in Roots
    BY <1>1 DEF UsbInv, UsbTypes
  <1>4. RootsKnown /\ PadsKnown /\ AskInv /\ PortsTell(usb)
    BY <1>1 DEF ConnInv
  <1>5. \A d : d # h => (d \in known' <=> d \in known)
    BY <1>1
  <1>6. (h \in known') = usb.dev[h].attached
    <2>1. usb.dev[h].attached = ("CCS" \in usb.root[p])
      BY <1>3, <1>4 DEF PortsTell, PortTells
    <2>2. (h \in known') = ("CCS" \in usb.root[p])
      BY <1>1
    <2> QED BY <2>1, <2>2
  <1> HIDE DEF h, p
  <1>7. RootsKnown'
    <2> SUFFICES ASSUME NEW q \in Roots
                 PROVE  \/ "RHSC" \in usb'.intr \/ q \in scan'.left
                        \/ (<<q>> \in known') = usb'.dev[<<q>>].attached
      BY DEF RootsKnown
    <2>1. CASE q = p
      BY <1>1, <1>6, <2>1 DEF h
    <2>2. CASE q # p
      <3>1. <<q>> # h
        BY <2>2 DEF h
      <3>2. (<<q>> \in known') = (<<q>> \in known)
        BY <1>5, <3>1
      <3> QED BY <1>1, <1>2, <1>4, <2>2, <3>2 DEF RootsKnown
    <2> QED BY <2>1, <2>2
  <1>8. PadsKnown' /\ AskInv'
    <2>1. Quiet(usb, usb') /\ Tells(usb, usb')
      BY <1>1, <1>4, QuietItself, SamePortsItself, SamePortsTells DEF UsbInv
    <2>2. \A q \in Roots : Pad(q) \in known' <=> Pad(q) \in known
      BY <1>5 DEF h, Pad
    <2> QED BY <1>1, <1>4, <2>1, <2>2, PadsKept DEF Tells
  <1> QED BY <1>1, <1>2, <1>4, <1>7, <1>8 DEF ConnInv, ScanInv

\* Acknowledgements, a suspend and a disable connect nothing.
LEMMA RegisterSame == ASSUME UsbInv, Clear \/ Suspend \/ Disable PROVE SamePorts(usb, usb', {})
  <1>1. TreeShape(usb)
    BY DEF UsbInv
  <1>2. PICK p \in Roots, value \in {{"PSS"}, {"CCS"}, scan.seen, scan.seen \cup {"CCS"}} :
            /\ usb' = PortSetStatus(usb, p, value) /\ {"PES", "PRS", "LSDA", "PPS"} \cap value = {}
    <2> DEFINE more == scan.seen \cup {"CCS"}
    <2>1. /\ {"PES", "PRS", "LSDA", "PPS"} \cap scan.seen = {} /\ {"PES", "PRS", "LSDA", "PPS"} \cap more = {}
          /\ {"PES", "PRS", "LSDA", "PPS"} \cap {"PSS"} = {} /\ {"PES", "PRS", "LSDA", "PPS"} \cap {"CCS"} = {}
      BY DEF UsbInv, UsbTypes, ChangeBits
    <2>2. CASE Clear
      <3>1. scan.at \in Roots /\ (usb' = PortSetStatus(usb, scan.at, more) \/ usb' = PortSetStatus(usb, scan.at, scan.seen))
        BY <2>2 DEF Clear, UsbInv, UsbTypes
      <3> QED BY <2>1, <3>1
    <2>3. CASE Suspend
      BY <2>1, <2>3 DEF Suspend
    <2>4. CASE Disable
      <3>1. Len(pending) = 1 /\ usb' = PortSetStatus(usb, pending[1], {"CCS"})
        BY <2>4 DEF Disable
      <3>2. pending \in Devices
        BY <3>1 DEF UsbInv, UsbTypes, NoDevice
      <3>3. pending[1] \in Roots
        BY <3>2, DeviceNames
      <3> QED BY <2>1, <3>1, <3>3
    <2> QED BY <2>2, <2>3, <2>4
  <1> QED BY <1>1, <1>2, PortSetStatusSame

LEMMA RegisterConn == ASSUME UsbInv, ConnInv, Suspend \/ Disable PROVE ConnInv'
  <1>1. Enumerates /\ UNCHANGED <<focus, transfer, answer, known, given, rescan, scan>>
    BY DEF Suspend, Disable, guest
  <1>2. Quiet(usb, usb') /\ SamePorts(usb, usb', {})
    BY QuietSteps, RegisterSame
  <1>3. PortsTell(usb) /\ ScanInv
    BY <1>1 DEF ConnInv
  <1> QED BY <1>1, <1>2, <1>3, SamePortsTells, TellsConn DEF ScanInv

\* A port whose connection changed is disabled: what the guest knew of the hub there no longer matters.
LEMMA ForgetConn ==
    ASSUME UsbInv, Enumerates, PadsKnown, AskInv, NEW p \in Roots, Quiet(usb, usb'), Tells(usb, usb'),
           "PES" \notin usb'.root[p], Forget(p), known' = {d \in known : d[1] # p},
           transfer' = IF OnPort(p) THEN NoTransfer ELSE transfer, answer' = answer
    PROVE  PadsKnown' /\ AskInv'
  <1>1. ASSUME NEW q \in Roots, Listens(usb', <<q>>)
        PROVE  (rescan' = <<q>> <=> rescan = <<q>>) /\ (Pad(q) \in known' <=> Pad(q) \in known)
    <2> DEFINE h == <<q>>
               g == <<p>>
               pad == Pad(q)
    <2>1. h[1] = q /\ pad[1] = q /\ h # NoDevice /\ g # NoDevice
      BY HubNames DEF Pad
    <2>2. q # p
      BY <1>1, <2>1 DEF Listens
    <2>3. h # g
      BY <2>2
    <2>4. rescan' = IF rescan = g THEN NoDevice ELSE rescan
      BY DEF Forget
    <2> HIDE DEF h, g, pad
    <2>5. (rescan' = h <=> rescan = h) /\ (pad \in known' <=> pad \in known)
      BY <2>1, <2>2, <2>3, <2>4
    <2> QED BY <2>5 DEF h, pad
  <1>2. ASSUME transfer'.stage = "open"
        PROVE  /\ transfer' = transfer
               /\ transfer.request.name # "SetAddress" =>
                     /\ given'[transfer.to] = given[transfer.to]
                     /\ rescan \in {NoDevice, given[transfer.to]} => rescan' = rescan
    <2>1. transfer' = transfer /\ ~OnPort(p)
      BY <1>2 DEF NoTransfer
    <2>2. ASSUME transfer.request.name # "SetAddress"
          PROVE  /\ given'[transfer.to] = given[transfer.to]
                 /\ rescan \in {NoDevice, given[transfer.to]} => rescan' = rescan
      <3> DEFINE h == given[transfer.to]
                 g == <<p>>
      <3>1. transfer.to \in Addresses /\ h # NoDevice
        BY <1>2, <2>1, <2>2, AskedHub
      <3>2. transfer.to # 0
        BY <3>1, UsbAssumption
      <3>3. h[1] # p /\ g[1] = p /\ g # NoDevice
        BY <2>1, <3>1, <3>2 DEF OnPort, NoDevice
      <3>4. given'[transfer.to] = IF h # NoDevice /\ h[1] = p THEN NoDevice ELSE h
        BY <3>1 DEF Forget, Withdrawn
      <3>5. rescan' = IF rescan = g THEN NoDevice ELSE rescan
        BY DEF Forget
      <3> HIDE DEF h, g
      <3>6. given'[transfer.to] = h /\ (rescan \in {NoDevice, h} => rescan' = rescan)
        BY <3>3, <3>4, <3>5
      <3> QED BY <3>6 DEF h
    <2> QED BY <2>1, <2>2
  <1> QED BY <1>1, <1>2, PadsKept DEF Tells

LEMMA ClearConn == ASSUME UsbInv, ConnInv, Clear PROVE ConnInv'
  <1> DEFINE p == scan.at
  <1>1. Enumerates /\ scan.step = "clear" /\ UNCHANGED <<focus, answer>> /\ scan' = [scan EXCEPT !.step = "read"]
    BY DEF Clear
  <1>2. TreeShape(usb) /\ PortsTell(usb) /\ RootsKnown /\ PadsKnown /\ AskInv /\ p \in scan.left /\ p \in Roots
    BY <1>1 DEF UsbInv, UsbTypes, ConnInv, ScanInv
  <1>3. scan'.at = p /\ scan'.left = scan.left
    BY <1>1 DEF UsbInv, UsbTypes
  <1>4. ScanInv'
    BY <1>2, <1>3 DEF ScanInv
  <1>5. Quiet(usb, usb') /\ Tells(usb, usb')
    BY <1>2, QuietSteps, RegisterSame, SamePortsTells
  <1>6. CASE "CSC" \in scan.seen
    <2> DEFINE value == scan.seen \cup {"CCS"}
    <2>1. {"PES", "PRS", "LSDA", "PPS"} \cap value = {}
      BY DEF UsbInv, UsbTypes, ChangeBits
    <2>2. /\ usb' = PortSetStatus(usb, p, value) /\ Forget(p) /\ known' = {d \in known : d[1] # p}
          /\ transfer' = IF OnPort(p) THEN NoTransfer ELSE transfer
      BY <1>6 DEF Clear
    <2>3. "CCS" \in value
      OBVIOUS
    <2> HIDE DEF value, p
    <2>4. "PES" \notin usb'.root[p]
      BY <1>2, <2>1, <2>2, <2>3, PortSetStatusQuiet
    <2>5. PadsKnown' /\ AskInv'
      BY <1>1, <1>2, <1>5, <2>2, <2>4, ForgetConn
    <2>6. RootsKnown'
      <3> SUFFICES ASSUME NEW q \in Roots
                   PROVE  \/ "RHSC" \in usb'.intr \/ q \in scan'.left
                          \/ (<<q>> \in known') = usb'.dev[<<q>>].attached
        BY DEF RootsKnown
      <3>1. CASE q = p
        BY <1>2, <1>3, <3>1 DEF p
      <3>2. CASE q # p
        <4> DEFINE h == <<q>>
        <4>1. h[1] = q
          OBVIOUS
        <4> HIDE DEF h
        <4>2. (h \in known') = (h \in known)
          BY <2>2, <3>2, <4>1
        <4> QED BY <1>2, <1>3, <1>5, <4>2 DEF RootsKnown, Tells, TellsRoot, h
      <3> QED BY <3>1, <3>2
    <2> QED BY <1>4, <1>5, <2>5, <2>6 DEF ConnInv, Tells
  <1>7. CASE "CSC" \notin scan.seen
    <2>1. UNCHANGED <<known, given, rescan, transfer>>
      BY <1>7 DEF Clear
    <2> QED BY <1>1, <1>2, <1>3, <1>4, <1>5, <2>1, TellsConn
  <1> QED BY <1>6, <1>7

LEMMA ResetPortConn == ASSUME UsbInv, ConnInv, ResetPort PROVE ConnInv'
  <1>1. /\ Enumerates /\ UNCHANGED <<focus, transfer, scan>> /\ transfer.stage # "open"
    BY DEF ResetPort, Calm
  <1>2. TreeShape(usb) /\ PortsTell(usb) /\ RootsKnown /\ PadsKnown /\ ScanInv
    BY <1>1 DEF UsbInv, ConnInv
  <1>3. PICK p \in Roots :
            /\ usb' = PortSetStatus(usb, p, {"PRS"}) /\ known' = known \ {<<p, GamepadPort>>}
            /\ rescan' = IF rescan = <<p>> THEN NoDevice ELSE rescan
    BY DEF ResetPort
  <1>4. /\ PortsTell(usb')
        /\ \A q \in Roots : TellsRoot(usb, usb', q) /\ (q # p => TellsPad(usb, usb', q))
        /\ Listens(usb', <<p>>) => Announced(usb', p) \/ usb'.dev[Pad(p)].attached = FALSE
    BY <1>2, <1>3, PortSetStatusTells
  <1>5. \A d \in Devices : Listens(usb', d) => \/ d[1] # p /\ AsBefore(usb, usb', d)
                                               \/ d = <<p>> /\ usb'.dev[d].addr = 0
    BY <1>2, <1>3, PortSetStatusResets
  <1>6. RootsKnown'
    <2>1. \A q \in Roots : <<q>> \in known' <=> <<q>> \in known
      BY <1>3
    <2> QED BY <1>1, <1>2, <1>4, <2>1, RootsKept
  <1>7. PadsKnown'
    <2> SUFFICES ASSUME NEW q \in Roots, Listens(usb', <<q>>), rescan' # <<q>>
                 PROVE  Fresh(usb', q, Pad(q) \in known')
      BY DEF PadsKnown
    <2>1. CASE q = p
      <3>1. (Pad(p) \in known') = FALSE
        BY <1>3 DEF Pad
      <3> QED BY <1>4, <2>1, <3>1 DEF Fresh
    <2>2. CASE q # p
      <3> DEFINE h == <<q>>
                 g == <<p>>
      <3>1. h # g /\ h \in Devices
        BY <2>2, HubNames
      <3>2. Pad(q) # <<p, GamepadPort>>
        BY <2>2 DEF Pad
      <3>3. rescan' = IF rescan = g THEN NoDevice ELSE rescan
        BY <1>3
      <3>4. Listens(usb', h) /\ rescan' # h
        OBVIOUS
      <3> HIDE DEF h, g
      <3>5. Listens(usb, h)
        BY <1>5, <3>1, <3>4 DEF AsBefore, g
      <3>6. rescan # h
        BY <3>1, <3>3, <3>4
      <3>7. Fresh(usb, q, Pad(q) \in known)
        BY <1>2, <3>5, <3>6 DEF PadsKnown, h
      <3>8. (Pad(q) \in known) = (Pad(q) \in known')
        BY <1>3, <3>2
      <3>9. Fresh(usb', q, Pad(q) \in known)
        BY <1>4, <2>2, <3>4, <3>7, FreshKept DEF h
      <3> QED BY <3>8, <3>9
    <2> QED BY <2>1, <2>2
  <1> QED BY <1>1, <1>2, <1>4, <1>6, <1>7 DEF ConnInv, ScanInv, AskInv

\* A hub with an address that listens hears what is sent there, and nobody else does.
LEMMA HubHears ==
    ASSUME UsbInv, Enumerates, NEW a \in Addresses, given[a] # NoDevice
    PROVE  /\ Listens(usb, given[a]) => usb.dev[given[a]].addr = a
           /\ \A d \in Devices : Listens(usb, d) /\ usb.dev[d].addr = a => d = given[a]
  <1> DEFINE h == given[a]
  <1>1. a # 0 /\ h \in Devices
    BY UsbAssumption DEF UsbInv, UsbTypes
  <1>2. ASSUME Listens(usb, h) PROVE usb.dev[h].addr = a
    <2>1. Placed(h)
      BY <1>1, <1>2 DEF UsbInv, PlacedInv
    <2>2. pending # h
      BY DEF UsbInv, AddressesInv
    <2>3. usb.dev[h].addr \in Addresses /\ given[usb.dev[h].addr] = h
      BY <2>1, <2>2 DEF Placed
    <2> QED BY <1>1, <2>3 DEF UsbInv, AddressesInv
  <1>3. ASSUME NEW d \in Devices, Listens(usb, d), usb.dev[d].addr = a PROVE d = h
    BY <1>1, <1>3 DEF UsbInv, PlacedInv, Placed
  <1> QED BY <1>2, <1>3

\* The guest acknowledges a port when it reads none, and reads the one it has acknowledged.
LEMMA NextReads ==
    ASSUME NEW n \in Next0
    PROVE  /\ n.request = Simple("ClearPortFeature", 16, GamepadPort) => rescan = NoDevice
           /\ n.request = PortStatus => n.to \in Addresses /\ given[n.to] \in Hubs /\ rescan = given[n.to]
  <1> DEFINE ack == Simple("ClearPortFeature", 16, GamepadPort)
             Reads(a) == CASE rescan = given[a] -> {PortStatus} [] rescan = NoDevice -> {ack} [] OTHER -> {}
             Others == {Simple("SetPortFeature", 4, GamepadPort), Simple("ClearPortFeature", 1, GamepadPort),
                        Simple("SetFeature", 1, 0)}
             Ofs(a) ==
               LET h == given[a]   pad == <<h[1], GamepadPort>>
               IN  (CASE rescan = h -> {PortStatus}
                      [] rescan = NoDevice -> {Simple("ClearPortFeature", 16, GamepadPort)}
                      [] OTHER -> {})
                   \cup (IF pad \in known /\ pending = NoDevice THEN {Simple("SetPortFeature", 4, GamepadPort)} ELSE {})
                   \cup (IF pending = pad /\ "disable" \in focus.acts THEN {Simple("ClearPortFeature", 1, GamepadPort)} ELSE {})
                   \cup (IF "stop" \in focus.acts THEN {Simple("SetFeature", 1, 0)} ELSE {})
  <1>1. \/ \E a \in Addresses : n = [to |-> 0, request |-> Simple("SetAddress", a, 0)]
        \/ \E a \in Addresses : /\ given[a] \in Hubs
                                /\ \E r \in Reads(a) \cup Others : n = [to |-> a, request |-> r]
    <2>1. \/ \E a \in Addresses : n = [to |-> 0, request |-> Simple("SetAddress", a, 0)]
          \/ \E a \in Addresses : /\ given[a] \in Hubs
                                  /\ \E r \in Ofs(a) : n = [to |-> a, request |-> r]
      BY DEF Next0
    <2>2. ASSUME NEW a \in Addresses, NEW r \in Ofs(a) PROVE r \in Reads(a) \cup Others
      BY <2>2
    <2> QED BY <2>1, <2>2
  <1>2. ASSUME NEW a PROVE Simple("SetAddress", a, 0) \notin {ack, PortStatus}
    BY DEF Simple, PortStatus
  <1>3. ack \notin Others /\ PortStatus \notin Others /\ ack # PortStatus
    BY DEF Simple, PortStatus
  <1>4. ASSUME NEW a \in Addresses, given[a] \in Hubs
        PROVE  (ack \in Reads(a) => rescan = NoDevice) /\ (PortStatus \in Reads(a) => rescan = given[a])
    <2>1. given[a] # NoDevice
      BY <1>4, DeviceNames DEF Devices
    <2> HIDE DEF ack
    <2> QED BY <1>3, <2>1
  <1> HIDE DEF ack, Reads, Others
  <1>5. ASSUME NEW a \in Addresses, n = [to |-> 0, request |-> Simple("SetAddress", a, 0)]
        PROVE  n.request # ack /\ n.request # PortStatus
    <2>1. n.request = Simple("SetAddress", a, 0)
      BY <1>5
    <2> QED BY <1>2, <2>1
  <1>6. ASSUME NEW a \in Addresses, given[a] \in Hubs, NEW r \in Reads(a) \cup Others,
               n = [to |-> a, request |-> r]
        PROVE  /\ n.request = ack => rescan = NoDevice
               /\ n.request = PortStatus => n.to \in Addresses /\ given[n.to] \in Hubs /\ rescan = given[n.to]
    <2>1. n.to = a /\ n.request = r
      BY <1>6
    <2> QED BY <1>3, <1>4, <1>6, <2>1
  <1> QED BY <1>1, <1>5, <1>6 DEF ack

LEMMA PadsKnownKept ==
    ASSUME PadsKnown,
           \A p \in Roots : Listens(usb', <<p>>) /\ rescan' # <<p>> =>
               /\ Listens(usb, <<p>>) /\ rescan # <<p>> /\ TellsPad(usb, usb', p)
               /\ Pad(p) \in known' <=> Pad(p) \in known
    PROVE  PadsKnown'
  <1> SUFFICES ASSUME NEW p \in Roots, Listens(usb', <<p>>), rescan' # <<p>>
               PROVE  Fresh(usb', p, Pad(p) \in known')
    BY DEF PadsKnown
  <1>1. Fresh(usb, p, Pad(p) \in known)
    BY DEF PadsKnown
  <1>2. Fresh(usb', p, Pad(p) \in known)
    BY <1>1, FreshKept
  <1>3. (Pad(p) \in known) = (Pad(p) \in known')
    OBVIOUS
  <1> QED BY <1>2, <1>3

\* A packet that edits the device that takes it says nothing new of any port.
LEMMA EditedConn ==
    ASSUME UsbInv, Enumerates, ConnInv, usb' = usb \/ \E d \in Devices : Edited(usb, usb', d)
    PROVE  /\ SamePorts(usb, usb', {}) /\ Tells(usb, usb')
           /\ \A d \in Devices : Listens(usb', d) => Listens(usb, d)
  <1>1. TreeShape(usb) /\ PortsTell(usb)
    BY DEF UsbInv, ConnInv
  <1>2. SamePorts(usb, usb', {})
    BY EditedSame, SamePortsItself
  <1>3. \A d \in Devices : Listens(usb', d) => Listens(usb, d)
    BY <1>1, EditedListens
  <1> QED BY <1>1, <1>2, <1>3, SamePortsTells

LEMMA BeginConn == ASSUME UsbInv, ConnInv, Begin PROVE ConnInv'
  <1>1. PICK n \in Next0 : SendSetup(n.to, n.request, 8)
    BY DEF Begin
  <1>2. Enumerates /\ UNCHANGED <<focus, given, known, rescan, scan>>
    BY DEF Begin
  <1>3. TreeShape(usb) /\ PortsTell(usb) /\ ScanInv /\ RootsKnown /\ PadsKnown
    BY <1>2 DEF UsbInv, ConnInv
  <1> DEFINE packet == Packet("setup", n.to, n.request, 8)
             r == HandlePacket(usb, packet)
  <1>4. packet.pid = "setup" /\ packet.to = n.to /\ packet.ep = 0 /\ packet.request = n.request /\ packet.size = 8
    BY PacketFields
  <1>5. /\ usb' = r.tree /\ transfer'.got = 0 /\ transfer'.to = n.to
        /\ transfer'.stage = "open" => r.status = "ok" /\ transfer'.request = n.request
    BY <1>1, SetupFields
  <1> HIDE DEF packet
  <1>6. \/ r.tree = usb /\ r.status = "nodev"
        \/ \E d \in Devices : /\ Listens(usb, d) /\ usb.dev[d].addr = n.to
                              /\ r = DoTokenSetup(usb, d, n.request, 8)
    BY <1>4, PacketReceiver
  <1> HIDE DEF r
  <1>7. usb' = usb \/ \E d \in Devices : Edited(usb, usb', d)
    BY <1>3, <1>5, <1>6, SetupEdits
  <1>8. /\ SamePorts(usb, usb', {}) /\ Tells(usb, usb')
        /\ \A d \in Devices : Listens(usb', d) => Listens(usb, d)
    BY <1>2, <1>7, EditedConn
  <1>9. RootsKnown'
    BY <1>2, <1>3, <1>8, RootsKept DEF Tells
  <1>10. PadsKnown'
    BY <1>2, <1>3, <1>8, HubNames, PadsKnownKept DEF Tells
  <1>11. AskInv'
    <2> SUFFICES ASSUME transfer'.stage = "open" PROVE AskInv'
      BY DEF AskInv
    <2>1. /\ transfer'.request = Simple("ClearPortFeature", 16, GamepadPort) => rescan' = NoDevice
          /\ transfer'.request = PortStatus => n.to \in Addresses /\ given[n.to] \in Hubs /\ rescan = given[n.to]
      BY <1>2, <1>5, NextReads
    <2>2. ASSUME transfer'.request = PortStatus PROVE Reading(given[transfer.to])'
      <3> DEFINE h == given[n.to]
                 p == h[1]
      <3>1. n.to \in Addresses /\ h \in Devices /\ h # NoDevice /\ IsHub(h) /\ p \in Roots /\ h = <<p>> /\ rescan = h
        BY <2>1, <2>2, DeviceNames DEF Devices
      <3>2. n.request = PortStatus /\ r.status = "ok"
        BY <1>5, <2>2
      <3> HIDE DEF p
      <3>3. ASSUME Listens(usb', h) PROVE Fresh(usb', p, usb'.dev[h].data.connected)
        <4>1. Listens(usb, h) /\ usb.dev[h].addr = n.to
          BY <1>2, <1>8, <3>1, <3>3, HubHears
        <4>2. r = DoTokenSetup(usb, h, PortStatus, 8)
          BY <1>2, <1>6, <3>1, <3>2, HubHears
        <4>3. usb'.dev[h].data.connected = Seen(usb, p)
          BY <1>3, <1>5, <3>1, <3>2, <4>2, SetupAnswers DEF p
        <4>4. usb.dev[Pad(p)].attached = Seen(usb, p)
          BY <1>3, <3>1, <4>1 DEF PortsTell, PortTells, Listens
        <4>5. usb'.dev[Pad(p)].attached = usb.dev[Pad(p)].attached
          BY <1>8, <3>1, HubNames DEF SamePorts, SameDevices, Pad
        <4> QED BY <4>3, <4>4, <4>5 DEF Fresh
      <3>4. h' = h /\ given'[transfer'.to] = h /\ rescan' = h
        BY <1>2, <1>5, <3>1
      <3>5. ~(transfer'.got > 0)
        BY <1>5
      <3> HIDE DEF h
      <3>6. /\ rescan' = h
            /\ Listens(usb', h) =>
                  /\ Fresh(usb', h[1], usb'.dev[h].data.connected)
                  /\ transfer'.got > 0 => usb'.dev[h].setup = "ack" /\ Fresh(usb', h[1], answer'.data.connected)
        BY <3>3, <3>4, <3>5 DEF p
      <3> QED BY <3>4, <3>6 DEF Reading
    <2> QED BY <2>1, <2>2 DEF AskInv
  <1> QED BY <1>2, <1>3, <1>8, <1>9, <1>10, <1>11 DEF ConnInv, ScanInv, Tells

LEMMA DataConn == ASSUME UsbInv, EndpointInv, ConnInv, Data PROVE ConnInv'
  <1> DEFINE packet == Packet("in", transfer.to, NoRequest, 8)
             r == HandlePacket(usb, packet)
             h == given[transfer.to]
             p == h[1]
  <1>1. /\ Enumerates /\ transfer.stage = "open" /\ IsRead(transfer.request) /\ transfer.got = 0 /\ SendIn(8)
        /\ UNCHANGED <<focus, given, known, rescan, scan>>
    BY DEF Data
  <1>2. TreeShape(usb) /\ PortsTell(usb) /\ ScanInv /\ RootsKnown /\ PadsKnown /\ AskInv /\ Transfers(transfer)
    BY <1>1 DEF UsbInv, UsbTypes, ConnInv
  <1>3. packet.pid = "in" /\ packet.to = transfer.to /\ packet.ep = 0 /\ packet.size = 8
    BY PacketFields
  <1>4. /\ usb' = r.tree /\ answer' = Answer(r) /\ transfer'.to = transfer.to
        /\ transfer'.stage = Stage(r, ~IsRead(transfer.request))
        /\ transfer'.stage = "open" => /\ transfer'.request = transfer.request
                                       /\ transfer'.got = transfer.got + r.count
    BY <1>1, <1>2, InFields
  <1> HIDE DEF packet
  <1>5. \/ r.tree = usb /\ r.status = "nodev"
        \/ \E d \in Devices : /\ Listens(usb, d) /\ usb.dev[d].addr = transfer.to
                              /\ r = DoTokenIn(usb, d, 8)
    BY <1>3, PacketReceiver
  <1> HIDE DEF r
  <1>6. usb' = usb \/ \E d \in Devices : Edited(usb, usb', d)
    <2>1. ASSUME NEW d \in Devices, Listens(usb, d), usb.dev[d].addr = transfer.to, r = DoTokenIn(usb, d, 8)
          PROVE  Edited(usb, usb', d)
      <3>1. usb.dev[d].request = transfer.request
        BY <1>1, <2>1 DEF UsbInv, TransferInv
      <3> QED BY <1>1, <1>2, <1>4, <2>1, <3>1, InEffect
    <2> QED BY <1>4, <1>5, <2>1
  <1>7. /\ SamePorts(usb, usb', {}) /\ Tells(usb, usb')
        /\ \A d \in Devices : Listens(usb', d) => Listens(usb, d)
    BY <1>1, <1>6, EditedConn
  <1>8. RootsKnown'
    BY <1>1, <1>2, <1>7, RootsKept DEF Tells
  <1>9. PadsKnown'
    BY <1>1, <1>2, <1>7, HubNames, PadsKnownKept DEF Tells
  <1>10. AskInv'
    <2> SUFFICES ASSUME transfer'.stage = "open" PROVE AskInv'
      BY DEF AskInv
    <2>1. /\ transfer'.request = transfer.request /\ transfer'.got = r.count
          /\ r.status # "nodev"
      <3>1. r.count = 0 + r.count \/ r.status = "nodev"
        <4>1. ASSUME NEW d \in Devices, Listens(usb, d), usb.dev[d].addr = transfer.to, r = DoTokenIn(usb, d, 8)
              PROVE  r.count \in Nat
          <5>1. Serves(usb, d, transfer.request, 0)
            BY <1>1, <4>1 DEF EndpointInv, Hears, Moved
          <5>2. 8 \in Nat
            OBVIOUS
          <5> QED BY <1>1, <1>2, <4>1, <5>1, <5>2, InServes
        <4>2. r.status = "nodev" \/ r.count \in Nat
          BY <1>5, <4>1
        <4> QED BY <4>2
      <3>2. r.status # "nodev"
        BY <1>4 DEF Stage
      <3> QED BY <1>1, <1>4, <3>1, <3>2
    <2>2. ~(transfer'.request = Simple("ClearPortFeature", 16, GamepadPort))
      BY <1>1, <2>1, RequestNames
    <2>3. ASSUME transfer'.request = PortStatus PROVE Reading(given[transfer.to])'
      <3>1. /\ transfer.to \in Addresses /\ h \in Devices /\ h # NoDevice /\ IsHub(h) /\ p \in Roots
            /\ transfer.request = PortStatus
        BY <1>1, <2>1, <2>3, AskedHub, RequestNames
      <3>2. Reading(h)
        BY <1>1, <1>2, <3>1 DEF AskInv
      <3> HIDE DEF p
      <3>3. ASSUME Listens(usb', h)
            PROVE  /\ Fresh(usb', p, usb'.dev[h].data.connected)
                   /\ r.count > 0 => usb'.dev[h].setup = "ack" /\ Fresh(usb', p, answer'.data.connected)
        <4>1. Listens(usb, h) /\ usb.dev[h].addr = transfer.to
          BY <1>1, <1>7, <3>1, <3>3, HubHears
        <4>2. r = DoTokenIn(usb, h, 8)
          BY <1>1, <1>5, <2>1, <3>1, HubHears
        <4>3. Serves(usb, h, PortStatus, 0)
          BY <1>1, <3>1, <4>1 DEF EndpointInv, Hears, Moved
        <4>4. /\ usb'.dev[h].data = usb.dev[h].data
              /\ r.count > 0 => r.data = usb.dev[h].data /\ usb'.dev[h].setup = "ack"
          BY <1>2, <1>4, <3>1, <4>2, <4>3, AnswerGoesOver
        <4>5. Fresh(usb, p, usb.dev[h].data.connected)
          BY <3>2, <4>1 DEF Reading, p
        <4>6. TellsPad(usb, usb', p) /\ Listens(usb', <<p>>)
          <5>1. h = <<p>>
            BY <3>1, DeviceNames DEF p
          <5> QED BY <1>7, <3>1, <3>3, <5>1 DEF Tells
        <4>7. Fresh(usb', p, usb'.dev[h].data.connected)
          BY <3>1, <4>4, <4>5, <4>6, FreshKept
        <4>8. r.count > 0 => answer'.data = r.data
          BY <1>4 DEF Answer
        <4>9. r.count > 0 => answer'.data.connected = usb'.dev[h].data.connected
          BY <4>4, <4>8
        <4> QED BY <4>4, <4>7, <4>9
      <3>4. h' = h /\ given'[transfer'.to] = h /\ rescan' = h
        BY <1>1, <1>4, <3>2 DEF Reading
      <3> HIDE DEF h
      <3>5. /\ rescan' = h
            /\ Listens(usb', h) =>
                  /\ Fresh(usb', h[1], usb'.dev[h].data.connected)
                  /\ transfer'.got > 0 => usb'.dev[h].setup = "ack" /\ Fresh(usb', h[1], answer'.data.connected)
        BY <2>1, <3>3, <3>4 DEF p
      <3> QED BY <3>4, <3>5 DEF Reading
    <2> QED BY <2>2, <2>3 DEF AskInv
  <1> QED BY <1>1, <1>2, <1>7, <1>8, <1>9, <1>10 DEF ConnInv, ScanInv, Tells

LEMMA StatusOutConn == ASSUME UsbInv, EndpointInv, ConnInv, StatusOut PROVE ConnInv'
  <1> DEFINE packet == Packet("out", transfer.to, NoRequest, 0)
             r == HandlePacket(usb, packet)
             h == given[transfer.to]
             p == h[1]
  <1>1. /\ Enumerates /\ transfer.stage = "open" /\ IsRead(transfer.request) /\ transfer.got > 0 /\ SendOut(0)
        /\ UNCHANGED <<focus, given, scan>> /\ rescan' = NoDevice
    BY DEF StatusOut
  <1>2. known' = IF transfer'.stage # "over" THEN known
                 ELSE IF answer.data.connected THEN known \cup {<<p, GamepadPort>>}
                 ELSE known \ {<<p, GamepadPort>>}
    BY DEF StatusOut
  <1>3. TreeShape(usb) /\ PortsTell(usb) /\ ScanInv /\ RootsKnown /\ PadsKnown /\ AskInv /\ Transfers(transfer)
    BY <1>1 DEF UsbInv, UsbTypes, ConnInv
  <1>4. packet.pid = "out" /\ packet.to = transfer.to /\ packet.ep = 0 /\ packet.size = 0
    BY PacketFields
  <1>5. /\ usb' = r.tree /\ transfer'.stage = Stage(r, TRUE)
    BY <1>1, <1>3, OutFields
  <1> HIDE DEF packet
  <1>6. \/ r.tree = usb /\ r.status = "nodev" /\ \A d \in Devices : ~(Listens(usb, d) /\ usb.dev[d].addr = transfer.to)
        \/ \E d \in Devices : /\ Listens(usb, d) /\ usb.dev[d].addr = transfer.to
                              /\ r = DoTokenOut(usb, d, 0)
    BY <1>4, PacketReceiver
  <1> HIDE DEF r
  <1>7. transfer'.stage = IF r.status = "ok" THEN "over" ELSE "stalled"
    BY <1>5 DEF Stage
  \* Only GetPortStatus is read.
  <1>8. /\ transfer.request = PortStatus /\ transfer.to \in Addresses /\ h \in Devices /\ h # NoDevice /\ p \in Roots
        /\ h = <<p>>
    <2>1. transfer.request.name # "SetAddress"
      BY <1>1 DEF IsRead, ReadRequests
    <2>2. AskedOfHub(transfer) /\ transfer.to \in Addresses /\ h \in Devices /\ h # NoDevice /\ p \in Roots /\ h = <<p>>
      BY <1>1, <2>1, AskedHub
    <2>3. transfer.request = PortStatus
      BY <1>1, <2>2 DEF AskedOfHub, Simple, IsRead, ReadRequests
    <2> QED BY <2>2, <2>3
  <1>9. Reading(h)
    BY <1>1, <1>3, <1>8 DEF AskInv
  <1> HIDE DEF p
  <1>10. usb' = usb \/ \E d \in Devices : Edited(usb, usb', d)
    BY <1>3, <1>5, <1>6, OutEdits
  <1>11. /\ SamePorts(usb, usb', {}) /\ Tells(usb, usb')
         /\ \A d \in Devices : Listens(usb', d) => Listens(usb, d)
    BY <1>1, <1>10, EditedConn
  <1>12. \A q \in Roots : q # p => (Pad(q) \in known' <=> Pad(q) \in known)
    BY <1>2 DEF Pad
  <1>13. RootsKnown'
    <2>1. \A q \in Roots : <<q>> \in known' <=> <<q>> \in known
      BY <1>2
    <2> QED BY <1>1, <1>3, <1>11, <2>1, RootsKept DEF Tells
  <1>14. PadsKnown'
    <2> SUFFICES ASSUME NEW q \in Roots, Listens(usb', <<q>>) PROVE Fresh(usb', q, Pad(q) \in known')
      BY DEF PadsKnown
    <2>1. Listens(usb, <<q>>) /\ TellsPad(usb, usb', q)
      BY <1>11, HubNames DEF Tells
    <2>2. CASE q # p
      <3>1. rescan # <<q>>
        BY <1>8, <1>9, <2>2 DEF Reading
      <3>2. Fresh(usb, q, Pad(q) \in known)
        BY <1>3, <2>1, <3>1 DEF PadsKnown
      <3>3. (Pad(q) \in known) = (Pad(q) \in known')
        BY <1>12, <2>2
      <3>4. Fresh(usb', q, Pad(q) \in known)
        BY <2>1, <3>2, FreshKept
      <3> QED BY <3>3, <3>4
    <2>3. CASE q = p
      <3>1. Listens(usb, h) /\ usb.dev[h].addr = transfer.to
        BY <1>1, <1>8, <2>1, <2>3, HubHears
      <3>2. r = DoTokenOut(usb, h, 0)
        BY <1>1, <1>6, <1>8, <3>1, HubHears
      <3>3. usb.dev[h].setup = "ack" /\ Fresh(usb, p, answer.data.connected)
        BY <1>1, <1>9, <3>1 DEF Reading, p
      <3>4. usb.dev[h].request = PortStatus
        BY <1>1, <1>8, <3>1 DEF UsbInv, TransferInv
      <3>5. r.status = "ok"
        BY <3>2, <3>3, <3>4, RequestNames, DoneFields DEF DoTokenOut
      <3>6. Fresh(usb', p, answer.data.connected)
        BY <2>1, <2>3, <3>3, FreshKept
      <3>7. known' = IF answer.data.connected THEN known \cup {Pad(p)} ELSE known \ {Pad(p)}
        BY <1>2, <1>7, <3>5 DEF Pad
      <3>8. usb'.dev[Pad(p)].attached \in BOOLEAN
        BY <1>8, <1>11 DEF Tells, PortsTell, PortTells
      <3>9. CASE answer.data.connected \in BOOLEAN
        <4>1. (Pad(p) \in known') = answer.data.connected
          BY <3>7, <3>9
        <4> QED BY <2>3, <3>6, <4>1
      <3>10. CASE ~(answer.data.connected \in BOOLEAN)
        <4>1. Announced(usb', p)
          BY <3>6, <3>8, <3>10 DEF Fresh
        <4> QED BY <2>3, <4>1 DEF Fresh
      <3> QED BY <3>9, <3>10
    <2> QED BY <2>2, <2>3
  <1>15. AskInv'
    BY <1>7 DEF AskInv
  <1> QED BY <1>1, <1>3, <1>11, <1>13, <1>14, <1>15 DEF ConnInv, ScanInv, Tells

LEMMA StatusInConn == ASSUME UsbInv, ConnInv, StatusIn PROVE ConnInv'
  <1> DEFINE packet == Packet("in", transfer.to, NoRequest, 0)
             r == HandlePacket(usb, packet)
             q == transfer.request
             h == given[transfer.to]
             but == IF Acknowledges(q) THEN {h[1]} ELSE {}
  <1>1. Enumerates /\ transfer.stage = "open" /\ ~IsRead(q) /\ SendIn(0) /\ UNCHANGED <<focus, known, scan>>
    BY DEF StatusIn
  <1>2. TreeShape(usb) /\ PortsTell(usb) /\ ScanInv /\ RootsKnown /\ PadsKnown /\ AskInv /\ Transfers(transfer)
    BY <1>1 DEF UsbInv, UsbTypes, ConnInv
  <1>3. packet.pid = "in" /\ packet.to = transfer.to /\ packet.ep = 0 /\ packet.size = 0
    BY PacketFields
  <1>4. usb' = r.tree /\ transfer'.stage = Stage(r, TRUE)
    BY <1>1, <1>2, InFields
  <1> HIDE DEF packet
  <1>5. \/ r.tree = usb /\ r.status = "nodev"
        \/ \E d \in Devices : /\ Listens(usb, d) /\ usb.dev[d].addr = transfer.to
                              /\ r = DoTokenIn(usb, d, 0)
    BY <1>3, PacketReceiver
  <1> HIDE DEF r
  <1>6. transfer'.stage = IF r.status = "ok" THEN "over" ELSE "stalled"
    BY <1>4 DEF Stage
  <1>7. /\ Acknowledges(q) => rescan' = IF r.status = "ok" THEN h ELSE NoDevice
        /\ ~Acknowledges(q) => rescan' = rescan
    <2>1. transfer'.stage = "over" <=> r.status = "ok"
      BY <1>6
    <2> HIDE DEF r
    <2> QED BY <2>1 DEF StatusIn, Acknowledges
  \* The guest acknowledges nothing while it reads a port, and the hub obeys.
  <1>8. ASSUME Acknowledges(q)
        PROVE  /\ h \in Devices /\ h # NoDevice /\ IsHub(h) /\ h[1] \in Roots /\ h = <<h[1]>>
               /\ transfer.to \in Addresses /\ q.index = GamepadPort /\ rescan = NoDevice
    <2>1. q.name # "SetAddress" /\ q.name = "ClearPortFeature" /\ q.value = 16
      BY <1>8 DEF Acknowledges
    <2>2. /\ AskedOfHub(transfer)
          /\ h \in Devices /\ h # NoDevice /\ IsHub(h) /\ h[1] \in Roots /\ h = <<h[1]>> /\ transfer.to \in Addresses
      BY <1>1, <2>1, AskedHub
    <2>3. q = Simple("ClearPortFeature", 16, GamepadPort)
      BY <2>1, <2>2 DEF AskedOfHub, Simple, PortStatus
    <2> QED BY <1>1, <1>2, <2>2, <2>3, RequestNames DEF AskInv
  <1>9. /\ SamePorts(usb, usb', but)
        /\ \A p \in Roots : Listens(usb', <<p>>) => Listens(usb, <<p>>)
        /\ usb' = usb \/ (Acknowledges(q) => r.status = "ok")
    <2>1. CASE r.tree = usb
      BY <1>4, <2>1, SamePortsItself
    <2>2. ASSUME NEW d \in Devices, Listens(usb, d), usb.dev[d].addr = transfer.to, r = DoTokenIn(usb, d, 0)
          PROVE  /\ SamePorts(usb, usb', but)
                 /\ \A p \in Roots : Listens(usb', <<p>>) => Listens(usb, <<p>>)
                 /\ Acknowledges(q) => r.status = "ok"
      <3>1. usb.dev[d].request = q /\ usb.dev[d].setup = "ack"
        BY <1>1, <2>2 DEF UsbInv, TransferInv
      <3>2. Obeyed(usb, r, d, q)
        BY <1>1, <1>2, <2>2, <3>1, InEffect
      <3>3. /\ SamePorts(usb, r.tree, IF Acknowledges(q) THEN {d[1]} ELSE {})
            /\ Acknowledges(q) /\ q.index = GamepadPort /\ IsHub(d) => r.status = "ok"
        <4>1. LET x == DoTokenIn(usb, d, 0)   k == usb.dev[d].request
              IN  /\ SamePorts(usb, x.tree, IF Acknowledges(k) THEN {d[1]} ELSE {})
                  /\ usb.dev[d].setup = "ack" /\ ~IsRead(k) /\ Acknowledges(k) /\ k.index = GamepadPort /\ IsHub(d)
                     => x.status = "ok"
          BY <1>2, InSame
        <4> HIDE DEF q
        <4> QED BY <1>1, <2>2, <3>1, <4>1
      <3>4. Acknowledges(q) => d = h
        BY <1>1, <1>8, <2>2, HubHears
      <3>5. SamePorts(usb, usb', but) /\ (Acknowledges(q) => r.status = "ok")
        BY <1>4, <1>8, <3>3, <3>4
      <3>6. ASSUME NEW p \in Roots, Listens(r.tree, <<p>>) PROVE Listens(usb, <<p>>)
        <4> DEFINE g == <<p>>
                   pad == <<d[1], GamepadPort>>
        <4>1. g \in Devices /\ g # pad
          BY HubNames
        <4>2. Listens(r.tree, g)
          BY <3>6
        <4> HIDE DEF g, pad
        <4>3. Listens(usb, g)
          BY <3>2, <4>1, <4>2 DEF Obeyed, Stays, pad
        <4> QED BY <4>3 DEF g
      <3> QED BY <1>4, <3>5, <3>6
    <2> QED BY <1>5, <2>1, <2>2
  <1>10. /\ PortsTell(usb')
         /\ \A p \in Roots : TellsRoot(usb, usb', p) /\ (p \notin but => TellsPad(usb, usb', p))
    BY <1>2, <1>9, SamePortsTell
  <1>11. RootsKnown'
    BY <1>1, <1>2, <1>10, RootsKept
  <1>12. PadsKnown'
    <2>1. CASE ~Acknowledges(q)
      <3>1. but = {} /\ rescan' = rescan
        BY <1>7, <2>1
      <3> HIDE DEF but
      <3> QED BY <1>1, <1>2, <1>9, <1>10, <3>1, PadsKnownKept
    <2>2. CASE Acknowledges(q)
      <3>1. /\ rescan = NoDevice /\ but = {h[1]} /\ h = <<h[1]>>
            /\ \A p \in Roots : <<p>> # NoDevice
        BY <1>8, <2>2, HubNames
      <3>2. CASE usb' = usb
        <4>1. SamePorts(usb, usb', {})
          BY <3>2, SamePortsItself
        <4>2. Tells(usb, usb')
          BY <1>2, <4>1, SamePortsTells
        <4> QED BY <1>1, <1>2, <1>9, <3>1, <4>2, PadsKnownKept DEF Tells
      <3>3. CASE r.status = "ok"
        <4>1. rescan' = h
          BY <1>7, <2>2, <3>3
        <4> DEFINE k == h[1]
        <4>2. but = {k} /\ rescan' = <<k>>
          BY <3>1, <4>1
        <4> HIDE DEF but, k, h
        <4>3. \A p \in Roots : rescan' # <<p>> => p # k
          BY <4>2
        <4> QED BY <1>1, <1>2, <1>9, <1>10, <3>1, <4>2, <4>3, PadsKnownKept
      <3> QED BY <1>9, <2>2, <3>2, <3>3
    <2> QED BY <2>1, <2>2
  <1>13. AskInv'
    BY <1>6 DEF AskInv
  <1> QED BY <1>1, <1>2, <1>10, <1>11, <1>12, <1>13 DEF ConnInv, ScanInv

LEMMA ConnInit == UsbInit => ConnInv
  <1> SUFFICES ASSUME UsbInit, Enumerates PROVE PortsTell(usb) /\ ScanInv /\ RootsKnown /\ PadsKnown /\ AskInv
    BY DEF ConnInv
  <1>1. usb = EmptyTree /\ known = {} /\ scan.step = "none" /\ transfer.stage = "none"
    BY DEF UsbInit, NoScan, NoTransfer
  <1>2. NewDevice.attached = FALSE /\ NewDevice.plugged = FALSE
    BY DEF NewDevice
  <1>3. \A p \in Roots : <<p>> \in Devices /\ Pad(p) \in Devices
    BY HubNames DEF Pad
  <1>4. \A p \in Roots : usb.root[p] = {} /\ usb.dev[<<p>>] = NewDevice /\ usb.dev[Pad(p)] = NewDevice
    <2> HIDE DEF EmptyTree
    <2>1. /\ EmptyTree.dev = [d \in Devices |-> NewDevice] /\ EmptyTree.root = [p \in Roots |-> {}]
      BY DEF EmptyTree
    <2> QED BY <1>1, <1>3, <2>1
  <1>5. PortsTell(usb)
    <2> SUFFICES ASSUME NEW p \in Roots PROVE PortTells(usb, p)
      BY DEF PortsTell
    <2> DEFINE h == <<p>>
    <2> HIDE DEF h
    <2>1. /\ usb.dev[h].attached = FALSE /\ usb.dev[h].plugged = FALSE
          /\ usb.dev[Pad(p)].attached = FALSE /\ usb.dev[Pad(p)].plugged = FALSE
      BY <1>2, <1>4 DEF h
    <2>2. ("CCS" \in usb.root[p]) = FALSE
      <3> DEFINE bits == usb.root[p]
      <3>1. bits = {}
        BY <1>4
      <3> HIDE DEF bits
      <3>2. ("CCS" \in bits) = FALSE
        BY <3>1
      <3> QED BY <3>2 DEF bits
    <2> QED BY <2>1, <2>2 DEF PortTells, h
  <1>6. \A p \in Roots : ~usb.dev[<<p>>].attached /\ usb.dev[<<p>>].attached = FALSE
    BY <1>2, <1>4
  <1>7. RootsKnown
    <2>1. \A d : (d \in known) = FALSE
      BY <1>1
    <2> QED BY <1>6, <2>1 DEF RootsKnown
  <1>8. PadsKnown
    <2> SUFFICES ASSUME NEW p \in Roots, Listens(usb, <<p>>) PROVE FALSE
      BY DEF PadsKnown
    <2> QED BY <1>4, HubNames DEF Listens
  <1> QED BY <1>1, <1>5, <1>7, <1>8 DEF ScanInv, AskInv

LEMMA ConnStep == ASSUME UsbInv, EndpointInv, ConnInv, [UsbNext]_usbVars PROVE ConnInv'
  <1>1. CASE UNCHANGED usbVars
    <2>1. UNCHANGED <<usb, focus, transfer, answer, known, given, scan, rescan>>
      BY <1>1 DEF usbVars, guest
    <2> QED BY <2>1 DEF ConnInv, ScanInv, RootsKnown, PadsKnown, AskInv, Reading, Enumerates
  <1>2. CASE Setup \/ InToken \/ OutToken \/ Poll
    BY <1>2 DEF Setup, InToken, OutToken, Poll, ConnInv, Enumerates
  <1> QED BY <1>1, <1>2, UserConn, ChangeStateConn, InterruptedConn, LookConn, ClearConn, ReadConn, ResetPortConn,
             RegisterConn, BeginConn, DataConn, StatusOutConn, StatusInConn DEF UsbNext

LEMMA NoConnectMissedFromInv == ASSUME UsbInv, ConnInv PROVE NoConnectMissed
  <1> SUFFICES ASSUME Enumerates PROVE NoConnectMissed
    BY DEF NoConnectMissed
  <1>1. RootsKnown /\ PadsKnown
    BY DEF ConnInv
  <1>2. ASSUME NEW a \in Addresses, given[a] \in Hubs, FindDevice(usb, a) = {given[a]}, rescan # given[a]
        PROVE  LET h == given[a]
               IN  \/ "CONNECTION" \in usb.hub[h[1]][GamepadPort].change
                   \/ (<<h[1], GamepadPort>> \in known) = usb.dev[<<h[1], GamepadPort>>].attached
    <2> DEFINE h == given[a]
               p == h[1]
    <2>1. p \in Roots /\ h = <<p>>
      BY <1>2, DeviceNames DEF Devices
    <2>2. Listens(usb, h)
      BY <1>2, SearchFindsListeners
    <2> HIDE DEF p
    <2>3. Fresh(usb, p, Pad(p) \in known)
      BY <1>1, <1>2, <2>1, <2>2 DEF PadsKnown
    <2> QED BY <2>3 DEF Fresh, Announced, Pad, p
  <1> QED BY <1>1, <1>2 DEF NoConnectMissed, RootsKnown

\* A step of ConnectWakes.
WakesHost ==
    \A p \in Roots :
        LET pad == <<p, GamepadPort>>
        IN  /\ ~usb.dev[pad].attached /\ usb'.dev[pad].attached
            /\ usb.dev[<<p>>].wakeup /\ usb.hcfs = "suspend"
            => usb'.hcfs = "resume" /\ "RD" \in usb'.intr

\* Only a plug connects a gamepad.
LEMMA OthersConnectNothing ==
    ASSUME UsbInv, ConnInv, [UsbNext]_usbVars, ~PlugIn, NEW p \in Roots, usb'.dev[Pad(p)].attached
    PROVE  usb.dev[Pad(p)].attached
  <1>1. TreeShape(usb) /\ Pad(p) \in Devices
    BY HubNames DEF UsbInv, Pad
  <1>2. CASE Unplug
    <2>1. PICK q \in Roots : usb.dev[<<q>>].plugged /\ usb' = HandleDestroy(usb, q)
      BY <1>2 DEF Unplug
    <2>2. PortsTell(usb)
      BY <1>2 DEF Unplug, ConnInv
    <2> QED BY <1>1, <2>1, <2>2, HandleDestroyTells
  <1>3. CASE Look \/ Read \/ Interrupted \/ UNCHANGED usbVars
    <2>1. usb'.dev = usb.dev
      BY <1>1, <1>3 DEF Look, Read, Interrupted, usbVars, TreeShape, TreeFields
    <2> QED BY <2>1
  <1>4. ASSUME SameDevices(usb, usb') PROVE usb.dev[Pad(p)].attached
    BY <1>1, <1>4 DEF SameDevices
  <1>5. CASE Clear \/ Suspend \/ Disable
    <2>1. SamePorts(usb, usb', {})
      BY <1>5, RegisterSame
    <2> QED BY <1>4, <2>1 DEF SamePorts
  <1>6. CASE ResetPort
    <2>1. PICK q \in Roots : usb' = PortSetStatus(usb, q, {"PRS"})
      BY <1>6 DEF ResetPort
    <2>2. PortsTell(usb)
      BY <1>6 DEF ResetPort, ConnInv
    <2>3. SameDevices(usb, usb')
      BY <1>1, <2>1, <2>2, PortSetStatusTells
    <2> QED BY <1>4, <2>3
  <1>7. CASE ChangeState
    <2>1. PortsTell(usb)
      BY <1>7 DEF ChangeState, ConnInv
    <2>2. PICK s \in {"operational", "suspend", "reset"} :
              /\ s # usb.hcfs
              /\ usb' = ChangeHcfs(IF s = "operational" THEN SetHubStatus(usb, {"LPSC", "DRWE"}) ELSE usb, s)
      BY <1>7 DEF ChangeState
    <2>3. CASE s = "reset"
      <3>1. usb' = ResetHost(usb)
        BY <2>2, <2>3 DEF ChangeHcfs
      <3>2. SameDevices(usb, usb')
        BY <1>1, <2>1, <3>1, ResetHostPorts
      <3> QED BY <1>4, <3>2
    <2>4. CASE s # "reset"
      <3> DEFINE v == IF s = "operational" THEN SetHubStatus(usb, {"LPSC", "DRWE"}) ELSE usb
      <3>1. TreeShape(v) /\ SamePorts(usb, v, {})
        BY <1>1, SetHubStatusQuiet, SetHubStatusSame, SamePortsItself DEF Quiet
      <3>2. usb' = ChangeHcfs(v, s)
        BY <2>2
      <3> HIDE DEF v
      <3>3. SamePorts(usb, usb', {})
        BY <2>4, <3>1, <3>2, ChangeHcfsSame, SamePortsTransitive
      <3> QED BY <1>4, <3>3 DEF SamePorts
    <2> QED BY <2>3, <2>4
  <1>8. ASSUME NEW packet, packet.pid \in {"setup", "in", "out"}, usb' = HandlePacket(usb, packet).tree
        PROVE  usb.dev[Pad(p)].attached
    <2>1. SamePorts(usb, usb', Roots)
      BY <1>1, <1>8, PacketSame
    <2> QED BY <1>4, <2>1 DEF SamePorts
  <1>9. CASE Poll
    <2> DEFINE ep == IF given[focus.to] \in Hubs THEN 1 ELSE 2
    <2>1. PICK n \in {0, 1, 2}, pid \in {"in", "out"} :
              usb' = HandlePacket(usb, [Packet(pid, focus.to, NoRequest, n) EXCEPT !.ep = ep]).tree
      BY <1>9 DEF Poll
    <2> HIDE DEF ep
    <2> DEFINE packet == [Packet(pid, focus.to, NoRequest, n) EXCEPT !.ep = ep]
    <2>2. packet.pid \in {"setup", "in", "out"}
      BY DEF Packet
    <2>3. usb' = HandlePacket(usb, packet).tree
      BY <2>1
    <2> HIDE DEF packet
    <2> QED BY <1>8, <2>2, <2>3
  <1>10. CASE Setup \/ InToken \/ OutToken \/ Begin \/ Data \/ StatusOut \/ StatusIn
    <2>1. \E pid \in {"setup", "in", "out"} : \E to, request, size :
              usb' = HandlePacket(usb, Packet(pid, to, request, size)).tree
      <3>1. ASSUME NEW to, NEW request, NEW size, SendSetup(to, request, size)
            PROVE  usb' = HandlePacket(usb, Packet("setup", to, request, size)).tree
        BY <3>1 DEF SendSetup, Handle
      <3>2. ASSUME NEW size, SendIn(size)
            PROVE  usb' = HandlePacket(usb, Packet("in", transfer.to, NoRequest, size)).tree
        BY <3>2 DEF SendIn, Handle
      <3>3. ASSUME NEW size, SendOut(size)
            PROVE  usb' = HandlePacket(usb, Packet("out", transfer.to, NoRequest, size)).tree
        BY <3>3 DEF SendOut, Handle
      <3>4. CASE Setup \/ Begin
        BY <3>1, <3>4 DEF Setup, Begin
      <3>5. CASE InToken \/ Data \/ StatusIn
        BY <3>2, <3>5 DEF InToken, Data, StatusIn
      <3>6. CASE OutToken \/ StatusOut
        BY <3>3, <3>6 DEF OutToken, StatusOut
      <3> QED BY <1>10, <3>4, <3>5, <3>6
    <2> QED BY <1>8, <2>1, PacketFields
  <1> QED BY <1>2, <1>3, <1>5, <1>6, <1>7, <1>9, <1>10 DEF UsbNext

\* Plugging a hub in leaves the other devices attached or not as they were.
LEMMA HubPlugOthers ==
    ASSUME NEW w, TreeShape(w), NEW q \in Roots, NEW e \in Devices, e # <<q>>
    PROVE  Plug(w, <<q>>).dev[e].attached = w.dev[e].attached
  <1> DEFINE d == <<q>>
  <1>1. d \in Devices /\ IsHub(d) /\ d[1] = q /\ e # d
    BY HubNames
  <1> HIDE DEF d
  <1>2. PICK x : /\ Plug(w, d) = Attach(x, d) /\ TreeShape(x)
                 /\ x.root = w.root /\ x.intr = w.intr /\ x.hcfs = w.hcfs
                 /\ \A r \in Roots : r # d[1] \/ ~IsHub(d) => x.hub[r] = w.hub[r]
                 /\ IsHub(d) => ~Seen(x, d[1])
                 /\ x.dev[d].plugged = TRUE /\ x.dev[d].attached = TRUE
                 /\ \A o \in Devices : o # d => x.dev[o] = w.dev[o]
    BY <1>1, PlugForm
  <1>3. Plug(w, d) = Attach(x, d) /\ TreeShape(x) /\ x.dev[e] = w.dev[e]
    BY <1>1, <1>2
  <1>4. SameDevices(x, Attach(x, d))
    BY <1>1, <1>3, HubAttaches DEF d
  <1>5. Attach(x, d).dev[e].attached = x.dev[e].attached
    BY <1>4 DEF SameDevices
  <1> QED BY <1>3, <1>5 DEF d

LEMMA PlugWakes == ASSUME UsbInv, ConnInv, PlugIn PROVE WakesHost
  <1>1. TreeShape(usb) /\ PortsTell(usb)
    BY DEF UsbInv, ConnInv, PlugIn
  <1>2. PICK d \in Devices : CanPlug(usb, d) /\ usb' = Plug(usb, d)
    BY UsbAssumption DEF PlugIn
  <1> SUFFICES ASSUME NEW p \in Roots, ~usb.dev[Pad(p)].attached, usb'.dev[Pad(p)].attached,
                      usb.dev[<<p>>].wakeup, usb.hcfs = "suspend"
               PROVE  usb'.hcfs = "resume" /\ "RD" \in usb'.intr
    BY DEF WakesHost, Pad
  <1> DEFINE q == d[1]
  <1>3. q \in Roots /\ ((IsHub(d) /\ d = <<q>>) \/ d = Pad(q))
    BY DeviceNames DEF Pad
  <1> HIDE DEF q
  <1>4. CASE d = Pad(q)
    BY <1>1, <1>2, <1>3, <1>4, PlugTellsPad
  <1>5. CASE d = <<q>>
    <2>1. Pad(p) \in Devices /\ Pad(p) # <<q>>
      BY HubNames DEF Pad
    <2>2. usb'.dev[Pad(p)].attached = usb.dev[Pad(p)].attached
      BY <1>1, <1>2, <1>3, <1>5, <2>1, HubPlugOthers
    <2> QED BY <2>2
  <1> QED BY <1>3, <1>4, <1>5

\* Whatever is plugged in or out, and whatever else goes on, the guest comes to know of it: what it
\* believes of a port is right, or the change is announced and not yet acknowledged, or it is about to
\* read the port; and a suspended bus is resumed by a hub that may do so.
\* (OHCI_Attach, OHCI_Detach, OHCI_Wakeup and OHCI_PortSetStatus in ohci.cpp; UsbHub_Attach,
\* UsbHub_HandleReset and the port features of UsbHub_HandleControl in ohci_hub.cpp.)
THEOREM ConnectionsAreNoticed == UsbSpec => ConnectionsNoticed
  <1>1. UsbInit => UsbInv /\ EndpointInv /\ ConnInv
    BY UsbInitInv, EndpointInit, ConnInit
  <1>2. UsbInv /\ EndpointInv /\ ConnInv /\ [UsbNext]_usbVars => (UsbInv /\ EndpointInv /\ ConnInv)'
    BY UsbInvInductive, EndpointStep, ConnStep
  <1>3. UsbInv /\ ConnInv => NoConnectMissed
    BY NoConnectMissedFromInv
  <1>4. UsbInv /\ ConnInv /\ [UsbNext]_usbVars => [WakesHost]_usbVars
    BY OthersConnectNothing, PlugWakes DEF WakesHost, Pad
  <1>5. UsbSpec => []NoConnectMissed /\ [][WakesHost]_usbVars
    BY <1>1, <1>2, <1>3, <1>4, PTL DEF UsbSpec
  <1>6. [][WakesHost]_usbVars => ConnectWakes
    BY DEF ConnectWakes, WakesHost
  <1> QED BY <1>5, <1>6, PTL DEF ConnectionsNoticed
=============================================================================
