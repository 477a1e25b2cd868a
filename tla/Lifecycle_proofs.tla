-------------------------- MODULE Lifecycle_proofs --------------------------
(***************************************************************************)
(* The machine is taken down safely, however many timer threads the guest  *)
(* asks for and at whatever moment the emulation stops.                    *)
(***************************************************************************)
EXTENDS Lifecycle, TLAPS

TypeOK ==
    /\ main \in {"join", "cleanup", "stopTimer", "joinTimer", "freePIC", "end"}
    /\ cpu \in {"loop", "guest", "errorCode", "bugCheck", "reason",
                "resetTimer", "clearRun", "exited"}
    /\ timer \in [Timers -> {"none", "start", "test", "raise", "sleep", "done"}]
    /\ handle \in Timers \cup {None}
    /\ line \in BOOLEAN /\ aborted \in BOOLEAN

\* The only std::thread object holds every timer thread there is: assigning a
\* second one to it ends the program.
OneTimer == ~aborted => \A t \in Timers : timer[t] # "none" => handle = t

\* ~Xbox runs after the CPU thread was joined, so that no timer is created while
\* the devices are destroyed.
DestroysAfterCpu == main # "join" => cpu = "exited"

\* The line is high only while some timer sleeps.
RaisedInSleep == line => \E t \in Timers : timer[t] = "sleep"

IInv == TypeOK /\ OneTimer /\ DestroysAfterCpu /\ DevicesOutliveTimer
        /\ RaisedInSleep
-----------------------------------------------------------------------------
LEMMA InitInv == Init => IInv
BY DEF Init, IInv, TypeOK, OneTimer, DestroysAfterCpu, DevicesOutliveTimer,
   RaisedInSleep

\* The steps of the guest and of the CPU thread: only the write to a timer's
\* port touches a timer, and it needs a running guest.
LEMMA CpuKeeps == IInv /\ ~aborted /\ (GuestStep \/ CpuStep \/ RunFails) => IInv'
<1> SUFFICES ASSUME IInv, ~aborted, GuestStep \/ CpuStep \/ RunFails PROVE IInv'
  OBVIOUS
<1>1. ASSUME NEW t \in Timers, WriteTimer(t) PROVE IInv'
  <2>1. /\ cpu = "guest" /\ cpu' = cpu /\ main = "join" /\ main' = main
        /\ timer[t] = "none" /\ timer' = [timer EXCEPT ![t] = "start"]
        /\ line' = line
    BY <1>1 DEF WriteTimer, IInv, DestroysAfterCpu
  <2>2. TypeOK'
    BY <1>1, <2>1 DEF WriteTimer, IInv, TypeOK
  <2>3. OneTimer'
    <3>1. CASE handle = None
      <4>1. handle' = t
        BY <1>1, <3>1 DEF WriteTimer
      <4>2. \A u \in Timers : timer[u] = "none"
        BY <3>1, LifecycleAssumption DEF IInv, OneTimer
      <4>3. \A u \in Timers : timer'[u] # "none" => u = t
        BY <2>1, <4>2 DEF IInv, TypeOK
      <4> QED
        BY <4>1, <4>3 DEF OneTimer
    <3>2. CASE handle # None
      BY <1>1, <3>2 DEF WriteTimer, OneTimer
    <3> QED
      BY <3>1, <3>2
  <2>4. RaisedInSleep'
    <3>1. \A u \in Timers : timer[u] = "sleep" => timer'[u] = "sleep"
      BY <2>1 DEF IInv, TypeOK
    <3> QED
      BY <2>1, <3>1 DEF IInv, RaisedInSleep
  <2> QED
    BY <2>1, <2>2, <2>3, <2>4
    DEF IInv, DestroysAfterCpu, DevicesOutliveTimer
<1>2. ASSUME UNCHANGED <<main, timer, handle, line, aborted>>,
             cpu' \in {"loop", "guest", "errorCode", "bugCheck", "reason",
                       "resetTimer", "clearRun", "exited"},
             cpu # "exited" \/ cpu' = cpu
      PROVE  IInv'
  BY <1>2 DEF IInv, TypeOK, OneTimer, DestroysAfterCpu, DevicesOutliveTimer,
     RaisedInSleep, Live
<1>3. ASSUME NEW code, ReportError(code) \/ KernelBugCheck(code) PROVE IInv'
  BY <1>2, <1>3 DEF ReportError, KernelBugCheck, timerVars, IInv, TypeOK
<1>4. CASE CpuStep \/ RunFails
  BY <1>2, <1>4 DEF CpuStep, RunFails, LoopTest, RunReturns, CheckErrorCode,
     CheckBugCheck, ExitReason, ResetTimer, ClearRun, CpuMoves, timerVars
<1> QED
  BY <1>1, <1>3, <1>4 DEF GuestStep

\* The timer's own steps.  None is possible once ~i8254 has joined it.
LEMMA TimerKeeps ==
  ASSUME IInv, ~aborted, NEW t \in Timers, TimerStep(t)
  PROVE  IInv'
<1>1. PICK to \in {"test", "raise", "done", "sleep"} :
        TimerMoves(t, timer[t], to)
  BY DEF TimerStep, EnterRun, WhileRunning, RaiseLine, LowerLine, TimerMoves
<1>2. Live(t)
  BY DEF TimerStep, EnterRun, WhileRunning, RaiseLine, LowerLine, TimerMoves,
     Live
<1>3. /\ timer' = [timer EXCEPT ![t] = to]
      /\ UNCHANGED <<main, cpu, handle, aborted>>
  BY <1>1 DEF TimerMoves
<1>4. \/ line' = line /\ timer[t] # "sleep"
      \/ line' = FALSE
      \/ line' = TRUE /\ timer'[t] = "sleep"
  BY DEF TimerStep, EnterRun, WhileRunning, RaiseLine, LowerLine, TimerMoves,
     IInv, TypeOK
<1>5. TypeOK'
  BY <1>3, <1>4 DEF IInv, TypeOK
<1>6. OneTimer'
  BY <1>2, <1>3 DEF IInv, TypeOK, OneTimer, Live
<1>7. main \notin {"freePIC", "end"}
  BY <1>2 DEF IInv, DevicesOutliveTimer
<1>8. RaisedInSleep'
  BY <1>3, <1>4 DEF IInv, TypeOK, RaisedInSleep
<1> QED
  BY <1>3, <1>5, <1>6, <1>7, <1>8
  DEF IInv, DestroysAfterCpu, DevicesOutliveTimer

\* The destructor: the join is what makes the i8259 safe to free.
LEMMA MainKeeps == IInv /\ ~aborted /\ MainStep => IInv'
<1> SUFFICES ASSUME IInv, ~aborted, MainStep PROVE IInv'
  OBVIOUS
<1>1. UNCHANGED <<cpu, timer, handle, line>> /\ main' # "join"
  BY DEF MainStep, JoinCpu, DestroyDevices, ClearRunning, JoinTimer, FreePIC,
     MainMoves
<1>2. TypeOK'
  BY DEF MainStep, JoinCpu, DestroyDevices, ClearRunning, JoinTimer, FreePIC,
     MainMoves, IInv, TypeOK
<1>3. aborted' = aborted
  BY DEF MainStep, JoinCpu, DestroyDevices, ClearRunning, JoinTimer, FreePIC,
     MainMoves
<1>4. OneTimer' /\ RaisedInSleep'
  BY <1>1, <1>3 DEF IInv, OneTimer, RaisedInSleep
<1>5. DestroysAfterCpu'
  BY <1>1 DEF MainStep, JoinCpu, DestroyDevices, ClearRunning, JoinTimer,
     FreePIC, MainMoves, IInv, DestroysAfterCpu
<1>6. DevicesOutliveTimer'
  <2>1. CASE JoinTimer
    <3>1. \A t \in Timers : timer[t] # "none" => timer[t] = "done"
      BY <2>1 DEF JoinTimer, ThreadJoined, IInv, OneTimer
    <3> QED
      BY <1>1, <3>1 DEF DevicesOutliveTimer, Live
  <2>2. CASE FreePIC
    BY <1>1, <2>2 DEF FreePIC, MainMoves, IInv, DevicesOutliveTimer, Live
  <2>3. CASE JoinCpu \/ DestroyDevices \/ ClearRunning
    BY <2>3 DEF JoinCpu, DestroyDevices, ClearRunning, MainMoves,
       DevicesOutliveTimer
  <2> QED
    BY <2>1, <2>2, <2>3 DEF MainStep
<1> QED
  BY <1>2, <1>4, <1>5, <1>6 DEF IInv

LEMMA Inductive == Spec => []IInv
<1>1. IInv /\ [Next]_vars => IInv'
  <2>1. IInv /\ Next => IInv'
    BY CpuKeeps, TimerKeeps, MainKeeps DEF Next
  <2>2. IInv /\ UNCHANGED vars => IInv'
    BY DEF vars, timerVars, IInv, TypeOK, OneTimer, DestroysAfterCpu,
       DevicesOutliveTimer, RaisedInSleep, Live
  <2> QED
    BY <2>1, <2>2
<1> QED
  BY <1>1, InitInv, PTL DEF Spec
-----------------------------------------------------------------------------
\* The thread of the interval timer is gone before the i8254 and the i8259 that
\* it uses are freed, and it leaves its interrupt line low: for any number of
\* timer threads the guest asks for, whatever ends the emulation.
THEOREM TimerIsGone == Spec => []TimerEndsCleanly
<1>1. IInv => TimerEndsCleanly
  BY DEF IInv, RaisedInSleep, TimerEndsCleanly, TimerLeavesLineLow, Live
<1> QED
  BY <1>1, Inductive, PTL

\* Until the program is ended by std::terminate there is at most one thread that
\* runs i8254::Run, although every 0x34 written to a timer's port creates one.
THEOREM TimerIsUnique ==
  Spec => [](~aborted => \A t, u \in Timers : Live(t) /\ Live(u) => t = u)
<1>1. IInv => (~aborted => \A t, u \in Timers : Live(t) /\ Live(u) => t = u)
  BY DEF IInv, OneTimer, Live
<1> QED
  BY <1>1, Inductive, PTL
=============================================================================
