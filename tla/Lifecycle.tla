----------------------------- MODULE Lifecycle -----------------------------
(***************************************************************************)
(* From the start of the CPU thread to the destruction of the machine:     *)
(* Xbox::Run, Xbox::RunCpu and Xbox::~Xbox (core/openxbox/xbox.cpp), with  *)
(* the thread of the interval timer (hw/basic/i8254.cpp), which the guest  *)
(* starts and which must be gone before the i8254 and the i8259 are freed. *)
(*                                                                         *)
(* Three kinds of threads share m_running and m_should_run, plain bools.   *)
(***************************************************************************)
EXTENDS Naturals

CONSTANTS
    Timers,          \* threads that the guest may cause to be created
    None,            \* no thread
    ErrorCodes,      \* error codes that the guest writes to the SMC
    BugChecks,       \* bug check codes of the kernel
    StopOnFatal,     \* settings.emu_stopOnSMCFatalErrors
    StopOnBugChecks  \* settings.emu_stopOnBugChecks

ASSUME LifecycleAssumption ==
    /\ None \notin Timers
    /\ 0 \notin ErrorCodes \cup BugChecks
    /\ StopOnFatal \in BOOLEAN /\ StopOnBugChecks \in BOOLEAN

VARIABLES
    main,          \* the main thread: Xbox::Run, then ~Xbox
    cpu,           \* the CPU thread, in RunCpu
    timer,         \* timer[t]: thread t, in i8254::Run
    handle,        \* the thread that i8254::m_timerThread holds, or None
    shouldRun,     \* Xbox::m_should_run
    running,       \* i8254::m_running
    line,          \* IRQ 0, as the i8259 has seen it last
    errorCode,     \* SMCRegister::ErrorCode
    lastErrorCode, \* m_lastSMCErrorCode
    bugCheck,      \* KiBugCheckData[0]
    lastBugCheck,  \* m_lastBugCheckCode
    aborted        \* std::terminate was called

timerVars == <<timer, handle, running, line>>
codeVars  == <<errorCode, lastErrorCode, bugCheck, lastBugCheck>>
vars == <<main, cpu, timerVars, shouldRun, codeVars, aborted>>

\* Initialize() has succeeded and the CPU thread has been created.
Init ==
    /\ main = "join" /\ cpu = "loop"
    /\ timer = [t \in Timers |-> "none"] /\ handle = None
    /\ shouldRun = TRUE /\ running = FALSE /\ line = FALSE
    /\ errorCode = 0 /\ lastErrorCode = 0
    /\ bugCheck = 0 /\ lastBugCheck = 0
    /\ aborted = FALSE
-----------------------------------------------------------------------------
(* What the guest does inside m_cpu->Run().                                 *)

\* The value 0x34 reaches one of the timer's ports: m_running is set and a
\* new thread is assigned to m_timerThread.  Assigning to a std::thread that
\* was never joined terminates the program.
WriteTimer(t) ==
    /\ cpu = "guest" /\ timer[t] = "none"
    /\ running' = TRUE
    /\ timer' = [timer EXCEPT ![t] = "start"]
    /\ IF handle = None
       THEN handle' = t /\ UNCHANGED aborted
       ELSE aborted' = TRUE /\ UNCHANGED handle
    /\ UNCHANGED <<main, cpu, shouldRun, line, codeVars>>

ReportError(code) ==
    /\ cpu = "guest" /\ errorCode' = code
    /\ UNCHANGED <<main, cpu, timerVars, shouldRun, lastErrorCode, bugCheck,
                   lastBugCheck, aborted>>

KernelBugCheck(code) ==
    /\ cpu = "guest" /\ bugCheck = 0 /\ bugCheck' = code
    /\ UNCHANGED <<main, cpu, timerVars, shouldRun, errorCode, lastErrorCode,
                   lastBugCheck, aborted>>
-----------------------------------------------------------------------------
(* The CPU thread.                                                          *)

CpuMoves(from, to) == cpu = from /\ cpu' = to

LoopTest ==
    /\ CpuMoves("loop", IF shouldRun THEN "guest" ELSE "exited")
    /\ UNCHANGED <<main, timerVars, shouldRun, codeVars, aborted>>

\* Run() returns an error: Stop().
RunFails ==
    /\ CpuMoves("guest", "resetTimer")
    /\ UNCHANGED <<main, timerVars, shouldRun, codeVars, aborted>>

RunReturns ==
    /\ CpuMoves("guest", "errorCode")
    /\ UNCHANGED <<main, timerVars, shouldRun, codeVars, aborted>>

NewError == errorCode # 0 /\ lastErrorCode # errorCode

ForgetsStop == FALSE     \* mutant: the setting is not looked at
FatalErrorStops == StopOnFatal

CheckErrorCode ==
    /\ CpuMoves("errorCode", IF NewError /\ FatalErrorStops
                             THEN "resetTimer" ELSE "bugCheck")
    /\ lastErrorCode' = IF NewError /\ ~FatalErrorStops THEN errorCode
                        ELSE lastErrorCode
    /\ UNCHANGED <<main, timerVars, shouldRun, errorCode, bugCheck,
                   lastBugCheck, aborted>>

\* A bug check is logged, and that is all; nothing is done when the kernel has
\* not been located or its data cannot be read.
CheckBugCheck ==
    /\ CpuMoves("bugCheck", "reason")
    /\ lastBugCheck' \in {lastBugCheck,
                          IF StopOnBugChecks /\ bugCheck # 0 THEN bugCheck
                          ELSE lastBugCheck}
    /\ UNCHANGED <<main, timerVars, shouldRun, errorCode, lastErrorCode,
                   bugCheck, aborted>>

\* CPU_EXIT_HLT and CPU_EXIT_SHUTDOWN stop, every other reason goes on.
ExitReason ==
    /\ CpuMoves("reason", "resetTimer") \/ CpuMoves("reason", "loop")
    /\ UNCHANGED <<main, timerVars, shouldRun, codeVars, aborted>>

\* Xbox::Stop(): i8254::Reset, then m_should_run.
ResetTimer ==
    /\ CpuMoves("resetTimer", "clearRun")
    /\ running' = FALSE
    /\ UNCHANGED <<main, timer, handle, line, shouldRun, codeVars, aborted>>

ClearRun ==
    /\ CpuMoves("clearRun", "loop")
    /\ shouldRun' = FALSE
    /\ UNCHANGED <<main, timerVars, codeVars, aborted>>
-----------------------------------------------------------------------------
(* i8254::Run, on thread t.                                                 *)

TimerMoves(t, from, to) ==
    /\ timer[t] = from
    /\ timer' = [timer EXCEPT ![t] = to]
    /\ UNCHANGED <<main, cpu, handle, shouldRun, codeVars, aborted>>

EnterRun(t) == TimerMoves(t, "start", "test") /\ running' = TRUE
               /\ UNCHANGED line

WhileRunning(t) == TimerMoves(t, "test", IF running THEN "raise" ELSE "done")
                   /\ UNCHANGED <<running, line>>

RaiseLine(t) == TimerMoves(t, "raise", "sleep") /\ line' = TRUE
                /\ UNCHANGED running

EndsRaised(t) ==        \* mutant: the flag is tested after the sleep as well
    /\ TimerMoves(t, "sleep", IF running THEN "test" ELSE "done")
    /\ line' = (IF running THEN FALSE ELSE line)
    /\ UNCHANGED running
LowerLine(t) == TimerMoves(t, "sleep", "test") /\ line' = FALSE
                /\ UNCHANGED running

TimerStep(t) == EnterRun(t) \/ WhileRunning(t) \/ RaiseLine(t) \/ LowerLine(t)
-----------------------------------------------------------------------------
(* The main thread.                                                         *)

MainMoves(from, to) ==
    /\ main = from /\ main' = to
    /\ UNCHANGED <<cpu, timer, handle, line, shouldRun, codeVars, aborted>>

\* cpuIdleThread.join(), then Cleanup(), which only logs.
JoinCpu == cpu = "exited" /\ MainMoves("join", "cleanup") /\ UNCHANGED running

\* ~Xbox up to ~i8254.
DestroyDevices == MainMoves("cleanup", "stopTimer") /\ UNCHANGED running

\* mutant: joins without having cleared m_running
JoinsFirst == MainMoves("stopTimer", "joinTimer") /\ UNCHANGED running
ClearRunning == MainMoves("stopTimer", "joinTimer") /\ running' = FALSE

NoJoin == TRUE     \* mutant: the thread is detached
ThreadJoined == \A t \in Timers : handle = t => timer[t] = "done"

JoinTimer == ThreadJoined /\ MainMoves("joinTimer", "freePIC")
             /\ UNCHANGED running

FreePIC == MainMoves("freePIC", "end") /\ UNCHANGED running
-----------------------------------------------------------------------------
GuestStep == \/ \E t \in Timers : WriteTimer(t)
             \/ \E code \in ErrorCodes : ReportError(code)
             \/ \E code \in BugChecks : KernelBugCheck(code)

CpuStep == \/ LoopTest \/ RunReturns \/ CheckErrorCode
           \/ CheckBugCheck \/ ExitReason \/ ResetTimer \/ ClearRun

MainStep == JoinCpu \/ DestroyDevices \/ ClearRunning \/ JoinTimer \/ FreePIC

Next == /\ ~aborted
        /\ \/ GuestStep \/ CpuStep \/ RunFails \/ MainStep
           \/ \E t \in Timers : TimerStep(t)

\* Every thread runs; the guest leaves the VCPU again and again.
Spec == /\ Init /\ [][Next]_vars
        /\ WF_vars(~aborted /\ CpuStep) /\ WF_vars(~aborted /\ MainStep)
        /\ \A t \in Timers : WF_vars(~aborted /\ TimerStep(t))
-----------------------------------------------------------------------------
Live(t) == timer[t] \notin {"none", "done"}

\* The timer's thread uses the i8254 and the i8259: neither is freed while the
\* thread lives, whenever it was started and however the emulation ended.
DevicesOutliveTimer ==
    ~aborted /\ main \in {"freePIC", "end"} => \A t \in Timers : ~Live(t)

\* A timer that is gone leaves its interrupt line low, or the i8259 would hold
\* a request that nobody withdraws.
TimerLeavesLineLow == line => \E t \in Timers : Live(t)

\* What the timer's thread leaves behind when it goes, and when it may.
TimerEndsCleanly == DevicesOutliveTimer /\ TimerLeavesLineLow

\* settings.h:21, "the emulator will stop on a fatal error": one the guest
\* leaves in the register when the CPU exits, even if it was the same before.
StopsOnFatalError ==
    (StopOnFatal /\ cpu = "errorCode" /\ errorCode # 0)
       ~> (cpu = "exited" \/ aborted)

\* The destructor ends once the CPU thread has, provided that no timer thread
\* is still between its creation and the m_running = true of i8254::Run: that
\* assignment overrides the one of ~i8254, which would then wait for ever.
DestructorEnds ==
    (main = "join" /\ cpu = "exited" /\ \A t \in Timers : timer[t] # "start")
       ~> (main = "end" \/ aborted)
=============================================================================
