---------------------------- MODULE InvokeLater ----------------------------
(***************************************************************************)
(* The one-shot timer of the serial ports (util/invoke_later.cpp): a       *)
(* thread that waits first for a timer to be set up and then for its       *)
(* expiration, on two condition variables without predicates, and invokes  *)
(* the callback if the timer is primed by then.  The callers are the CPU   *)
(* thread and the reader thread of the character driver.                   *)
(*                                                                         *)
(* A notification reaches the thread only while it waits.  m_running and   *)
(* m_primed are read and written outside of the mutexes.                   *)
(***************************************************************************)
EXTENDS Naturals, Sequences

CONSTANTS
    Callers,    \* threads that call Set, Cancel and Stop
    Delays,     \* how far in the future a timer is set
    Spurious,   \* TRUE if a wait may end without a notification
    MaxCalls,   \* bound: calls in a behaviour
    MaxTime     \* bound: the clock stops there

ASSUME InvokeLaterAssumption ==
    /\ Delays \subseteq Nat \ {0} /\ Spurious \in BOOLEAN
    /\ MaxCalls \in Nat /\ MaxTime \in Nat

VARIABLES
    thread,     \* where the thread is in Run()
    deadline,   \* the expiration that the thread waits for
    running,    \* m_running
    primed,     \* m_primed
    target,     \* m_targetExpiration
    now,        \* the clock
    call,       \* call[c]: what is left of the call of c
    arg,        \* arg[c]: the expiration that c sets
    calls,      \* how many calls were made
    late        \* invocations after Stop() cleared m_running

objectVars == <<running, primed, target>>
callVars == <<call, arg, calls>>
laterVars == <<thread, deadline, objectVars, now, callVars, late>>

\* After Start(): the thread is about to test m_running.
LaterInit ==
    /\ thread = "test" /\ deadline = 0
    /\ running = TRUE /\ primed = FALSE /\ target = 0
    /\ now = 0
    /\ call = [c \in Callers |-> <<>>] /\ arg = [c \in Callers |-> 0]
    /\ calls = 0 /\ late = 0
-----------------------------------------------------------------------------
(* The calls, as the sequence of their steps.                               *)

OnlyTimed == <<"unprime", "notifyTimed">>     \* mutant: one notification
CancelSteps == <<"unprime", "notifySetup", "notifyTimed">>
SetSteps == CancelSteps \o <<"aim", "prime", "notifySetup">>
StopSteps == <<"stop">> \o CancelSteps

Begin(c, steps) ==
    /\ call[c] = <<>> /\ calls < MaxCalls
    /\ call' = [call EXCEPT ![c] = steps]
    /\ calls' = calls + 1
    /\ UNCHANGED <<thread, deadline, objectVars, now, late>>

Cancel(c) == Begin(c, CancelSteps) /\ UNCHANGED arg
Stop(c)   == running /\ Begin(c, StopSteps) /\ UNCHANGED arg
Set(c)    == \E d \in Delays : /\ now + d <= MaxTime
                               /\ Begin(c, SetSteps)
                               /\ arg' = [arg EXCEPT ![c] = now + d]

\* A notification moves the thread on if it waits, and is lost otherwise.
Notify(from, to) == thread' = IF thread = from THEN to ELSE thread

Perform(c, step) ==
    CASE step = "unprime" ->
           primed' = FALSE /\ UNCHANGED <<thread, running, target>>
      [] step = "notifySetup" ->
           Notify("waitSetup", "arm") /\ UNCHANGED objectVars
      [] step = "notifyTimed" ->
           Notify("waitTimed", "check") /\ UNCHANGED objectVars
      [] step = "aim" ->
           target' = arg[c] /\ UNCHANGED <<thread, running, primed>>
      [] step = "prime" ->
           primed' = TRUE /\ UNCHANGED <<thread, running, target>>
      [] step = "stop" ->
           running' = FALSE /\ UNCHANGED <<thread, primed, target>>

CallStep(c) ==
    /\ call[c] # <<>>
    /\ Perform(c, Head(call[c]))
    /\ call' = [call EXCEPT ![c] = Tail(@)]
    /\ UNCHANGED <<deadline, now, arg, calls, late>>
-----------------------------------------------------------------------------
(* Run().                                                                   *)

Goes(from, to) == thread = from /\ thread' = to
                  /\ UNCHANGED <<objectVars, now, callVars>>

NeverStops == TRUE     \* mutant: a loop without a condition
KeepsRunning == running

TestRunning ==
    /\ Goes("test", IF KeepsRunning THEN "setup" ELSE "exited")
    /\ UNCHANGED <<deadline, late>>

\* The lock and the wait are one step: the mutex is released by waiting.
WaitSetup == Goes("setup", "waitSetup") /\ UNCHANGED <<deadline, late>>

WaitTimed == Goes("arm", "waitTimed") /\ deadline' = target
             /\ UNCHANGED late

Timeout == /\ now >= deadline
           /\ Goes("waitTimed", "check") /\ UNCHANGED <<deadline, late>>

SpuriousWakeup == /\ Spurious
                  /\ Goes("waitSetup", "arm") \/ Goes("waitTimed", "check")
                  /\ UNCHANGED <<deadline, late>>

CheckRunning ==
    /\ Goes("check", IF KeepsRunning THEN "checkPrimed" ELSE "exited")
    /\ UNCHANGED <<deadline, late>>

CheckPrimed == /\ Goes("checkPrimed", IF primed THEN "invoke" ELSE "test")
               /\ UNCHANGED <<deadline, late>>

\* The callback.
Invoke == /\ Goes("invoke", "test")
          /\ late' = IF running THEN late ELSE late + 1
          /\ UNCHANGED deadline

ThreadStep == \/ TestRunning \/ WaitSetup \/ WaitTimed \/ Timeout
              \/ CheckRunning \/ CheckPrimed \/ Invoke

Tick == /\ now < MaxTime /\ now' = now + 1
        /\ UNCHANGED <<thread, deadline, objectVars, callVars, late>>

LaterNext == \/ ThreadStep \/ SpuriousWakeup \/ Tick
             \/ \E c \in Callers : Set(c) \/ Cancel(c) \/ Stop(c) \/ CallStep(c)

\* Time passes, the thread runs and a call that was begun returns.
LaterSpec ==
    /\ LaterInit /\ [][LaterNext]_laterVars
    /\ WF_laterVars(ThreadStep) /\ WF_laterVars(Tick)
    /\ \A c \in Callers : WF_laterVars(CallStep(c))
-----------------------------------------------------------------------------
\* Stop() ends the thread if it finds it anywhere but between the test of
\* m_running and the wait for a setup, even with a timer pending: the join of
\* ~InvokeLater returns.
StopEndsThread ==
    (\E c \in Callers : call[c] = CancelSteps /\ ~running /\ thread # "setup")
       ~> thread = "exited"

\* Whatever the other callers do, the callback is invoked at most once after
\* m_running was cleared: the object may be torn down after that.
OneLateInvocation == late <= 1
=============================================================================
