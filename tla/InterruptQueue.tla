--------------------------- MODULE InterruptQueue ---------------------------
(***************************************************************************)
(* The path of an interrupt vector from the device that raises it to the   *)
(* guest: the pending interrupt queue and the credits of class Cpu         *)
(* (cpu-module/openxbox/cpu.cpp), the two kinds of virtualization backend  *)
(* (KVM and HAXM, which share a memory page called the tunnel with the     *)
(* hypervisor, and the Windows Hypervisor Platform), and the loop of       *)
(* Xbox::RunCpu that drives them.                                          *)
(*                                                                         *)
(* Device threads call Cpu::Interrupt at any moment.  The CPU thread looks *)
(* at the queue before every entry of the guest WITHOUT the mutex, and     *)
(* takes the mutex only to pop.                                            *)
(***************************************************************************)
EXTENDS Integers, Sequences

CONSTANTS
    Vectors,      \* interrupt vectors
    Devices,      \* threads other than the CPU thread that call Interrupt
    CpuThread,    \* the CPU thread, which calls it too, from an I/O handler
    None,         \* "no thread" and "no vector"
    Backends,     \* the backends considered: "tunnel" (KVM, HAXM), "whvp"
    MaxCredits,   \* kInterruptHandlerMaxCredits
    Cost,         \* kInterruptHandlerCost
    Increment,    \* kInterruptHandlerIncrement
    MaxRaised     \* bound: how many interrupts are raised in a behaviour

ASSUME BackendAssumption == Backends \subseteq {"tunnel", "whvp"}

\* Holds of both sets of constants in cpu.h: 25/5/1 (debug), 200/2/1 (release).
ASSUME CreditAssumption ==
    /\ MaxCredits \in Nat \ {0}
    /\ Cost \in Nat /\ Increment \in Nat \ {0}
    /\ Increment <= Cost
    /\ Cost <= MaxCredits
    /\ MaxCredits + Increment <= 256

ASSUME NameAssumption == CpuThread \notin Devices /\ None \notin Vectors
                         /\ None \notin Devices \cup {CpuThread}
                         /\ MaxRaised \in Nat

Raisers == Devices \cup {CpuThread}

VARIABLES
    backend,   \* the backend of this emulator, one of Backends
    owner,     \* holder of m_pendingInterruptsMutex
    pending,   \* m_pendingInterrupts
    credits,   \* m_interruptHandlerCredits, a uint8_t
    call,      \* call[t]: where thread t is in Cpu::Interrupt
    vector,    \* vector[t]: the argument of that call
    pc,        \* where the CPU thread is in its loop
    window,    \* kvmRun()->request_interrupt_window
    ready,     \* kvmRun()->ready_for_interrupt_injection
    cancel,    \* a CancelRun of the VCPU has not taken effect yet
    event,     \* vector the hypervisor will deliver on the next entry
    guestIF,   \* EFLAGS.IF of the guest
    \* What follows is not in the code: it records what happened.
    raised,    \* vectors pushed, in order
    popped,    \* vectors popped, in order
    accepted,  \* vectors whose injection succeeded, in order
    taken,     \* vectors the guest took, in order
    burst      \* consecutive passes of the loop that spent credits

queueVars == <<owner, pending, call, vector, raised>>
guestVars == <<event, guestIF, taken>>
vars == <<backend, owner, pending, credits, call, vector, pc, window, ready,
          cancel, event, guestIF, raised, popped, accepted, taken, burst>>

CountersOK == credits \in 0 .. MaxCredits + Increment - 1 /\ burst \in Nat

TypeOK ==
    /\ CountersOK
    /\ backend \in Backends
    /\ owner \in Raisers \cup {None}
    /\ pending \in Seq(Vectors)
    /\ call \in [Raisers -> {"none", "push", "notify"}]
    /\ vector \in [Raisers -> Vectors \cup {None}]
    /\ \A t \in Raisers : call[t] = "push" => vector[t] \in Vectors
    /\ pc \in {"refill", "test", "afford", "lock", "inject", "enter",
               "guest", "exit", "stopped"}
    /\ window \in BOOLEAN /\ ready \in BOOLEAN /\ cancel \in BOOLEAN
    /\ guestIF \in BOOLEAN
    /\ event \in Vectors \cup {None}
    /\ raised \in Seq(Vectors) /\ popped \in Seq(Vectors)
    /\ accepted \in Seq(Vectors) /\ taken \in Seq(Vectors)

\* The state after Cpu::Initialize and before the first pass of RunCpu.
Init ==
    /\ backend \in Backends
    /\ owner = None
    /\ pending = <<>>
    /\ credits = MaxCredits
    /\ call = [t \in Raisers |-> "none"]
    /\ vector = [t \in Raisers |-> None]
    /\ pc = "refill"
    /\ window = FALSE /\ ready = FALSE /\ cancel = FALSE
    /\ event = None
    /\ guestIF = FALSE
    /\ raised = <<>> /\ popped = <<>> /\ accepted = <<>> /\ taken = <<>>
    /\ burst = 0
-----------------------------------------------------------------------------
\* std::mutex: acquired by a thread only when nobody holds it.
NoMutex == TRUE     \* mutant: the lock_guard is missing
MutexFree == owner = None

(* Cpu::Interrupt(v), called by a device thread at any time, and by the CPU *)
(* thread while it handles an I/O exit of the guest.                        *)

\* The mutex is taken; v is the vector to push.
InterruptLock(t, v) ==
    /\ call[t] = "none"
    /\ t = CpuThread => pc = "exit"
    /\ Len(raised) < MaxRaised
    /\ MutexFree
    /\ owner' = t
    /\ call' = [call EXCEPT ![t] = "push"]
    /\ vector' = [vector EXCEPT ![t] = v]
    /\ UNCHANGED <<backend, pending, credits, pc, window, ready, cancel, event,
                   guestIF, raised, popped, accepted, taken, burst>>

InterruptPush(t) ==
    /\ call[t] = "push"
    /\ pending' = Append(pending, vector[t])
    /\ raised' = Append(raised, vector[t])
    /\ call' = [call EXCEPT ![t] = "notify"]
    /\ vector' = [vector EXCEPT ![t] = None]
    /\ UNCHANGED <<backend, owner, credits, pc, window, ready, cancel, event,
                   guestIF, popped, accepted, taken, burst>>

\* Whether InterruptImpl cancels the run of the VCPU.
NeverCancels == FALSE     \* mutant: a WHVP backend that does not
InterruptImplCancels == backend = "whvp"

\* InterruptImpl, still under the mutex: only WHVP cancels the run.
InterruptNotify(t) ==
    /\ call[t] = "notify"
    /\ call' = [call EXCEPT ![t] = "none"]
    /\ owner' = None
    /\ cancel' = (cancel \/ InterruptImplCancels)
    /\ UNCHANGED <<backend, pending, credits, vector, pc, window, ready, event,
                   guestIF, raised, popped, accepted, taken, burst>>
-----------------------------------------------------------------------------
(* The CPU thread: Cpu::Run = HandleInterruptQueue, then RunImpl.           *)

\* m_pendingInterrupts.size() > 0, read without the mutex: while a thread is
\* inside push() the read races with it and may give either answer.
SizeReads == IF \E t \in Raisers : call[t] = "push"
             THEN BOOLEAN ELSE {pending # <<>>}

AlwaysInjects == TRUE     \* mutant: a tunnel backend that does not ask
CanInjectInterrupt == backend = "whvp" \/ ready

RefilledWithoutLimit == credits + Increment     \* mutant: the test is missing
Refilled == IF credits < MaxCredits THEN (credits + Increment) % 256
            ELSE credits

NonZero == credits > 0     \* mutant: the wrong threshold
Affordable == credits >= Cost

KeepWindow == window' = window     \* mutant: the request is missing
RequestInterruptWindow == window' = TRUE

\* The first lines of HandleInterruptQueue, before every entry of the guest.
RefillCredits ==
    /\ pc = "refill"
    /\ credits' = Refilled
    /\ pc' = "test"
    /\ UNCHANGED <<backend, queueVars, guestVars, window, ready, cancel,
                   popped, accepted, burst>>

\* The unlocked test of the queue, CanInjectInterrupt and the window request.
TestQueue ==
    /\ pc = "test"
    /\ \E nonEmpty \in SizeReads :
         \/ /\ nonEmpty /\ CanInjectInterrupt
            /\ pc' = "afford"
            /\ UNCHANGED <<window, burst>>
         \/ /\ nonEmpty /\ ~CanInjectInterrupt
            /\ RequestInterruptWindow
            /\ pc' = "enter"
            /\ burst' = 0
         \/ /\ ~nonEmpty
            /\ pc' = "enter"
            /\ burst' = 0
            /\ UNCHANGED window
    /\ UNCHANGED <<backend, queueVars, guestVars, credits, ready, cancel,
                   popped, accepted>>

\* The early return of InjectPendingInterrupt, and the payment.
SpendCredits ==
    /\ pc = "afford"
    /\ \E nonEmpty \in SizeReads :
         IF ~Affordable \/ ~nonEmpty
         THEN pc' = "enter" /\ burst' = 0 /\ UNCHANGED credits
         ELSE /\ credits' = (credits - Cost) % 256
              /\ burst' = burst + 1
              /\ pc' = "lock"
    /\ UNCHANGED <<backend, queueVars, guestVars, window, ready, cancel,
                   popped, accepted>>

\* The lock_guard of InjectPendingInterrupt.
LockQueue ==
    /\ pc = "lock"
    /\ MutexFree
    /\ owner' = CpuThread
    /\ pc' = "inject"
    /\ UNCHANGED <<backend, pending, call, vector, raised, guestVars, credits,
                   window, ready, cancel, popped, accepted, burst>>

\* front(), pop() and InjectInterrupt, whose failure is ignored by the caller.
InjectThen(next) ==
    /\ pc = "inject"
    /\ pending' = Tail(pending)
    /\ popped' = Append(popped, Head(pending))
    /\ \/ /\ event' = Head(pending)
          /\ accepted' = Append(accepted, Head(pending))
          /\ window' = (window /\ backend = "whvp")
       \/ UNCHANGED <<event, accepted, window>>        \* CPUS_OP_FAILED
    /\ owner' = None
    /\ pc' = next
    /\ UNCHANGED <<backend, call, vector, raised, credits, ready, cancel,
                   guestIF, taken, burst>>

DrainQueue == InjectThen("test")     \* mutant: a loop that empties the queue
InjectInterrupt == InjectThen("enter")
-----------------------------------------------------------------------------
(* The hypervisor and the guest.                                            *)

\* A run that was cancelled beforehand returns at once, its event undelivered.
RunCancelled ==
    /\ pc = "enter" /\ cancel
    /\ cancel' = FALSE
    /\ ready' = (guestIF /\ event = None)
    /\ pc' = "exit"
    /\ UNCHANGED <<backend, queueVars, guestVars, credits, window, popped,
                   accepted, burst>>

\* Entering the guest delivers the event; the handler starts with IF clear.
EnterGuest ==
    /\ pc = "enter" /\ ~cancel
    /\ pc' = "guest"
    /\ event' = None
    /\ IF event = None
       THEN UNCHANGED <<taken, guestIF>>
       ELSE taken' = Append(taken, event) /\ guestIF' = FALSE
    /\ UNCHANGED <<backend, queueVars, credits, window, ready, cancel, popped,
                   accepted, burst>>

\* The hypervisor leaves the guest as soon as the requested window opens, and
\* when the run is cancelled.
MustExit == (window /\ guestIF) \/ cancel

GuestEnablesInterrupts ==
    /\ pc = "guest" /\ ~guestIF /\ ~cancel
    /\ guestIF' = TRUE
    /\ UNCHANGED <<backend, queueVars, credits, pc, window, ready, cancel,
                   event, popped, accepted, taken, burst>>

GuestDisablesInterrupts ==
    /\ pc = "guest" /\ guestIF /\ ~MustExit
    /\ guestIF' = FALSE
    /\ UNCHANGED <<backend, queueVars, credits, pc, window, ready, cancel,
                   event, popped, accepted, taken, burst>>

VcpuExit ==
    /\ pc = "guest"
    /\ pc' = "exit"
    /\ ready' = guestIF
    /\ cancel' = FALSE
    /\ UNCHANGED <<backend, queueVars, guestVars, credits, window, popped,
                   accepted, burst>>

HypervisorExit == MustExit /\ VcpuExit       \* window open, or cancelled
GuestExit      == ~MustExit /\ VcpuExit      \* port I/O, MMIO

\* RunCpu stops on HLT, on shutdown and on an error of the VCPU, and goes on
\* after any other exit.
Continue ==
    /\ pc = "exit" /\ call[CpuThread] = "none"
    /\ pc' = "refill"
    /\ UNCHANGED <<backend, queueVars, guestVars, credits, window, ready,
                   cancel, popped, accepted, burst>>

StopEmulation ==
    /\ pc = "exit" /\ call[CpuThread] = "none"
    /\ pc' = "stopped"
    /\ UNCHANGED <<backend, queueVars, guestVars, credits, window, ready,
                   cancel, popped, accepted, burst>>

Raise(t) == (\E v \in Vectors : InterruptLock(t, v)) \/ InterruptPush(t)
            \/ InterruptNotify(t)

CpuStep == \/ RefillCredits \/ TestQueue \/ SpendCredits \/ LockQueue
           \/ InjectInterrupt \/ RunCancelled \/ EnterGuest \/ Continue

Next == \/ \E t \in Raisers : Raise(t)
        \/ CpuStep \/ StopEmulation
        \/ GuestEnablesInterrupts \/ GuestDisablesInterrupts
        \/ HypervisorExit \/ GuestExit

\* Threads run: a call of Interrupt returns, the CPU thread goes on, and the
\* hypervisor keeps its side of the window and cancel contracts.
ThreadFairness ==
    /\ \A t \in Raisers : WF_vars(InterruptPush(t)) /\ WF_vars(InterruptNotify(t))
    /\ WF_vars(CpuStep) /\ SF_vars(LockQueue)
    /\ WF_vars(HypervisorExit)

\* What only the guest can provide: it performs I/O again and again and does
\* not keep interrupts disabled for ever.
GuestFairness == WF_vars(GuestExit) /\ SF_vars(GuestEnablesInterrupts)

SafeSpec   == Init /\ [][Next]_vars
ThreadSpec == SafeSpec /\ ThreadFairness
Spec       == ThreadSpec /\ GuestFairness
-----------------------------------------------------------------------------
(* Properties.                                                              *)

\* front() is never called on an empty queue, although both tests of size()
\* are made without the mutex (cpu.cpp:422, 435): undefined behaviour
\* otherwise.
PopFindsVector == pc = "inject" => pending # <<>>

\* No vector is dropped, duplicated or overtaken between push and pop.
QueueIsFifo == raised = popped \o pending

\* The claim of cpu.h:18-20: the guest is not stuck processing interrupts
\* alone.  A run of consecutive passes that each inject a vector is bounded,
\* after which the guest is entered without one.
BoundedBurst == burst * (Cost - Increment) <= MaxCredits + Increment - 1

\* A vector that the hypervisor accepted is not overwritten by the next one
\* before the guest has taken it: what INTR_SUCCESS, "The interrupt was
\* successfully delivered to the CPU" (cpu.h:139), tells the caller.
NoOverwrite == accepted = taken \o (IF event = None THEN <<>> ELSE <<event>>)

\* It holds of KVM and HAXM, which ask for a window first.
TunnelKeepsEvent == backend = "tunnel" => NoOverwrite

\* A vector is put in a KVM or HAXM VCPU only while the guest enables interrupts,
\* although IF is sampled at the previous exit (ready) and used after the
\* credits are counted and the mutex is waited for.
DeliveredOnlyIfEnabled == backend = "tunnel" /\ event # None => guestIF

\* What cpu.h:222 says of Cpu::Interrupt, "enqueues the interrupt request,
\* stops CPU emulation", as WHVP implements it: when no call is in progress and
\* no cancel is on its way, the guest runs with a vector waiting only because
\* another vector has just been injected or the credits are spent.
WhvpLeavesForVector ==
    /\ backend = "whvp" /\ pc = "guest" /\ pending # <<>>
    /\ ~cancel /\ \A t \in Raisers : call[t] = "none"
    => burst > 0 \/ ~Affordable

\* A vector on its way to the guest: every step between Interrupt() and the
\* guest's handler holds what the callers rely on.
DeliverySound ==
    TypeOK /\ TunnelKeepsEvent /\ DeliveredOnlyIfEnabled /\ WhvpLeavesForVector

Delivery == INSTANCE InterruptDelivery
              WITH handled <- popped, halted <- (pc = "stopped")

\* Every vector raised is taken off the queue, once and in order, until the
\* emulation stops.
DeliversAll == Delivery!Spec
=============================================================================
