----------------------- MODULE InterruptQueue_proofs -----------------------
(***************************************************************************)
(* The interrupt queue of class Cpu is correct for every number of         *)
(* threads, every set of vectors and every choice of the credit constants  *)
(* that satisfies CreditAssumption.                                        *)
(***************************************************************************)
EXTENDS InterruptQueue, TLAPS

\* The mutex: a thread between its lock and its unlock owns it.
MutexInv ==
    /\ \A t \in Raisers : call[t] # "none" => owner = t
    /\ pc = "inject" => owner = CpuThread

\* Both tests of size() passed, so the queue has a vector or gets one before
\* the mutex is free.
WorkInv ==
    /\ pc = "lock" => pending # <<>> \/ \E t \in Raisers : call[t] = "push"
    /\ pc = "inject" => pending # <<>>
    /\ call[CpuThread] # "none" => pc = "exit"

\* What the credits pay for.
Paid == credits + burst * (Cost - Increment)

CreditInv ==
    /\ Paid <= MaxCredits + Increment - 1
               + (IF pc \in {"test", "afford"} THEN Increment ELSE 0)
    /\ pc \in {"test", "afford"} => credits >= Increment

IInv == TypeOK /\ MutexInv /\ WorkInv /\ CreditInv

-----------------------------------------------------------------------------
\* Multiplying by one more (the only nonlinear arithmetic of the proof).
LEMMA OneMore ==
  ASSUME NEW b \in Nat, NEW d \in Int
  PROVE  /\ (b + 1) * d = b * d + d
         /\ 0 * d = 0
OBVIOUS

\* A uint8_t below 256 does not wrap.
LEMMA NoWrap ==
  ASSUME NEW n \in 0 .. 255
  PROVE  n % 256 = n
OBVIOUS

\* A product of naturals is a natural.
LEMMA ProductNat ==
  ASSUME NEW b \in Nat, NEW d \in Nat
  PROVE  b * d \in Nat
OBVIOUS
-----------------------------------------------------------------------------
LEMMA InitInv == Init => IInv
<1> SUFFICES ASSUME Init PROVE IInv
  OBVIOUS
<1> USE CreditAssumption, NameAssumption DEF Init, Raisers
<1>1. TypeOK
  <2>1. CountersOK
    BY DEF CountersOK
  <2>2. /\ pending \in Seq(Vectors) /\ raised \in Seq(Vectors)
        /\ popped \in Seq(Vectors) /\ accepted \in Seq(Vectors)
        /\ taken \in Seq(Vectors)
    OBVIOUS
  <2>3. call \in [Raisers -> {"none", "push", "notify"}]
        /\ vector \in [Raisers -> Vectors \cup {None}]
    OBVIOUS
  <2> QED
    BY <2>1, <2>2, <2>3 DEF TypeOK
<1>2. MutexInv /\ WorkInv
  BY DEF MutexInv, WorkInv
<1>3. CreditInv
  <2>1. Cost - Increment \in Int
    OBVIOUS
  <2>2. Paid = MaxCredits
    BY <2>1, OneMore DEF Paid
  <2> QED
    BY <2>2 DEF CreditInv
<1> QED
  BY <1>1, <1>2, <1>3 DEF IInv

\* The type invariant is inductive together with WorkInv, which makes Head and
\* Tail of the queue defined.
LEMMA TypeStep == IInv /\ [Next]_vars => TypeOK'
<1> SUFFICES ASSUME IInv, [Next]_vars PROVE TypeOK'
  OBVIOUS
<1> USE NameAssumption
    DEF IInv, TypeOK, Raisers, queueVars, guestVars
<1>1. ASSUME NEW t \in Raisers, NEW v \in Vectors, InterruptLock(t, v)
      PROVE  TypeOK'
  BY <1>1 DEF InterruptLock, CountersOK
<1>2. ASSUME NEW t \in Raisers, InterruptPush(t) PROVE TypeOK'
  BY <1>2 DEF InterruptPush, CountersOK
<1>3. ASSUME NEW t \in Raisers, InterruptNotify(t) PROVE TypeOK'
  BY <1>3 DEF InterruptNotify, CountersOK
<1>4. CASE RefillCredits
  <2>1. credits \in Nat /\ burst' = burst /\ burst \in Nat
        /\ credits <= MaxCredits + Increment - 1
    BY <1>4, CreditAssumption DEF RefillCredits, CountersOK
  <2>2. credits < MaxCredits => credits + Increment \in 0 .. 255
    BY <2>1, CreditAssumption
  <2>3. credits' = IF credits < MaxCredits THEN credits + Increment ELSE credits
    BY <1>4, <2>2, NoWrap DEF RefillCredits, Refilled
  <2>4. CountersOK'
    BY <2>1, <2>3, CreditAssumption DEF CountersOK
  <2> QED
    BY <1>4, <2>4 DEF RefillCredits
<1>5. CASE TestQueue
  <2>1. CountersOK'
    BY <1>5 DEF TestQueue, CountersOK
  <2> QED
    BY <1>5, <2>1 DEF TestQueue, RequestInterruptWindow
<1>6. CASE SpendCredits
  <2>1. /\ credits \in Nat /\ burst \in Nat
        /\ credits <= MaxCredits + Increment - 1
    BY CreditAssumption DEF CountersOK
  <2>2. ASSUME UNCHANGED credits, burst' = 0 PROVE CountersOK'
    BY <2>1, <2>2, CreditAssumption DEF CountersOK
  <2>3. ASSUME Affordable, credits' = (credits - Cost) % 256,
               burst' = burst + 1
        PROVE  CountersOK'
    <3>1. credits - Cost \in 0 .. 255
      BY <2>1, <2>3, CreditAssumption DEF Affordable
    <3>2. credits' = credits - Cost
      BY <2>3, <3>1, NoWrap
    <3>3. credits' >= 0 /\ credits' <= MaxCredits + Increment - 1
      BY <2>1, <3>1, <3>2, CreditAssumption
    <3>4. credits' \in Int /\ burst' \in Nat
      BY <2>1, <2>3, <3>1, <3>2
    <3> QED
      BY <3>3, <3>4, CreditAssumption DEF CountersOK
  <2>4. CountersOK'
    BY <1>6, <2>2, <2>3 DEF SpendCredits
  <2> QED
    BY <1>6, <2>4 DEF SpendCredits
<1>7. CASE LockQueue
  BY <1>7 DEF LockQueue, CountersOK
<1>8. CASE InjectInterrupt
  <2>1. pending # <<>> /\ CountersOK'
    BY <1>8 DEF InjectInterrupt, InjectThen, WorkInv, CountersOK
  <2>2. Head(pending) \in Vectors /\ Tail(pending) \in Seq(Vectors)
    BY <2>1
  <2>3. Append(popped, Head(pending)) \in Seq(Vectors)
        /\ Append(accepted, Head(pending)) \in Seq(Vectors)
    BY <2>2
  <2> QED
    BY <1>8, <2>1, <2>2, <2>3 DEF InjectInterrupt, InjectThen
<1>9. CASE RunCancelled
  BY <1>9 DEF RunCancelled, CountersOK
<1>10. CASE EnterGuest
  <2>1. CASE event = None
    BY <1>10, <2>1 DEF EnterGuest, CountersOK
  <2>2. CASE event # None
    <3>1. event \in Vectors /\ taken \in Seq(Vectors)
      BY <2>2
    <3>2. Append(taken, event) \in Seq(Vectors)
      BY <3>1
    <3> QED
      BY <1>10, <2>2, <3>2 DEF EnterGuest, CountersOK
  <2> QED
    BY <2>1, <2>2
<1>11. CASE Continue
  BY <1>11 DEF Continue, CountersOK
<1>12. CASE StopEmulation
  BY <1>12 DEF StopEmulation, CountersOK
<1>13. CASE GuestEnablesInterrupts
  BY <1>13 DEF GuestEnablesInterrupts, CountersOK
<1>14. CASE GuestDisablesInterrupts
  BY <1>14 DEF GuestDisablesInterrupts, CountersOK
<1>15. CASE HypervisorExit \/ GuestExit
  BY <1>15 DEF HypervisorExit, GuestExit, VcpuExit, CountersOK
<1>16. CASE UNCHANGED vars
  BY <1>16 DEF vars, CountersOK
<1> HIDE DEF IInv, TypeOK, queueVars, guestVars
<1> QED
  BY <1>1, <1>2, <1>3, <1>4, <1>5, <1>6, <1>7, <1>8, <1>9, <1>10, <1>11,
     <1>12, <1>13, <1>14, <1>15, <1>16
  DEF Next, Raise, CpuStep

\* Mutual exclusion, and what the unlocked tests of the queue imply.
LEMMA WorkStep == IInv /\ [Next]_vars => MutexInv' /\ WorkInv'
<1> SUFFICES ASSUME IInv, [Next]_vars PROVE MutexInv' /\ WorkInv'
  OBVIOUS
<1> USE NameAssumption
    DEF IInv, TypeOK, CountersOK, MutexInv, WorkInv, Raisers, queueVars, guestVars
<1>1. ASSUME NEW t \in Raisers, NEW v \in Vectors, InterruptLock(t, v)
      PROVE  MutexInv' /\ WorkInv'
  BY <1>1 DEF InterruptLock, MutexFree
<1>2. ASSUME NEW t \in Raisers, InterruptPush(t) PROVE MutexInv' /\ WorkInv'
  <2>1. pending' # <<>>
    <3>1. pending \in Seq(Vectors) /\ vector[t] \in Vectors
      BY <1>2 DEF InterruptPush
    <3>2. pending' = Append(pending, vector[t])
      BY <1>2 DEF InterruptPush
    <3> HIDE DEF IInv, MutexInv, WorkInv
    <3> QED
      BY <3>1, <3>2
  <2>2. owner = t /\ owner' = owner /\ pc' = pc /\ call[t] = "push"
    <3>1. call[t] = "push" /\ owner' = owner /\ pc' = pc
      BY <1>2 DEF InterruptPush
    <3> QED
      BY <3>1
  <2>3. call' = [call EXCEPT ![t] = "notify"]
    BY <1>2 DEF InterruptPush
  <2>4. \A u \in Raisers : u # t => call'[u] = call[u]
    BY <2>3
  <2>5. MutexInv'
    BY <2>2, <2>4
  <2>6. WorkInv'
    BY <2>1, <2>2, <2>4
  <2> QED
    BY <2>5, <2>6
<1>3. ASSUME NEW t \in Raisers, InterruptNotify(t) PROVE MutexInv' /\ WorkInv'
  BY <1>3 DEF InterruptNotify
<1>4. CASE RefillCredits
  BY <1>4 DEF RefillCredits
<1>5. CASE TestQueue
  BY <1>5 DEF TestQueue
<1>6. CASE SpendCredits
  <2>1. pc' = "lock" =>
          pending # <<>> \/ \E t \in Raisers : call[t] = "push"
    BY <1>6 DEF SpendCredits, SizeReads
  <2> QED
    BY <1>6, <2>1 DEF SpendCredits
<1>7. CASE LockQueue
  <2>1. \A t \in Raisers : call[t] = "none"
    BY <1>7 DEF LockQueue, MutexFree
  <2>2. pending # <<>>
    BY <1>7, <2>1 DEF LockQueue
  <2> QED
    BY <1>7, <2>1, <2>2 DEF LockQueue
<1>8. CASE InjectInterrupt
  <2>1. \A t \in Raisers : call[t] = "none"
    BY <1>8 DEF InjectInterrupt, InjectThen
  <2> QED
    BY <1>8, <2>1 DEF InjectInterrupt, InjectThen
<1>9. CASE RunCancelled
  BY <1>9 DEF RunCancelled
<1>10. CASE EnterGuest
  BY <1>10 DEF EnterGuest
<1>11. CASE Continue
  BY <1>11 DEF Continue
<1>12. CASE StopEmulation
  BY <1>12 DEF StopEmulation
<1>13. CASE GuestEnablesInterrupts
  BY <1>13 DEF GuestEnablesInterrupts
<1>14. CASE GuestDisablesInterrupts
  BY <1>14 DEF GuestDisablesInterrupts
<1>15. CASE HypervisorExit \/ GuestExit
  BY <1>15 DEF HypervisorExit, GuestExit, VcpuExit
<1>16. CASE UNCHANGED vars
  BY <1>16 DEF vars
<1> HIDE DEF IInv, TypeOK, CountersOK, MutexInv, WorkInv, queueVars, guestVars
<1> QED
  BY <1>1, <1>2, <1>3, <1>4, <1>5, <1>6, <1>7, <1>8, <1>9, <1>10, <1>11,
     <1>12, <1>13, <1>14, <1>15, <1>16
  DEF Next, Raise, CpuStep

\* A pass that injects pays Cost, earns Increment and lengthens the burst by
\* one, so that Paid does not grow; any other pass ends the burst.
LEMMA CreditStep == IInv /\ [Next]_vars => CreditInv'
<1> SUFFICES ASSUME IInv, [Next]_vars PROVE CreditInv'
  OBVIOUS
<1> DEFINE d == Cost - Increment
<1>1. d \in Int /\ burst \in Nat /\ burst + 1 \in Nat
  BY CreditAssumption DEF IInv, TypeOK, CountersOK
<1>2. (burst + 1) * d = burst * d + d /\ 0 * d = 0 /\ burst * d \in Int
  BY <1>1, OneMore
<1>3. credits \in 0 .. MaxCredits + Increment - 1 /\ CreditInv
  BY DEF IInv, TypeOK, CountersOK
<1> USE CreditAssumption DEF CreditInv, Paid, queueVars, guestVars
<1>4. CASE RefillCredits
  <2>1. credits' = Refilled /\ burst' = burst /\ pc = "refill" /\ pc' = "test"
    BY <1>4 DEF RefillCredits
  <2>2. credits < MaxCredits => credits + Increment \in 0 .. 255
    BY <1>3
  <2>3. credits' = IF credits < MaxCredits THEN credits + Increment ELSE credits
    BY <2>1, <2>2, NoWrap DEF Refilled
  <2> QED
    BY <2>1, <2>3, <1>2, <1>3
<1>5. CASE TestQueue
  <2>1. credits' = credits /\ pc = "test"
    BY <1>5 DEF TestQueue
  <2>2. (pc' = "afford" /\ burst' = burst) \/ (pc' = "enter" /\ burst' = 0)
    BY <1>5 DEF TestQueue
  <2>3. CASE pc' = "afford" /\ burst' = burst
    BY <2>1, <2>3, <1>2, <1>3
  <2>4. CASE pc' = "enter" /\ burst' = 0
    BY <2>1, <2>4, <1>2, <1>3
  <2> QED
    BY <2>2, <2>3, <2>4
<1>6. CASE SpendCredits
  <2>1. CASE pc' = "enter" /\ burst' = 0 /\ credits' = credits
    BY <2>1, <1>2, <1>3
  <2>2. CASE /\ Affordable /\ credits' = (credits - Cost) % 256
             /\ burst' = burst + 1 /\ pc = "afford" /\ pc' = "lock"
    <3>1. credits - Cost \in 0 .. 255
      BY <2>2, <1>3 DEF Affordable
    <3>2. credits' = credits - Cost
      BY <2>2, <3>1, NoWrap
    <3> QED
      BY <3>2, <2>2, <1>2, <1>3
  <2> QED
    BY <1>6, <2>1, <2>2 DEF SpendCredits
<1>7. ASSUME credits' = credits, burst' = burst,
             pc \notin {"test", "afford"}, pc' \notin {"test", "afford"}
      PROVE  CreditInv'
  BY <1>7, <1>2, <1>3
<1>8. CASE LockQueue \/ InjectInterrupt \/ RunCancelled \/ EnterGuest
           \/ Continue \/ StopEmulation \/ GuestEnablesInterrupts
           \/ GuestDisablesInterrupts \/ HypervisorExit \/ GuestExit
  <2>1. /\ credits' = credits /\ burst' = burst
        /\ pc \notin {"test", "afford"} /\ pc' \notin {"test", "afford"}
    BY <1>8 DEF LockQueue, InjectInterrupt, InjectThen, RunCancelled,
       EnterGuest, Continue, StopEmulation, GuestEnablesInterrupts,
       GuestDisablesInterrupts, HypervisorExit, GuestExit, VcpuExit
  <2> QED
    BY <2>1, <1>7
<1>9. ASSUME credits' = credits, burst' = burst, pc' = pc PROVE CreditInv'
  BY <1>9, <1>3
<1>10. ASSUME NEW t \in Raisers, Raise(t) PROVE CreditInv'
  <2>1. credits' = credits /\ burst' = burst /\ pc' = pc
    BY <1>10 DEF Raise, InterruptLock, InterruptPush, InterruptNotify
  <2> QED
    BY <2>1, <1>9
<1>11. CASE UNCHANGED vars
  <2>1. credits' = credits /\ burst' = burst /\ pc' = pc
    BY <1>11 DEF vars
  <2> QED
    BY <2>1, <1>9
<1> HIDE DEF CreditInv
<1> QED
  BY <1>4, <1>5, <1>6, <1>8, <1>10, <1>11 DEF Next, CpuStep

LEMMA Inductive == SafeSpec => []IInv
<1>1. IInv /\ [Next]_vars => IInv'
  BY TypeStep, WorkStep, CreditStep DEF IInv
<1> QED
  BY <1>1, InitInv, PTL DEF SafeSpec
-----------------------------------------------------------------------------
\* Every variable keeps its type; in particular the uint8_t of the credits
\* never wraps, neither upwards in the refill nor downwards in the payment.
THEOREM TypeCorrect == SafeSpec => []TypeOK
<1>1. IInv => TypeOK
  BY DEF IInv
<1> QED
  BY <1>1, Inductive, PTL

\* std::queue::front is never called on an empty queue, although both tests of
\* the size are made without the mutex.
THEOREM PopIsSafe == SafeSpec => []PopFindsVector
<1>1. IInv => PopFindsVector
  BY DEF IInv, WorkInv, PopFindsVector
<1> QED
  BY <1>1, Inductive, PTL

\* However the constants of cpu.h are chosen, the guest is entered without a
\* new interrupt after a bounded number of entries.
THEOREM BurstIsBounded == SafeSpec => []BoundedBurst
<1>1. IInv => BoundedBurst
  <2> SUFFICES ASSUME IInv PROVE BoundedBurst
    OBVIOUS
  <2>1. /\ credits \in Nat /\ burst \in Nat /\ CreditInv
        /\ Cost - Increment \in Nat
    BY CreditAssumption DEF IInv, TypeOK, CountersOK
  <2>2. burst * (Cost - Increment) \in Nat
    BY <2>1, ProductNat
  <2> QED
    BY <2>1, <2>2, CreditAssumption DEF CreditInv, Paid, BoundedBurst
<1> QED
  BY <1>1, Inductive, PTL
-----------------------------------------------------------------------------
(* What a vector meets on its way from the queue to the guest.              *)

\* A tunnel VCPU is never cancelled, has an event only between the injection
\* and the entry, and "ready" sampled at the last exit stays true of the guest
\* until then.
TunnelInv ==
    backend = "tunnel" =>
      /\ ~cancel
      /\ pc # "enter" => event = None
      /\ pc \in {"afford", "lock", "inject"} => ready
      /\ ready /\ pc \notin {"enter", "guest"} => guestIF
      /\ event # None => guestIF
      /\ NoOverwrite

\* A pass that gets past the payment has a burst; the rest is
\* WhvpLeavesForVector from the moment the pass has decided.
WaitingInv ==
    /\ pc \in {"lock", "inject"} => burst > 0
    /\ /\ backend = "whvp" /\ pc \in {"enter", "guest"} /\ pending # <<>>
       /\ ~cancel /\ \A t \in Raisers : call[t] = "none"
       => burst > 0 \/ ~Affordable

\* Nothing appended, or one vector appended.
LEMMA AppendEmpty ==
  ASSUME NEW S, NEW s \in Seq(S), NEW e \in S
  PROVE  /\ s \o <<>> = s
         /\ s \o <<e>> = Append(s, e)
OBVIOUS

LEMMA TunnelStep == IInv /\ TunnelInv /\ [Next]_vars => TunnelInv'
<1> SUFFICES ASSUME IInv, TunnelInv, [Next]_vars, backend' = "tunnel"
             PROVE  TunnelInv'
  BY DEF TunnelInv
<1>1. /\ backend = "tunnel" /\ ~cancel
      /\ accepted \in Seq(Vectors) /\ taken \in Seq(Vectors)
      /\ event \in Vectors \cup {None}
  <2>1. backend' = backend
    BY DEF Next, Raise, CpuStep, InterruptLock, InterruptPush, InterruptNotify,
       RefillCredits, TestQueue, SpendCredits, LockQueue, InjectInterrupt,
       InjectThen, RunCancelled, EnterGuest, Continue, StopEmulation,
       GuestEnablesInterrupts, GuestDisablesInterrupts, HypervisorExit,
       GuestExit, VcpuExit, vars
  <2> QED
    BY <2>1 DEF TunnelInv, IInv, TypeOK
<1> USE NameAssumption DEF TunnelInv, queueVars, guestVars
\* The steps that leave the event, what was accepted and what was taken alone.
<1>2. ASSUME UNCHANGED <<event, accepted, taken>> PROVE NoOverwrite'
  BY <1>1, <1>2 DEF NoOverwrite
<1>3. ASSUME NEW t \in Raisers, Raise(t) PROVE TunnelInv'
  BY <1>1, <1>2, <1>3 DEF Raise, InterruptLock, InterruptPush, InterruptNotify,
     InterruptImplCancels
<1>4. CASE RefillCredits \/ TestQueue \/ SpendCredits \/ LockQueue
           \/ Continue \/ StopEmulation \/ UNCHANGED vars
  BY <1>1, <1>2, <1>4 DEF RefillCredits, TestQueue, CanInjectInterrupt,
     SpendCredits, LockQueue, Continue, StopEmulation, vars
<1>5. CASE InjectInterrupt
  <2>1. /\ pc = "inject" /\ pc' = "enter" /\ event = None /\ guestIF
        /\ accepted = taken
        /\ taken' = taken /\ guestIF' = guestIF /\ cancel' = cancel
    <3>1. /\ pc = "inject" /\ pc' = "enter"
          /\ taken' = taken /\ guestIF' = guestIF /\ cancel' = cancel
      BY <1>5 DEF InjectInterrupt, InjectThen
    <3>2. event = None /\ guestIF
      BY <3>1, <1>1
    <3>3. accepted = taken \o <<>>
      BY <3>2, <1>1 DEF NoOverwrite
    <3> QED
      BY <3>1, <3>2, <3>3, <1>1, AppendEmpty
  <2>2. pending # <<>> /\ pending \in Seq(Vectors)
    BY <2>1 DEF IInv, TypeOK, WorkInv
  <2>3. Head(pending) \in Vectors
    BY <2>2
  <2>4. CASE UNCHANGED <<event, accepted>>
    BY <1>1, <1>2, <2>1, <2>4
  <2>5. CASE /\ event' = Head(pending)
             /\ accepted' = Append(accepted, Head(pending))
    <3>1. event' # None
      BY <2>3, <2>5
    <3>2. accepted' = taken' \o <<event'>>
      BY <1>1, <2>1, <2>3, <2>5, AppendEmpty
    <3>3. NoOverwrite'
      BY <3>1, <3>2 DEF NoOverwrite
    <3> QED
      BY <1>1, <2>1, <3>3
  <2> QED
    BY <1>5, <2>4, <2>5 DEF InjectInterrupt, InjectThen
<1>6. CASE RunCancelled
  BY <1>1, <1>6 DEF RunCancelled
<1>7. CASE EnterGuest
  <2>1. CASE event = None
    BY <1>1, <1>2, <1>7, <2>1 DEF EnterGuest
  <2>2. CASE event # None
    <3>1. /\ event \in Vectors /\ taken' = Append(taken, event)
          /\ accepted' = accepted /\ event' = None /\ cancel' = cancel
          /\ pc' = "guest"
      BY <1>1, <1>7, <2>2 DEF EnterGuest
    <3>2. accepted = taken \o <<event>>
      BY <1>1, <2>2 DEF NoOverwrite
    <3>3. accepted' = taken' \o <<>>
      <4>1. taken' \in Seq(Vectors) /\ taken' = accepted'
        BY <1>1, <3>1, <3>2, AppendEmpty
      <4> QED
        BY <4>1, <3>1, AppendEmpty
    <3>4. NoOverwrite'
      BY <3>1, <3>3 DEF NoOverwrite
    <3> QED
      BY <1>1, <3>1, <3>4
  <2> QED
    BY <2>1, <2>2
<1>8. CASE GuestEnablesInterrupts \/ GuestDisablesInterrupts
           \/ HypervisorExit \/ GuestExit
  BY <1>1, <1>2, <1>8 DEF GuestEnablesInterrupts, GuestDisablesInterrupts,
     HypervisorExit, GuestExit, VcpuExit
<1> QED
  BY <1>3, <1>4, <1>5, <1>6, <1>7, <1>8 DEF Next, CpuStep

LEMMA WaitingStep == IInv /\ WaitingInv /\ [Next]_vars => WaitingInv'
<1> SUFFICES ASSUME IInv, WaitingInv, [Next]_vars PROVE WaitingInv'
  OBVIOUS
<1>1. burst \in Nat /\ call \in [Raisers -> {"none", "push", "notify"}]
      /\ backend \in Backends
  BY DEF IInv, TypeOK, CountersOK
<1> USE DEF WaitingInv, queueVars, guestVars
\* A thread that has the mutex keeps the guest excused until it cancels the run.
<1>2. ASSUME NEW t \in Raisers, NEW v \in Vectors, InterruptLock(t, v)
      PROVE  WaitingInv'
  BY <1>1, <1>2 DEF InterruptLock
<1>3. ASSUME NEW t \in Raisers, InterruptPush(t) PROVE WaitingInv'
  BY <1>1, <1>3 DEF InterruptPush
<1>4. ASSUME NEW t \in Raisers, InterruptNotify(t) PROVE WaitingInv'
  BY <1>1, <1>4 DEF InterruptNotify, InterruptImplCancels
<1>5. CASE RefillCredits \/ Continue \/ StopEmulation
  BY <1>5 DEF RefillCredits, Continue, StopEmulation
\* The queue was seen empty: either it is, or a push is in progress.
<1>6. CASE TestQueue
  <2>1. \/ pc' = "afford"
        \/ /\ pc' = "enter" /\ UNCHANGED <<pending, call, cancel, backend>>
           /\ \/ ~CanInjectInterrupt
              \/ pending = <<>>
              \/ \E t \in Raisers : call[t] = "push"
    BY <1>6 DEF TestQueue, SizeReads
  <2> QED
    BY <1>6, <2>1 DEF CanInjectInterrupt
<1>7. CASE SpendCredits
  <2>1. \/ pc' = "lock" /\ burst' = burst + 1
        \/ /\ pc' = "enter"
           /\ UNCHANGED <<pending, call, cancel, backend, credits>>
           /\ \/ ~Affordable
              \/ pending = <<>>
              \/ \E t \in Raisers : call[t] = "push"
    BY <1>7 DEF SpendCredits, SizeReads
  <2> QED
    BY <1>1, <2>1 DEF Affordable
<1>8. CASE LockQueue \/ InjectInterrupt
  BY <1>8 DEF LockQueue, InjectInterrupt, InjectThen
<1>9. CASE RunCancelled \/ HypervisorExit \/ GuestExit
  BY <1>9 DEF RunCancelled, HypervisorExit, GuestExit, VcpuExit
<1>10. CASE EnterGuest
  BY <1>10 DEF EnterGuest, Affordable
<1>11. CASE GuestEnablesInterrupts \/ GuestDisablesInterrupts \/ UNCHANGED vars
  BY <1>11 DEF GuestEnablesInterrupts, GuestDisablesInterrupts, vars, Affordable
<1> QED
  BY <1>2, <1>3, <1>4, <1>5, <1>6, <1>7, <1>8, <1>9, <1>10, <1>11
  DEF Next, Raise, CpuStep

\* A vector accepted by KVM or HAXM waits for nothing but the next entry, which
\* a guest with interrupts enabled makes, and is never overwritten; a WHVP guest
\* is not left running with a vector in the queue.
THEOREM DeliveryIsSound == SafeSpec => []DeliverySound
<1>1. Init => TunnelInv /\ WaitingInv
  <2> SUFFICES ASSUME Init PROVE TunnelInv /\ WaitingInv
    OBVIOUS
  <2>1. NoOverwrite
    <3>1. accepted = <<>> /\ taken = <<>> /\ event = None
      BY DEF Init
    <3> QED
      BY <3>1 DEF NoOverwrite
  <2> QED
    BY <2>1 DEF Init, TunnelInv, WaitingInv
<1>2. IInv /\ TunnelInv /\ WaitingInv => DeliverySound
  <2> SUFFICES ASSUME IInv, TunnelInv, WaitingInv PROVE DeliverySound
    OBVIOUS
  <2>1. TunnelKeepsEvent /\ DeliveredOnlyIfEnabled
    BY DEF TunnelInv, TunnelKeepsEvent, DeliveredOnlyIfEnabled
  <2>2. WhvpLeavesForVector
    BY DEF WaitingInv, WhvpLeavesForVector
  <2> QED
    BY <2>1, <2>2 DEF DeliverySound, IInv
<1> QED
  BY <1>1, <1>2, TunnelStep, WaitingStep, Inductive, PTL DEF SafeSpec
-----------------------------------------------------------------------------
(* The queue implements InterruptDelivery.                                  *)

LEMMA AppendConcat ==
  \A p, q \in Seq(Vectors), v \in Vectors :
     Append(p \o q, v) = p \o Append(q, v)
OBVIOUS

LEMMA ShiftHead ==
  ASSUME NEW S, NEW p \in Seq(S), NEW q \in Seq(S), q # <<>>
  PROVE  /\ Append(p, Head(q)) \o Tail(q) = p \o q
         /\ Len(p) < Len(p \o q)
         /\ (p \o q)[Len(p) + 1] = Head(q)
OBVIOUS

\* A thread about to push still has room under the bound of the model.
RoomInv == \A t \in Raisers : call[t] = "push" => Len(raised) < MaxRaised

FifoInv == QueueIsFifo /\ RoomInv

LEMMA FifoStep == IInv /\ FifoInv /\ [Next]_vars => FifoInv'
<1> SUFFICES ASSUME IInv, FifoInv, [Next]_vars PROVE FifoInv'
  OBVIOUS
<1>1. ASSUME NEW t \in Raisers, NEW v \in Vectors, InterruptLock(t, v)
      PROVE  FifoInv'
  BY <1>1 DEF InterruptLock, FifoInv, QueueIsFifo, RoomInv, IInv, TypeOK
<1>2. ASSUME NEW t \in Raisers, InterruptPush(t) PROVE FifoInv'
  <2>1. /\ pending \in Seq(Vectors) /\ popped \in Seq(Vectors)
        /\ vector[t] \in Vectors /\ raised = popped \o pending
    BY <1>2 DEF InterruptPush, IInv, TypeOK, FifoInv, QueueIsFifo
  <2>2. raised' = Append(popped \o pending, vector[t])
    BY <1>2, <2>1 DEF InterruptPush
  <2>3. raised' = popped \o Append(pending, vector[t])
    <3>1. Append(popped \o pending, vector[t])
            = popped \o Append(pending, vector[t])
      BY <2>1, AppendConcat
    <3> QED
      BY <2>2, <3>1
  <2>4. QueueIsFifo'
    BY <1>2, <2>3 DEF InterruptPush, QueueIsFifo
  <2>5. \A s \in Raisers : call'[s] # "push"
    BY <1>2 DEF InterruptPush, IInv, TypeOK, MutexInv
  <2> QED
    BY <2>4, <2>5 DEF FifoInv, RoomInv
<1>3. ASSUME NEW t \in Raisers, InterruptNotify(t) PROVE FifoInv'
  BY <1>3 DEF InterruptNotify, FifoInv, QueueIsFifo, RoomInv, IInv, TypeOK
<1>4. CASE InjectInterrupt
  <2>1. pending \in Seq(Vectors) /\ popped \in Seq(Vectors) /\ pending # <<>>
    BY <1>4 DEF InjectInterrupt, InjectThen, IInv, TypeOK, WorkInv
  <2>2. QueueIsFifo'
    BY <1>4, <2>1, ShiftHead
    DEF InjectInterrupt, InjectThen, FifoInv, QueueIsFifo
  <2> QED
    BY <1>4, <2>2 DEF InjectInterrupt, InjectThen, FifoInv, RoomInv
<1>5. ASSUME UNCHANGED <<raised, popped, pending, call>> PROVE FifoInv'
  BY <1>5 DEF FifoInv, QueueIsFifo, RoomInv
<1>6. CASE RefillCredits \/ TestQueue \/ SpendCredits \/ LockQueue
           \/ RunCancelled \/ EnterGuest \/ Continue \/ StopEmulation
           \/ GuestEnablesInterrupts \/ GuestDisablesInterrupts
           \/ HypervisorExit \/ GuestExit \/ UNCHANGED vars
  BY <1>5, <1>6 DEF RefillCredits, TestQueue, SpendCredits, LockQueue,
     RunCancelled, EnterGuest, Continue, StopEmulation,
     GuestEnablesInterrupts, GuestDisablesInterrupts, HypervisorExit,
     GuestExit, VcpuExit, queueVars, vars
<1> QED
  BY <1>1, <1>2, <1>3, <1>4, <1>6 DEF Next, Raise, CpuStep

LEMMA FifoInductive == SafeSpec => []FifoInv
<1>1. Init => FifoInv
  <2> SUFFICES ASSUME Init PROVE FifoInv
    OBVIOUS
  <2>1. raised = <<>> /\ popped = <<>> /\ pending = <<>>
    BY DEF Init
  <2>2. QueueIsFifo
    BY <2>1 DEF QueueIsFifo
  <2> QED
    BY <2>2 DEF Init, FifoInv, RoomInv
<1> QED
  BY <1>1, FifoStep, Inductive, PTL DEF SafeSpec

\* No vector is dropped, duplicated or overtaken between push and pop.
THEOREM QueueOrder == SafeSpec => []QueueIsFifo
<1>1. FifoInv => QueueIsFifo
  BY DEF FifoInv
<1> QED
  BY <1>1, FifoInductive, PTL

\* The initial states of the queue are initial states of InterruptDelivery, and
\* each of its steps is a step of InterruptDelivery or a stuttering step.
THEOREM ImplementsDelivery == SafeSpec => Delivery!SafeSpec
<1>1. Init => Delivery!Init
  BY DEF Init, Delivery!Init
<1>2. IInv /\ FifoInv /\ [Next]_vars => [Delivery!Next]_Delivery!vars
  <2> SUFFICES ASSUME IInv, FifoInv, [Next]_vars
               PROVE  [Delivery!Next]_Delivery!vars
    OBVIOUS
  <2>1. ASSUME NEW t \in Raisers, InterruptPush(t) PROVE Delivery!Next
    <3>1. vector[t] \in Vectors /\ Len(raised) < MaxRaised
      BY <2>1 DEF InterruptPush, IInv, TypeOK, FifoInv, RoomInv
    <3>2. Delivery!Raise(vector[t])
      BY <2>1, <3>1 DEF InterruptPush, Delivery!Raise
    <3> QED
      BY <3>1, <3>2 DEF Delivery!Next
  <2>2. CASE InjectInterrupt
    <3>1. /\ pending \in Seq(Vectors) /\ popped \in Seq(Vectors)
          /\ pending # <<>> /\ raised = popped \o pending
      BY <2>2 DEF InjectInterrupt, InjectThen, IInv, TypeOK, WorkInv, FifoInv,
                  QueueIsFifo
    <3>2. Len(popped) < Len(raised) /\ raised[Len(popped) + 1] = Head(pending)
      BY <3>1, ShiftHead
    <3>3. Delivery!Handle
      BY <2>2, <3>2 DEF InjectInterrupt, InjectThen, Delivery!Handle
    <3> QED
      BY <3>3 DEF Delivery!Next
  <2>3. CASE StopEmulation
    BY <2>3 DEF StopEmulation, queueVars, Delivery!Halt, Delivery!Next
  <2>4. ASSUME UNCHANGED <<raised, popped>>,
               pc = "stopped" <=> pc' = "stopped"
        PROVE  UNCHANGED Delivery!vars
    BY <2>4 DEF Delivery!vars
  <2>5. CASE RefillCredits \/ TestQueue \/ SpendCredits \/ LockQueue
             \/ RunCancelled \/ EnterGuest \/ Continue
             \/ GuestEnablesInterrupts \/ GuestDisablesInterrupts
             \/ HypervisorExit \/ GuestExit \/ UNCHANGED vars
    BY <2>4, <2>5 DEF RefillCredits, TestQueue, SpendCredits, LockQueue,
       RunCancelled, EnterGuest, Continue, GuestEnablesInterrupts,
       GuestDisablesInterrupts, HypervisorExit, GuestExit, VcpuExit,
       queueVars, vars
  <2>6. ASSUME NEW t \in Raisers,
               (\E v \in Vectors : InterruptLock(t, v)) \/ InterruptNotify(t)
        PROVE  UNCHANGED Delivery!vars
    BY <2>4, <2>6 DEF InterruptLock, InterruptNotify
  <2> QED
    BY <2>1, <2>2, <2>3, <2>5, <2>6 DEF Next, Raise, CpuStep
<1> QED
  BY <1>1, <1>2, FifoInductive, Inductive, PTL DEF SafeSpec, Delivery!SafeSpec
=============================================================================
