-------------------------- MODULE SerialComm_proofs --------------------------
(***************************************************************************)
(* The two threads of the host serial port, for a queue of any size and    *)
(* any number of requests, bytes, breaks and failures of Windows.          *)
(***************************************************************************)
EXTENDS SerialComm, Integers, TLAPS

\* What is left of a call of the emulator, by the call.
Requesting == {WriteSteps, <<"notify">>}
Setting    == {SettingsSteps, <<"line", "apply">>, <<"apply">>}
BeforePill == {<<"event", "pill", "notify", "delete">>,
               <<"pill", "notify", "delete">>}
AfterPill  == {<<"notify", "delete">>, <<"delete">>, <<>>}

\* A request is queued only while the port runs, and the pill only afterwards:
\* Stop() is the last call.
OwnerInv ==
    /\ owner \in Requesting \cup Setting \cup {StopSteps} \cup BeforePill
                 \cup AfterPill
    /\ owner \in Requesting \cup Setting \cup {StopSteps} => running
    /\ owner \in BeforePill => ~running
    /\ (\E i \in 1 .. Len(queue) : queue[i] = Pill)
         => ~running /\ owner \in AfterPill

WriterTypes ==
    /\ running \in BOOLEAN /\ stopEvent \in BOOLEAN /\ applyEvent \in BOOLEAN
    /\ reqEvent \in BOOLEAN
    /\ next \in Nat \ {0} /\ queue \in Seq(Nat) /\ dropped \subseteq Nat
    /\ cur \in Nat /\ sent \in Seq(Nat)
    /\ writeOp \in Operations
    /\ (cur = Pill) = (writeOp = "none")

\* The queue ends with the newest request and has every request since the one
\* at its front; only the pill goes in front of it.
QueueInv ==
    /\ \A i \in 1 .. Len(queue) : queue[i] # Pill => queue[i] = next - 1 - Len(queue) + i
    /\ \A i \in 2 .. Len(queue) : queue[i] # Pill

\* What was sent is older than what is being sent, and that is older than what
\* is queued.
SentInv ==
    /\ WritesInOrder
    /\ \A i \in 1 .. Len(sent) :
         /\ sent[i] < next
         /\ \A j \in 1 .. Len(queue) : queue[j] # Pill => sent[i] < queue[j]
         /\ writeOp = "pending" => sent[i] < cur
    /\ cur < next
    /\ \A j \in 1 .. Len(queue) : queue[j] # Pill => cur < queue[j]
    /\ writer \in {"look", "sleep", "pop"} => cur = Pill

WriterInv == WriterTypes /\ OwnerInv /\ QueueInv /\ SentInv /\ OnlyOldestDropped
-----------------------------------------------------------------------------
\* Sequences: what Append, Tail and a new front do to the elements.
LEMMA AppendElements ==
  ASSUME NEW S, NEW s \in Seq(S), NEW e \in S
  PROVE  /\ Append(s, e) \in Seq(S)
         /\ Len(Append(s, e)) = Len(s) + 1
         /\ \A i \in 1 .. Len(s) : Append(s, e)[i] = s[i]
         /\ Append(s, e)[Len(s) + 1] = e
OBVIOUS

LEMMA TailElements ==
  ASSUME NEW S, NEW s \in Seq(S), s # <<>>
  PROVE  /\ Head(s) \in S /\ Head(s) = s[1]
         /\ Tail(s) \in Seq(S)
         /\ Len(Tail(s)) = Len(s) - 1 /\ Len(s) >= 1
         /\ \A i \in 1 .. Len(Tail(s)) : Tail(s)[i] = s[i + 1]
OBVIOUS

LEMMA FrontElements ==
  ASSUME NEW S, NEW s \in Seq(S), NEW e \in S
  PROVE  /\ <<e>> \o s \in Seq(S)
         /\ Len(<<e>> \o s) = Len(s) + 1
         /\ (<<e>> \o s)[1] = e
         /\ \A i \in 2 .. Len(s) + 1 : (<<e>> \o s)[i] = s[i - 1]
OBVIOUS

\* The next step of a call, and what is left after it.
LEMMA NextStep ==
  ASSUME OwnerInv, owner # <<>>
  PROVE  \/ /\ owner = WriteSteps
            /\ Head(owner) = "push" /\ Tail(owner) = <<"notify">>
         \/ /\ owner \in Requesting
            /\ Head(owner) = "notify" /\ Tail(owner) = <<>>
         \/ /\ owner \in Setting
            /\ Head(owner) \in {"baud", "line", "apply"}
            /\ Tail(owner) \in Setting \cup {<<>>}
         \/ /\ owner = StopSteps
            /\ Head(owner) = "flag" /\ Tail(owner) \in BeforePill
         \/ /\ owner \in BeforePill
            /\ Head(owner) = "event" /\ Tail(owner) \in BeforePill
         \/ /\ owner \in BeforePill
            /\ Head(owner) = "pill" /\ Tail(owner) = <<"notify", "delete">>
         \/ /\ owner \in AfterPill
            /\ Head(owner) \in {"notify", "delete"}
            /\ Tail(owner) \in AfterPill
<1>1. CASE owner = WriteSteps
  <2>1. Head(owner) = "push" /\ Tail(owner) = <<"notify">>
    BY <1>1 DEF WriteSteps
  <2> QED
    BY <1>1, <2>1 DEF Requesting
<1>2. CASE owner = <<"notify">>
  <2>1. Head(owner) = "notify" /\ Tail(owner) = <<>>
    BY <1>2
  <2> QED
    BY <1>2, <2>1 DEF Requesting
<1>3. CASE owner = SettingsSteps
  <2>1. Head(owner) = "baud" /\ Tail(owner) = <<"line", "apply">>
    BY <1>3 DEF SettingsSteps
  <2> QED
    BY <1>3, <2>1 DEF Setting
<1>4. CASE owner = <<"line", "apply">>
  <2>1. Head(owner) = "line" /\ Tail(owner) = <<"apply">>
    BY <1>4
  <2> QED
    BY <1>4, <2>1 DEF Setting
<1>5. CASE owner = <<"apply">>
  <2>1. Head(owner) = "apply" /\ Tail(owner) = <<>>
    BY <1>5
  <2> QED
    BY <1>5, <2>1 DEF Setting
<1>6. CASE owner = StopSteps
  <2>1. Head(owner) = "flag" /\ Tail(owner) = <<"event", "pill", "notify", "delete">>
    BY <1>6 DEF StopSteps
  <2> QED
    BY <1>6, <2>1 DEF BeforePill, StopSteps
<1>7. CASE owner = <<"event", "pill", "notify", "delete">>
  <2>1. Head(owner) = "event" /\ Tail(owner) = <<"pill", "notify", "delete">>
    BY <1>7
  <2> QED
    BY <1>7, <2>1 DEF BeforePill
<1>8. CASE owner = <<"pill", "notify", "delete">>
  <2>1. Head(owner) = "pill" /\ Tail(owner) = <<"notify", "delete">>
    BY <1>8
  <2> QED
    BY <1>8, <2>1 DEF BeforePill
<1>9. CASE owner = <<"notify", "delete">>
  <2>1. Head(owner) = "notify" /\ Tail(owner) = <<"delete">>
    BY <1>9
  <2> QED
    BY <1>9, <2>1 DEF AfterPill
<1>10. CASE owner = <<"delete">>
  <2>1. Head(owner) = "delete" /\ Tail(owner) = <<>>
    BY <1>10
  <2> QED
    BY <1>10, <2>1 DEF AfterPill
<1> QED
  BY <1>1, <1>2, <1>3, <1>4, <1>5, <1>6, <1>7, <1>8, <1>9, <1>10
  DEF OwnerInv, Requesting, Setting, BeforePill, AfterPill
-----------------------------------------------------------------------------
\* Write(): while the port runs there is no pill in the queue, so the request
\* that a full queue loses is the one at the front, the oldest.
LEMMA PushKeeps ==
  ASSUME WriterInv, running, Push,
         UNCHANGED <<running, writer, cur, writeOp, sent>>
  PROVE  /\ next' \in Nat \ {0} /\ queue' \in Seq(Nat) /\ dropped' \subseteq Nat
         /\ reqEvent' \in BOOLEAN
         /\ \A i \in 1 .. Len(queue') : queue'[i] # Pill
         /\ QueueInv' /\ SentInv' /\ OnlyOldestDropped'
<1> DEFINE q == Enqueued(queue)
           full == Len(q) >= QueueSize
<1> HIDE DEF q, full
<1>1. /\ next \in Nat \ {0} /\ queue \in Seq(Nat) /\ next \in Nat
      /\ QueueSize \in Nat /\ QueueSize > 1
  BY SerialCommAssumption DEF WriterInv, WriterTypes
<1>2. /\ q \in Seq(Nat) /\ Len(q) = Len(queue) + 1 /\ Len(queue) \in Nat
      /\ \A i \in 1 .. Len(queue) : q[i] = queue[i]
      /\ q[Len(queue) + 1] = next
  BY <1>1, AppendElements DEF Enqueued, q
<1>3. \A i \in 1 .. Len(queue) : queue[i] # Pill
  BY DEF WriterInv, OwnerInv
<1>4. \A i \in 1 .. Len(queue) : queue[i] = next - 1 - Len(queue) + i
  BY <1>3 DEF WriterInv, QueueInv
<1>5. ASSUME NEW i \in 1 .. Len(q)
      PROVE  q[i] = next - Len(q) + i /\ q[i] # Pill /\ q[i] \in Nat
  <2>1. CASE i \in 1 .. Len(queue)
    <3>1. q[i] = queue[i] /\ queue[i] \in Nat
      BY <1>1, <1>2, <2>1
    <3>2. queue[i] # Pill /\ queue[i] = next - 1 - Len(queue) + i
      BY <1>3, <1>4, <2>1
    <3>3. Len(q) = Len(queue) + 1 /\ i \in Int
      BY <1>2
    <3> QED
      BY <1>1, <1>2, <3>1, <3>2, <3>3
  <2>2. CASE i = Len(queue) + 1
    BY <1>1, <1>2, <2>2 DEF Pill
  <2> QED
    BY <1>2, <2>1, <2>2
<1>6. q # <<>> /\ 1 \in 1 .. Len(q)
  BY <1>2
<1>7. /\ Head(q) = q[1] /\ Head(q) # Pill /\ Tail(q) \in Seq(Nat)
      /\ Len(Tail(q)) = Len(q) - 1
      /\ \A i \in 1 .. Len(Tail(q)) : Tail(q)[i] = q[i + 1]
  BY <1>2, <1>5, <1>6, TailElements
<1>8. queue' = IF full THEN Tail(q) ELSE q
  BY <1>7 DEF Push, Discarded, q, full
<1> HIDE DEF full
<1>9. next' = next + 1 /\ reqEvent' = TRUE
  BY DEF Push
<1>10. ASSUME NEW i \in 1 .. Len(queue')
      PROVE  queue'[i] = next' - 1 - Len(queue') + i /\ queue'[i] # Pill
  <2>1. CASE full
    <3>1. queue' = Tail(q) /\ Len(queue') = Len(q) - 1 /\ Len(q) \in Nat
      BY <1>2, <1>7, <1>8, <2>1
    <3>2. i \in 1 .. Len(Tail(q)) /\ i + 1 \in 1 .. Len(q) /\ i \in Int
      BY <3>1
    <3>3. queue'[i] = q[i + 1]
      BY <1>7, <3>1, <3>2
    <3>4. q[i + 1] = next - Len(q) + (i + 1) /\ q[i + 1] # Pill
      BY <1>5, <3>2
    <3>5. next - Len(q) + (i + 1) = next' - 1 - Len(queue') + i
      <4>1. next' = next + 1 /\ next \in Int /\ i \in Int
        BY <1>1, <1>9, <3>2
      <4>2. Len(queue') = Len(q) - 1 /\ Len(q) \in Int
        BY <3>1
      <4> QED
        BY <4>1, <4>2
    <3> QED
      BY <3>3, <3>4, <3>5
  <2>2. CASE ~full
    <3>1. queue' = q /\ Len(q) \in Nat /\ i \in Int
      BY <1>2, <1>8, <2>2
    <3>2. q[i] = next - Len(q) + i /\ q[i] # Pill
      BY <1>5, <3>1
    <3> QED
      BY <1>1, <1>9, <3>1, <3>2
  <2> QED
    BY <2>1, <2>2
<1>11. queue' \in Seq(Nat) /\ Len(queue') \in Nat
  BY <1>2, <1>7, <1>8
<1>12. QueueInv'
  BY <1>10, <1>11 DEF QueueInv
\* What is left in the queue was there before or is the new request.
<1>13. ASSUME NEW j \in 1 .. Len(queue')
       PROVE  \/ queue'[j] = next
              \/ \E k \in 1 .. Len(queue) : queue'[j] = queue[k]
  <2>1. PICK k \in 1 .. Len(q) : queue'[j] = q[k]
    <3>1. CASE full
      <4>1. j + 1 \in 1 .. Len(q)
        BY <1>2, <1>7, <1>8, <3>1
      <4> QED
        BY <1>7, <1>8, <3>1, <4>1
    <3>2. CASE ~full
      BY <1>8, <3>2
    <3> QED
      BY <3>1, <3>2
  <2>2. CASE k \in 1 .. Len(queue)
    BY <1>2, <2>1, <2>2
  <2>3. CASE k = Len(queue) + 1
    BY <1>2, <2>1, <2>3
  <2> QED
    BY <1>2, <2>2, <2>3
<1>14. SentInv'
  <2>1. ASSUME NEW j \in 1 .. Len(queue')
        PROVE  /\ \A i \in 1 .. Len(sent) : sent[i] < queue'[j]
               /\ cur < queue'[j]
    BY <1>3, <1>13 DEF WriterInv, SentInv
  <2>2. /\ \A i \in 1 .. Len(sent) : sent[i] < next'
        /\ cur < next'
    <3>1. /\ \A i \in 1 .. Len(sent) : sent[i] \in Nat /\ sent[i] < next
          /\ cur \in Nat /\ cur < next
      BY DEF WriterInv, WriterTypes, SentInv
    <3> QED
      BY <1>1, <1>9, <3>1
  <2> QED
    BY <2>1, <2>2 DEF WriterInv, SentInv, WritesInOrder
<1>15. ASSUME NEW d \in dropped'
       PROVE  d \in Nat /\ d + QueueSize <= next'
  <2>1. CASE d \in dropped
    <3>1. d \in Nat /\ d + QueueSize <= next
      BY <2>1 DEF WriterInv, WriterTypes, OnlyOldestDropped
    <3> QED
      BY <1>1, <1>9, <3>1
  <2>2. CASE d \notin dropped
    <3> DEFINE Lost == {i \in 1 .. next :
                          /\ full
                          /\ \A j \in 1 .. Len(queue') : queue'[j] # i
                          /\ \E k \in 1 .. Len(q) : q[k] = i}
    <3>1. d \in Lost
      BY <2>2, Zenon DEF Push, q, full
    <3>2. /\ full /\ \A j \in 1 .. Len(queue') : queue'[j] # d
          /\ \E k \in 1 .. Len(q) : q[k] = d
      BY <3>1
    <3> HIDE DEF Lost
    <3>3. PICK k \in 1 .. Len(q) : q[k] = d
      BY <3>2
    <3>4. k = 1
      <4>1. ASSUME k # 1 PROVE FALSE
        <5>1. k - 1 \in 1 .. Len(queue') /\ queue'[k - 1] = q[k]
          BY <1>2, <1>7, <1>8, <3>2, <4>1
        <5> QED
          BY <3>2, <3>3, <5>1
      <4> QED
        BY <4>1
    <3>5. d = next - Len(q) + 1 /\ d \in Nat
      BY <1>5, <1>6, <3>3, <3>4
    <3>6. Len(q) >= QueueSize /\ Len(q) \in Nat
      BY <1>2, <3>2 DEF full
    <3> QED
      BY <1>1, <1>9, <3>5, <3>6
  <2> QED
    BY <2>1, <2>2
<1> QED
  BY <1>1, <1>9, <1>10, <1>11, <1>12, <1>14, <1>15 DEF OnlyOldestDropped

\* Stop(): the pill goes in front of all requests and moves none of them.
LEMMA PillKeeps ==
  ASSUME WriterInv, owner \in BeforePill, PushPill,
         UNCHANGED <<writer, cur, writeOp, sent>>
  PROVE  /\ queue' \in Seq(Nat) /\ UNCHANGED <<next, dropped>>
         /\ reqEvent' \in BOOLEAN
         /\ QueueInv' /\ SentInv' /\ OnlyOldestDropped'
<1>1. /\ queue \in Seq(Nat) /\ next \in Nat /\ Len(queue) \in Nat
      /\ queue' = <<Pill>> \o queue /\ Pill \in Nat
      /\ UNCHANGED <<next, dropped>> /\ reqEvent' = TRUE
  BY DEF WriterInv, WriterTypes, PushPill, Pill
<1>2. /\ queue' \in Seq(Nat) /\ Len(queue') = Len(queue) + 1
      /\ queue'[1] = Pill
      /\ \A i \in 2 .. Len(queue) + 1 : queue'[i] = queue[i - 1]
  BY <1>1, FrontElements
<1>3. \A i \in 1 .. Len(queue) :
        queue[i] # Pill /\ queue[i] = next - 1 - Len(queue) + i
  <2>1. owner \notin AfterPill
    BY DEF BeforePill, AfterPill
  <2> QED
    BY <2>1 DEF WriterInv, OwnerInv, QueueInv
<1>4. ASSUME NEW i \in 1 .. Len(queue'), i # 1
      PROVE  /\ i - 1 \in 1 .. Len(queue) /\ queue'[i] = queue[i - 1]
             /\ queue'[i] # Pill
             /\ queue'[i] = next' - 1 - Len(queue') + i
  <2>1. i - 1 \in 1 .. Len(queue) /\ queue'[i] = queue[i - 1]
    BY <1>1, <1>2, <1>4
  <2> QED
    BY <1>1, <1>2, <1>3, <2>1
<1>5. QueueInv'
  BY <1>1, <1>2, <1>4 DEF QueueInv
<1>6. SentInv'
  <2>1. ASSUME NEW j \in 1 .. Len(queue'), queue'[j] # Pill
        PROVE  /\ \A i \in 1 .. Len(sent) : sent[i] < queue'[j]
               /\ cur < queue'[j]
    <3>1. j - 1 \in 1 .. Len(queue) /\ queue'[j] = queue[j - 1]
          /\ queue[j - 1] # Pill
      BY <1>2, <1>3, <1>4, <2>1
    <3> QED
      BY <3>1 DEF WriterInv, SentInv
  <2> QED
    BY <1>1, <2>1 DEF WriterInv, SentInv, WritesInOrder
<1> QED
  BY <1>1, <1>2, <1>5, <1>6 DEF WriterInv, OnlyOldestDropped

\* A step that moves none of the writer's variables.
LEMMA WriterFramed ==
  ASSUME WriterInv, reqEvent' \in BOOLEAN, stopEvent' \in BOOLEAN,
         applyEvent' \in BOOLEAN,
         UNCHANGED <<next, queue, dropped, cur, writeOp, sent>>,
         writer' = writer \/ writer' \notin {"look", "sleep", "pop"},
         UNCHANGED <<owner, running>>
  PROVE  WriterInv'
BY DEF WriterInv, WriterTypes, OwnerInv, QueueInv, SentInv, WritesInOrder,
   OnlyOldestDropped

\* The emulator begins a call.
LEMMA CallKeeps ==
  ASSUME WriterInv,
         NEW steps \in {WriteSteps, SettingsSteps, StopSteps}, Call(steps)
  PROVE  WriterInv'
<1>1. /\ owner' = steps /\ running /\ UNCHANGED <<running, stopEvent>>
      /\ UNCHANGED <<applyEvent, next, queue, reqEvent, dropped, writer, cur,
                     writeOp, sent>>
  BY DEF Call, setVars, queueVars, writerVars
<1>2. steps \notin BeforePill
  BY DEF BeforePill, WriteSteps, SettingsSteps, StopSteps
<1>3. steps \in Requesting \cup Setting \cup {StopSteps}
  BY DEF Requesting, Setting
<1>4. OwnerInv'
  BY <1>1, <1>2, <1>3 DEF WriterInv, OwnerInv
<1> QED
  BY <1>1, <1>4 DEF WriterInv, WriterTypes, QueueInv, SentInv, WritesInOrder,
     OnlyOldestDropped

LEMMA OwnerKeeps ==
  ASSUME WriterInv, OwnerStep
  PROVE  WriterInv'
<1>1. /\ owner # <<>> /\ owner' = Tail(owner) /\ OwnerInv
      /\ UNCHANGED <<cur, writeOp, sent>>
  BY DEF OwnerStep, WriterInv
<1>2. running \in BOOLEAN /\ stopEvent \in BOOLEAN /\ applyEvent \in BOOLEAN
      /\ reqEvent \in BOOLEAN
  BY DEF WriterInv, WriterTypes
<1>3. CASE Head(owner) = "push"
  <2>1. owner = WriteSteps /\ owner' = <<"notify">> /\ running
    BY <1>1, <1>3, NextStep DEF OwnerInv, Requesting
  <2>2. Push /\ UNCHANGED <<running, stopEvent, applyEvent, writer>>
    BY <1>3 DEF OwnerStep, setVars
  <2>3. /\ next' \in Nat \ {0} /\ queue' \in Seq(Nat) /\ dropped' \subseteq Nat
        /\ reqEvent' \in BOOLEAN
        /\ \A i \in 1 .. Len(queue') : queue'[i] # Pill
        /\ QueueInv' /\ SentInv' /\ OnlyOldestDropped'
    BY <1>1, <2>1, <2>2, PushKeeps
  <2>4. OwnerInv'
    BY <2>1, <2>2, <2>3 DEF OwnerInv, Requesting, BeforePill
  <2>5. WriterTypes'
    BY <1>1, <1>2, <2>2, <2>3 DEF WriterInv, WriterTypes
  <2> QED
    BY <2>3, <2>4, <2>5 DEF WriterInv
<1>4. CASE Head(owner) = "pill"
  <2>1. owner \in BeforePill /\ owner' = <<"notify", "delete">> /\ ~running
    BY <1>1, <1>4, NextStep DEF OwnerInv
  <2>2. PushPill /\ UNCHANGED <<running, stopEvent, applyEvent, writer>>
    BY <1>4 DEF OwnerStep, setVars
  <2>3. /\ queue' \in Seq(Nat) /\ UNCHANGED <<next, dropped>>
        /\ reqEvent' \in BOOLEAN
        /\ QueueInv' /\ SentInv' /\ OnlyOldestDropped'
    BY <1>1, <2>1, <2>2, PillKeeps
  <2>4. OwnerInv'
    <3>1. owner' \in AfterPill /\ ~running'
      BY <2>1, <2>2 DEF AfterPill
    <3>2. owner' \notin Requesting \cup Setting \cup {StopSteps} \cup BeforePill
      BY <2>1 DEF Requesting, Setting, StopSteps, BeforePill, WriteSteps,
         SettingsSteps
    <3> QED
      BY <3>1, <3>2 DEF OwnerInv
  <2>5. WriterTypes'
    BY <1>1, <1>2, <2>2, <2>3 DEF WriterInv, WriterTypes
  <2> QED
    BY <2>3, <2>4, <2>5 DEF WriterInv
\* The other steps change neither the queue nor what was sent.
<1>5. CASE Head(owner) \notin {"push", "pill"}
  <2>1. /\ UNCHANGED <<next, queue, reqEvent, dropped>>
        /\ \/ writer' = writer
           \/ writer = "sleep" /\ writer' = "look"
        /\ running' = IF Head(owner) = "flag" THEN FALSE ELSE running
        /\ stopEvent' \in BOOLEAN /\ applyEvent' \in BOOLEAN
    BY <1>2, <1>5 DEF OwnerStep, queueVars, setVars, NotifyWriter
  <2>2. OwnerInv'
    <3>1. CASE owner \in Requesting /\ Head(owner) = "notify"
               /\ Tail(owner) = <<>>
      BY <1>1, <2>1, <3>1 DEF OwnerInv, AfterPill, BeforePill, Requesting,
         Setting, WriteSteps, SettingsSteps, StopSteps
    <3>2. CASE owner \in Setting /\ Head(owner) \in {"baud", "line", "apply"}
               /\ Tail(owner) \in Setting \cup {<<>>}
      <4>1. running' = running /\ running
        BY <2>1, <3>2, <1>1 DEF OwnerInv
      <4>2. \A i \in 1 .. Len(queue') : queue'[i] # Pill
        BY <1>1, <2>1, <4>1 DEF OwnerInv
      <4>3. owner' \in Setting \cup {<<>>}
        BY <1>1, <3>2
      <4>4. owner' \notin BeforePill
        BY <4>3 DEF BeforePill, Setting, SettingsSteps
      <4> QED
        BY <4>1, <4>2, <4>3, <4>4 DEF OwnerInv, AfterPill
    <3>3. CASE owner = StopSteps /\ Head(owner) = "flag"
               /\ Tail(owner) \in BeforePill
      <4>1. \A i \in 1 .. Len(queue') : queue'[i] # Pill
        BY <1>1, <2>1, <3>3 DEF OwnerInv
      <4>2. owner' \in BeforePill /\ ~running'
        BY <1>1, <2>1, <3>3
      <4>3. owner' \notin Requesting \cup Setting \cup {StopSteps}
        BY <4>2 DEF BeforePill, Requesting, Setting, StopSteps, WriteSteps,
           SettingsSteps
      <4> QED
        BY <4>1, <4>2, <4>3 DEF OwnerInv
    <3>4. CASE owner \in BeforePill /\ Head(owner) = "event"
               /\ Tail(owner) \in BeforePill
      <4>1. owner \notin AfterPill
        BY <3>4 DEF BeforePill, AfterPill
      <4>2. \A i \in 1 .. Len(queue') : queue'[i] # Pill
        BY <1>1, <2>1, <4>1 DEF OwnerInv
      <4>3. owner' \in BeforePill /\ ~running'
        BY <1>1, <2>1, <3>4 DEF OwnerInv
      <4>4. owner' \notin Requesting \cup Setting \cup {StopSteps}
        BY <4>3 DEF BeforePill, Requesting, Setting, StopSteps, WriteSteps,
           SettingsSteps
      <4> QED
        BY <4>2, <4>3, <4>4 DEF OwnerInv
    <3>5. CASE owner \in AfterPill /\ Head(owner) \in {"notify", "delete"}
               /\ Tail(owner) \in AfterPill
      <4>1. owner' \in AfterPill /\ running' = running
        BY <1>1, <2>1, <3>5
      <4>2. owner' \notin Requesting \cup Setting \cup {StopSteps} \cup BeforePill
        BY <4>1 DEF AfterPill, BeforePill, Requesting, Setting, StopSteps,
           WriteSteps, SettingsSteps
      <4> QED
        BY <1>1, <2>1, <4>1, <4>2 DEF OwnerInv
    <3> QED
      BY <1>1, <1>5, <3>1, <3>2, <3>3, <3>4, <3>5, NextStep
  <2>3. WriterTypes'
    BY <1>1, <1>2, <2>1 DEF WriterInv, WriterTypes
  <2> QED
    BY <1>1, <2>1, <2>2, <2>3 DEF WriterInv, QueueInv, SentInv, WritesInOrder,
       OnlyOldestDropped
<1> QED
  BY <1>3, <1>4, <1>5

\* The writer takes the oldest request: everything sent is older, everything
\* that stays in the queue is newer.
LEMMA PopKeeps ==
  ASSUME WriterInv, PopRequest
  PROVE  WriterInv'
<1>1. /\ writer = "pop" /\ cur = Pill /\ writeOp = "none"
      /\ UNCHANGED <<owner, running, stopEvent, applyEvent, reqEvent, next,
                     dropped>>
  BY DEF PopRequest, WriterFrame, ownerVars, setVars, WriterInv, SentInv,
     WriterTypes
<1>2. CASE queue = <<>>
  BY <1>1, <1>2, WriterFramed DEF PopRequest, WriterInv, WriterTypes
<1>3. CASE queue # <<>>
  <2>1. /\ queue \in Seq(Nat) /\ sent \in Seq(Nat) /\ next \in Nat
        /\ Len(sent) \in Nat
    BY DEF WriterInv, WriterTypes
  <2>2. /\ Head(queue) \in Nat /\ Head(queue) = queue[1]
        /\ queue' = Tail(queue) /\ queue' \in Seq(Nat)
        /\ Len(queue') = Len(queue) - 1 /\ 1 \in 1 .. Len(queue)
        /\ Len(queue) \in Nat
        /\ \A i \in 1 .. Len(queue') : queue'[i] = queue[i + 1]
    <3>1. queue' = Tail(queue)
      BY <1>3 DEF PopRequest
    <3> QED
      BY <1>3, <2>1, <3>1, TailElements
  <2>3. ASSUME NEW i \in 1 .. Len(queue')
        PROVE  /\ i + 1 \in 2 .. Len(queue) /\ i + 1 \in 1 .. Len(queue)
               /\ queue'[i] = queue[i + 1] /\ queue'[i] # Pill
               /\ queue'[i] = next - 1 - Len(queue') + i
    <3>1. i + 1 \in 2 .. Len(queue) /\ i + 1 \in 1 .. Len(queue)
      BY <2>2
    <3>2. /\ queue[i + 1] # Pill
          /\ queue[i + 1] = next - 1 - Len(queue) + (i + 1)
      BY <3>1 DEF WriterInv, QueueInv
    <3> QED
      BY <2>1, <2>2, <3>1, <3>2
  <2>4. QueueInv'
    <3>1. \A i \in 2 .. Len(queue') : i \in 1 .. Len(queue')
      BY <2>2
    <3>2. next' = next
      BY <1>1
    <3> QED
      BY <2>3, <3>1, <3>2 DEF QueueInv
  <2>5. OwnerInv'
    BY <1>1, <2>3 DEF WriterInv, OwnerInv
  <2>6. CASE Head(queue) = Pill
    <3>1. writer' = "done" /\ UNCHANGED <<cur, writeOp, sent>>
      BY <1>3, <2>6 DEF PopRequest
    <3>2. SentInv'
      BY <1>1, <2>3, <3>1 DEF WriterInv, SentInv, WritesInOrder
    <3> QED
      BY <1>1, <2>2, <2>4, <2>5, <3>1, <3>2
      DEF WriterInv, WriterTypes, OnlyOldestDropped
  <2>7. CASE Head(queue) # Pill
    <3> DEFINE r == Head(queue)
    <3>1. /\ r \in Nat /\ r # Pill
          /\ r = next - Len(queue)
      BY <2>1, <2>2, <2>7 DEF WriterInv, QueueInv
    <3>2. r < next
      BY <2>1, <2>2, <3>1
    <3>3. \A j \in 1 .. Len(queue') : r < queue'[j]
      BY <2>1, <2>2, <2>3, <3>1
    <3>4. \A i \in 1 .. Len(sent) :
            /\ sent[i] \in Nat /\ sent[i] < r /\ sent[i] < next
            /\ \A j \in 1 .. Len(queue') : sent[i] < queue'[j]
      BY <2>1, <2>2, <2>3, <2>7 DEF WriterInv, SentInv
    <3>5. \A j \in 1 .. Len(queue') : cur < queue'[j]
      BY <2>2, <2>3 DEF WriterInv, SentInv
    <3>6. StartWrite(r)
      BY <1>3, <2>7 DEF PopRequest
    <3> HIDE DEF r
    <3>7. WriterTypes' /\ SentInv'
      <4>1. CASE sent' = Append(sent, r) /\ writer' = "test"
                 /\ UNCHANGED <<cur, writeOp>>
        <5>1. /\ sent' \in Seq(Nat) /\ Len(sent') = Len(sent) + 1
              /\ \A i \in 1 .. Len(sent) : sent'[i] = sent[i]
              /\ sent'[Len(sent) + 1] = r
          BY <2>1, <3>1, <4>1, AppendElements
        <5>2. ASSUME NEW i \in 1 .. Len(sent')
              PROVE  /\ sent'[i] < next'
                     /\ \A j \in 1 .. Len(queue') : sent'[i] < queue'[j]
          <6>1. CASE i \in 1 .. Len(sent)
            BY <1>1, <3>4, <5>1, <6>1
          <6>2. CASE i = Len(sent) + 1
            BY <1>1, <3>2, <3>3, <5>1, <6>2
          <6> QED
            BY <2>1, <5>1, <6>1, <6>2
        <5>3. WritesInOrder'
          <6>1. ASSUME NEW i \in 1 .. Len(sent'), NEW j \in 1 .. Len(sent'),
                       i < j
                PROVE  sent'[i] < sent'[j]
            <7>1. i \in 1 .. Len(sent)
              BY <2>1, <5>1, <6>1
            <7>2. CASE j \in 1 .. Len(sent)
              BY <5>1, <6>1, <7>1, <7>2 DEF WriterInv, SentInv, WritesInOrder
            <7>3. CASE j = Len(sent) + 1
              BY <3>4, <5>1, <7>1, <7>3
            <7> QED
              BY <2>1, <5>1, <7>2, <7>3
          <6> QED
            BY <6>1 DEF WritesInOrder
        <5> QED
          BY <1>1, <2>2, <3>5, <4>1, <5>1, <5>2, <5>3
          DEF WriterInv, WriterTypes, SentInv
      <4>2. CASE cur' = r /\ writeOp' = "pending" /\ writer' = "wait"
                 /\ UNCHANGED sent
        BY <1>1, <2>2, <3>1, <3>2, <3>3, <3>4, <4>2
        DEF WriterInv, WriterTypes, SentInv, WritesInOrder, Operations
      <4>3. CASE writer' = "test" /\ UNCHANGED <<cur, writeOp, sent>>
        BY <1>1, <2>2, <3>4, <3>5, <4>3
        DEF WriterInv, WriterTypes, SentInv, WritesInOrder
      <4> QED
        BY <3>6, <4>1, <4>2, <4>3 DEF StartWrite
    <3> QED
      BY <1>1, <2>4, <2>5, <3>7 DEF WriterInv, OnlyOldestDropped
  <2> QED
    BY <2>6, <2>7
<1> QED
  BY <1>2, <1>3

\* The overlapped write ends: its request is newer than all that was sent.
LEMMA CompletionKeeps ==
  ASSUME WriterInv, WriteCompletes
  PROVE  WriterInv'
<1>1. /\ writeOp = "pending"
      /\ UNCHANGED <<owner, running, stopEvent, applyEvent, reqEvent, next,
                     dropped, queue, cur, writer>>
  BY DEF WriteCompletes, WriterFrame, ownerVars, setVars
<1>2. OwnerInv' /\ QueueInv' /\ OnlyOldestDropped'
  BY <1>1 DEF WriterInv, OwnerInv, QueueInv, OnlyOldestDropped
<1>3. CASE writeOp' = "failed" /\ UNCHANGED sent
  BY <1>1, <1>2, <1>3
  DEF WriterInv, WriterTypes, SentInv, WritesInOrder, Operations
<1>4. CASE writeOp' = "done" /\ sent' = Append(sent, cur)
  <2>1. cur \in Nat /\ sent \in Seq(Nat) /\ Len(sent) \in Nat
    BY DEF WriterInv, WriterTypes
  <2>2. /\ sent' \in Seq(Nat) /\ Len(sent') = Len(sent) + 1
        /\ \A i \in 1 .. Len(sent) : sent'[i] = sent[i]
        /\ sent'[Len(sent) + 1] = cur
    BY <1>4, <2>1, AppendElements
  <2>3. ASSUME NEW i \in 1 .. Len(sent')
        PROVE  /\ sent'[i] < next
               /\ \A j \in 1 .. Len(queue) : queue[j] # Pill => sent'[i] < queue[j]
    <3>1. CASE i \in 1 .. Len(sent)
      BY <2>2, <3>1 DEF WriterInv, SentInv
    <3>2. CASE i = Len(sent) + 1
      BY <2>2, <3>2 DEF WriterInv, SentInv
    <3> QED
      BY <2>1, <2>2, <3>1, <3>2
  <2>4. WritesInOrder'
    <3>1. ASSUME NEW i \in 1 .. Len(sent'), NEW j \in 1 .. Len(sent'), i < j
          PROVE  sent'[i] < sent'[j]
      <4>1. i \in 1 .. Len(sent)
        BY <2>1, <2>2, <3>1
      <4>2. CASE j \in 1 .. Len(sent)
        BY <2>2, <3>1, <4>1, <4>2 DEF WriterInv, SentInv, WritesInOrder
      <4>3. CASE j = Len(sent) + 1
        BY <1>1, <2>2, <4>1, <4>3 DEF WriterInv, SentInv
      <4> QED
        BY <2>1, <2>2, <4>2, <4>3
    <3> QED
      BY <3>1 DEF WritesInOrder
  <2>5. SentInv'
    BY <1>1, <1>4, <2>3, <2>4 DEF WriterInv, SentInv
  <2>6. WriterTypes'
    BY <1>1, <1>4, <2>2 DEF WriterInv, WriterTypes, Operations
  <2> QED
    BY <1>2, <2>5, <2>6 DEF WriterInv
<1> QED
  BY <1>3, <1>4 DEF WriteCompletes

LEMMA WriterKeeps ==
  ASSUME WriterInv, WriterStep
  PROVE  WriterInv'
<1>1. UNCHANGED <<owner, running, stopEvent, applyEvent, next, dropped>>
  BY DEF WriterStep, WriterTest, LookForRequest, PopRequest, WaitWriter,
     WriterFrame, ownerVars, setVars
<1>2. CASE WriterTest \/ LookForRequest
  <2>1. /\ UNCHANGED <<cur, writeOp, sent, queue, reqEvent>>
        /\ writer' \in {"look", "sleep", "pop"} => cur = Pill
    BY <1>2 DEF WriterTest, LookForRequest, WriterInv, SentInv
  <2> QED
    BY <1>1, <2>1 DEF WriterInv, WriterTypes, OwnerInv, QueueInv, SentInv,
       WritesInOrder, OnlyOldestDropped
<1>3. CASE WaitWriter
  <2>1. /\ writer' = "test" /\ UNCHANGED <<sent, queue>>
        /\ reqEvent' \in BOOLEAN
        /\ \/ UNCHANGED <<cur, writeOp>>
           \/ writeOp' = "none" /\ cur' = Pill
    BY <1>3 DEF WaitWriter, WriteFinished, WriterInv, WriterTypes
  <2>2. CASE UNCHANGED <<cur, writeOp>>
    BY <1>1, <2>1, <2>2, WriterFramed DEF WriterInv, WriterTypes
  <2>3. CASE writeOp' = "none" /\ cur' = Pill
    <3>1. OwnerInv' /\ QueueInv' /\ OnlyOldestDropped'
      BY <1>1, <2>1 DEF WriterInv, OwnerInv, QueueInv, OnlyOldestDropped
    <3>2. WriterTypes'
      BY <1>1, <2>1, <2>3 DEF WriterInv, WriterTypes, Operations, Pill
    <3>3. \A j \in 1 .. Len(queue) : queue[j] # Pill => 0 < queue[j]
      BY DEF WriterInv, WriterTypes, Pill
    <3>4. SentInv'
      BY <1>1, <2>1, <2>3, <3>3
      DEF WriterInv, WriterTypes, SentInv, WritesInOrder, Pill
    <3> QED
      BY <3>1, <3>2, <3>4 DEF WriterInv
  <2> QED
    BY <2>1, <2>2, <2>3
<1> QED
  BY <1>2, <1>3, PopKeeps DEF WriterStep
-----------------------------------------------------------------------------
(* The reader.                                                              *)

ReaderTypes ==
    /\ running \in BOOLEAN /\ room \in BOOLEAN
    /\ readOp \in Operations /\ eventOp \in Operations
    /\ reqLen \in Nat /\ readLen \in Nat /\ holding \in Nat /\ inQueue \in Nat
    /\ late \in [deliver : Nat, break : Nat]

\* The length of a read is what has come, and only that read takes it away.
ReadInv ==
    /\ readOp \in {"none", "pending"} => reqLen <= inQueue
    /\ readOp = "pending" => readLen <= inQueue

\* Where the reader is once it has begun a delivery after the stop: on its way
\* to the loop test, with no read left that could complete.
Delivered ==
    \/ reader \in {"test", "done"}
    \/ reader \in {"deliver", "break"} /\ back = "test"
    \/ /\ readOp = "none"
       /\ \/ reader \in {"event", "wait"}
          \/ reader \in {"deliver", "break"} /\ back \in {"event", "wait"}

\* The same after a break was passed on, with no event left.
Broke ==
    \/ reader \in {"test", "done"}
    \/ reader \in {"deliver", "break"} /\ back = "test"
    \/ /\ eventOp = "none"
       /\ reader = "wait" \/ (reader = "break" /\ back = "wait")

LateInv ==
    /\ running => late.deliver = 0 /\ late.break = 0
    /\ late.deliver = 0 \/ (late.deliver = 1 /\ Delivered)
    /\ late.break = 0 \/ (late.break = 1 /\ Broke)

ReaderInv == ReaderTypes /\ ReadInv /\ LateInv

\* A step of another thread may only clear m_running.
LEMMA ReaderFramed ==
  ASSUME ReaderInv, running' \in BOOLEAN, running' => running,
         room' \in BOOLEAN,
         UNCHANGED <<reader, back, holding, late, readVars, eventOp, inQueue>>
  PROVE  ReaderInv'
BY DEF ReaderInv, ReaderTypes, ReadInv, LateInv, Delivered, Broke, readVars

\* A callback begun now is late if m_running was cleared.
LEMMA CountOne ==
  ASSUME ReaderTypes, NEW kind \in {"deliver", "break"}, Count(kind)
  PROVE  /\ late' \in [deliver : Nat, break : Nat]
         /\ running => late' = late
         /\ kind = "deliver" => /\ late'.break = late.break
                                /\ ~running => late'.deliver = late.deliver + 1
         /\ kind = "break" => /\ late'.deliver = late.deliver
                              /\ ~running => late'.break = late.break + 1
BY DEF ReaderTypes, Count

LEMMA StartReadKeeps ==
  ASSUME ReaderInv, StartRead
  PROVE  ReaderInv'
<1>1. /\ reader = "read" /\ ~Delivered /\ ~Broke
      /\ UNCHANGED <<running, room, eventOp>>
  BY DEF StartRead, ReaderFrame, ownerVars, Delivered, Broke
<1>2. late.deliver = 0 /\ late.break = 0
  BY <1>1 DEF ReaderInv, LateInv
<1>3. CASE /\ readOp = "none" /\ reqLen > 0 /\ reqLen <= inQueue
           /\ inQueue' = inQueue - reqLen /\ SendRead(reqLen, "event")
           /\ UNCHANGED <<readLen, readOp>>
  <2>1. /\ reader' = "deliver" /\ back' = "event" /\ holding' = reqLen
        /\ reqLen' = 0 /\ Count("deliver")
    BY <1>3 DEF SendRead, RequestServed
  <2>2. /\ late' \in [deliver : Nat, break : Nat] /\ late'.break = 0
        /\ running => late' = late
        /\ late'.deliver \in {0, 1}
    BY <1>2, <2>1, CountOne DEF ReaderInv
  <2>3. Delivered'
    BY <1>3, <2>1 DEF Delivered
  <2>4. ReaderTypes' /\ ReadInv'
    BY <1>1, <1>3, <2>1, <2>2 DEF ReaderInv, ReaderTypes, ReadInv
  <2> QED
    BY <1>1, <1>2, <2>2, <2>3, <2>4 DEF ReaderInv, LateInv
<1>4. CASE /\ readOp = "none" /\ readOp' = "pending" /\ readLen' = reqLen
           /\ UNCHANGED <<back, holding, late, reqLen, inQueue>>
  BY <1>1, <1>2, <1>4
  DEF ReaderInv, ReaderTypes, ReadInv, LateInv, Operations
<1>5. CASE UNCHANGED <<back, holding, late, readVars, inQueue>>
  BY <1>1, <1>2, <1>5 DEF ReaderInv, ReaderTypes, ReadInv, LateInv, readVars
<1> QED
  BY <1>3, <1>4, <1>5 DEF StartRead

\* What the processing of events may do.
LEMMA EventsProcessed ==
  ASSUME ReaderInv, NEW m, NEW then, ProcessEvents(m, then), then # "break"
  PROVE  /\ reqLen' = reqLen \/ reqLen' = inQueue
         /\ back' = then
         /\ \/ reader' = then /\ late' = late
            \/ /\ reader' = "break"
               /\ late' \in [deliver : Nat, break : Nat]
               /\ running => late' = late
               /\ ~running => late'.break = late.break + 1
               /\ late'.deliver = late.deliver
<1>1. CASE "brk" \in m
  <2>1. Count("break") /\ reader' = "break" /\ back' = then
    BY <1>1 DEF ProcessEvents
  <2>2. reqLen' = reqLen \/ reqLen' = inQueue
    BY DEF ProcessEvents
  <2>3. /\ late' \in [deliver : Nat, break : Nat]
        /\ running => late' = late
        /\ ~running => late'.break = late.break + 1
        /\ late'.deliver = late.deliver
    <3>1. ReaderTypes
      BY DEF ReaderInv
    <3>2. running \in BOOLEAN
      BY <3>1 DEF ReaderTypes
    <3> QED
      BY <2>1, <3>1, <3>2, CountOne
  <2> QED
    BY <2>1, <2>2, <2>3
<1>2. CASE "brk" \notin m
  BY <1>2 DEF ProcessEvents
<1> QED
  BY <1>1, <1>2

LEMMA StartEventKeeps ==
  ASSUME ReaderInv, StartEvent
  PROVE  ReaderInv'
<1>1. /\ reader = "event" /\ ~Broke
      /\ Delivered => readOp = "none"
      /\ UNCHANGED <<running, room, holding, readLen, readOp, inQueue>>
  BY DEF StartEvent, ReaderFrame, ownerVars, Delivered, Broke
<1>2. /\ late.break = 0
      /\ late.deliver = 0 \/ (late.deliver = 1 /\ readOp = "none")
      /\ running => late.deliver = 0
  BY <1>1 DEF ReaderInv, LateInv
<1> DEFINE then == WaitsOrTests(readOp, "none")
<1>3. then = IF readOp = "none" THEN "test" ELSE "wait"
  BY DEF WaitsOrTests
<1> HIDE DEF then
\* An event of the line that is reported at once.
<1>4. CASE eventOp = "none" /\ ProcessEvents(latched, then) /\ eventOp' = eventOp
  <2>1. /\ reqLen' = reqLen \/ reqLen' = inQueue
        /\ back' = then
        /\ \/ reader' = then /\ late' = late
           \/ /\ reader' = "break"
              /\ late' \in [deliver : Nat, break : Nat]
              /\ running => late' = late
              /\ ~running => late'.break = late.break + 1
              /\ late'.deliver = late.deliver
    <3>1. then # "break"
      BY <1>3
    <3> QED
      BY <1>4, <3>1, EventsProcessed
  <2>2. ReaderTypes' /\ ReadInv'
    BY <1>1, <1>4, <2>1 DEF ReaderInv, ReaderTypes, ReadInv
  <2>3. late'.break \in {0, 1} /\ late'.deliver = late.deliver
        /\ (running => late'.break = 0)
    BY <1>2, <2>1 DEF ReaderInv, ReaderTypes
  <2>4. Broke'
    BY <1>3, <1>4, <2>1 DEF Broke
  <2>5. readOp = "none" => Delivered'
    BY <1>1, <1>3, <2>1 DEF Delivered
  <2> QED
    BY <1>1, <1>2, <2>2, <2>3, <2>4, <2>5 DEF ReaderInv, LateInv
<1>5. CASE /\ UNCHANGED <<reqLen, late>>
           /\ reader' \in {"wait", then} /\ eventOp' \in Operations
  <2>1. ReaderTypes' /\ ReadInv'
    BY <1>1, <1>5 DEF ReaderInv, ReaderTypes, ReadInv
  <2>2. readOp = "none" => Delivered'
    BY <1>1, <1>3, <1>5 DEF Delivered
  <2> QED
    BY <1>1, <1>2, <1>5, <2>1, <2>2 DEF ReaderInv, LateInv
<1> QED
  BY <1>4, <1>5 DEF StartEvent, then, ReaderInv, ReaderTypes, Operations

LEMMA WaitReaderKeeps ==
  ASSUME ReaderInv, WaitReader
  PROVE  ReaderInv'
<1>1. reader = "wait" /\ UNCHANGED <<running, room, inQueue>>
  BY DEF WaitReader, ReaderFrame, ownerVars
<1>2. /\ late.deliver = 0 \/ (late.deliver = 1 /\ readOp = "none")
      /\ late.break = 0 \/ (late.break = 1 /\ eventOp = "none")
      /\ running => late.deliver = 0 /\ late.break = 0
  BY <1>1 DEF ReaderInv, LateInv, Delivered, Broke
\* A read that completed is delivered before anything else is looked at.
<1>3. CASE /\ readOp = "done" /\ readOp' = "none" /\ SendRead(readLen, "test")
           /\ UNCHANGED <<eventOp, readLen>>
  <2>1. /\ reader' = "deliver" /\ back' = "test" /\ holding' = readLen
        /\ reqLen' = 0 /\ Count("deliver")
    BY <1>3 DEF SendRead, RequestServed
  <2>2. late.deliver = 0
    BY <1>2, <1>3
  <2>3. /\ late' \in [deliver : Nat, break : Nat] /\ late'.break = late.break
        /\ running => late' = late
        /\ late'.deliver \in {0, 1}
    BY <2>1, <2>2, CountOne DEF ReaderInv, ReaderTypes
  <2>4. Delivered' /\ Broke'
    BY <2>1 DEF Delivered, Broke
  <2>5. ReaderTypes' /\ ReadInv'
    BY <1>1, <1>3, <2>1, <2>3 DEF ReaderInv, ReaderTypes, ReadInv, Operations
  <2> QED
    BY <1>1, <1>2, <2>3, <2>4, <2>5 DEF ReaderInv, LateInv
<1>4. CASE /\ eventOp = "done" /\ eventOp' = "none"
           /\ ProcessEvents(mask, "test")
           /\ UNCHANGED <<readOp, readLen, holding>>
  <2>1. /\ reqLen' = reqLen \/ reqLen' = inQueue
        /\ back' = "test"
        /\ \/ reader' = "test" /\ late' = late
           \/ /\ reader' = "break"
              /\ late' \in [deliver : Nat, break : Nat]
              /\ running => late' = late
              /\ ~running => late'.break = late.break + 1
              /\ late'.deliver = late.deliver
    BY <1>4, EventsProcessed
  <2>2. ReaderTypes' /\ ReadInv'
    BY <1>1, <1>4, <2>1 DEF ReaderInv, ReaderTypes, ReadInv, Operations
  <2>3. late'.break \in {0, 1} /\ late'.deliver = late.deliver
        /\ (running => late'.break = 0)
    BY <1>2, <1>4, <2>1 DEF ReaderInv, ReaderTypes
  <2>4. Broke' /\ Delivered'
    BY <2>1 DEF Broke, Delivered
  <2> QED
    BY <1>1, <1>2, <2>2, <2>3, <2>4 DEF ReaderInv, LateInv
\* A failed operation, new settings, and the stop event.
<1>5. CASE /\ reader' = "test"
           /\ UNCHANGED <<readVars, eventOp, holding, late>>
  <2>1. Delivered' /\ Broke'
    BY <1>5 DEF Delivered, Broke
  <2>2. ReaderTypes' /\ ReadInv'
    BY <1>1, <1>5 DEF ReaderInv, ReaderTypes, ReadInv, readVars
  <2> QED
    BY <1>1, <1>2, <1>5, <2>1, <2>2 DEF ReaderInv, LateInv
<1> QED
  BY <1>3, <1>4, <1>5
  DEF WaitReader, ReadEnds, EventEnds, Reconfigure, Ends, readVars

LEMMA ReaderKeeps ==
  ASSUME ReaderInv, ReaderStep
  PROVE  ReaderInv'
<1>1. UNCHANGED <<running, room>> \/ (running' = running /\ room' \in BOOLEAN)
  BY DEF ReaderStep, CopySettings, ReaderTest, StartRead, Deliver, StartEvent,
     PassBreak, WaitReader, ReaderFrame, ownerVars
<1>2. CASE CopySettings \/ ReaderTest
  <2>1. /\ UNCHANGED <<back, holding, late, readVars, eventOp, inQueue>>
        /\ reader' \in {"test", "done"} \/ (reader' = "read" /\ running)
        /\ UNCHANGED <<running, room>>
    BY <1>2 DEF CopySettings, ReaderTest, Continues, ReaderFrame, ownerVars
  <2> QED
    BY <2>1
    DEF ReaderInv, ReaderTypes, ReadInv, LateInv, Delivered, Broke, readVars
<1>3. CASE Deliver
  <2>1. /\ reader = "deliver" /\ reader' \in {back, reader}
        /\ holding' \in Nat /\ room' \in BOOLEAN
        /\ UNCHANGED <<running, back, late, readOp, readLen, reqLen, eventOp,
                       inQueue>>
    BY <1>3 DEF Deliver, ownerVars, readVars, eventVars, ReaderInv, ReaderTypes
  <2> QED
    BY <2>1 DEF ReaderInv, ReaderTypes, ReadInv, LateInv, Delivered, Broke
<1>4. CASE PassBreak
  <2>1. /\ reader = "break" /\ reader' = back
        /\ UNCHANGED <<running, room, back, holding, late, readOp, readLen,
                       reqLen, eventOp, inQueue>>
    BY <1>4 DEF PassBreak, ReaderFrame, ownerVars, readVars
  <2> QED
    BY <2>1 DEF ReaderInv, ReaderTypes, ReadInv, LateInv, Delivered, Broke
<1> QED
  BY <1>2, <1>3, <1>4, StartReadKeeps, StartEventKeeps, WaitReaderKeeps
  DEF ReaderStep

\* The line and Windows: bytes come, outstanding operations end.
LEMMA LineKeeps ==
  ASSUME ReaderInv,
         ByteArrives \/ BreakArrives \/ ReadCompletes \/ EventCompletes
  PROVE  ReaderInv'
<1>1. UNCHANGED <<running, room, reader, back, holding, late>>
  BY DEF ByteArrives, BreakArrives, ReadCompletes, EventCompletes, LineFrame,
     ownerVars, callVars
<1>2. CASE ByteArrives \/ BreakArrives
  <2>1. /\ inQueue' = inQueue + 1 \/ inQueue' = inQueue
        /\ UNCHANGED <<reqLen, readLen, readOp, eventOp>>
    BY <1>2 DEF ByteArrives, BreakArrives, readVars
  <2>2. ReaderTypes' /\ ReadInv'
    BY <1>1, <2>1 DEF ReaderInv, ReaderTypes, ReadInv
  <2> QED
    BY <1>1, <2>1, <2>2 DEF ReaderInv, LateInv, Delivered, Broke
<1>3. CASE ReadCompletes
  <2>1. /\ readOp = "pending" /\ UNCHANGED <<reqLen, readLen, eventOp>>
        /\ \/ readOp' = "done" /\ readLen <= inQueue
              /\ inQueue' = inQueue - readLen
           \/ readOp' = "failed" /\ inQueue' = inQueue
    BY <1>3 DEF ReadCompletes, eventVars
  <2>2. ReaderTypes' /\ ReadInv'
    BY <1>1, <2>1 DEF ReaderInv, ReaderTypes, ReadInv, Operations
  <2> QED
    BY <1>1, <2>1, <2>2 DEF ReaderInv, LateInv, Delivered, Broke
<1>4. CASE EventCompletes
  <2>1. /\ eventOp = "pending" /\ eventOp' \in {"done", "failed"}
        /\ UNCHANGED <<reqLen, readLen, readOp, inQueue>>
    BY <1>4 DEF EventCompletes, readVars
  <2>2. ReaderTypes' /\ ReadInv'
    BY <1>1, <2>1 DEF ReaderInv, ReaderTypes, ReadInv, Operations
  <2> QED
    BY <1>1, <2>1, <2>2 DEF ReaderInv, LateInv, Delivered, Broke
<1> QED
  BY <1>2, <1>3, <1>4
-----------------------------------------------------------------------------
IInv == WriterInv /\ ReaderInv

LEMMA InitInv == Init => IInv
<1> SUFFICES ASSUME Init PROVE IInv
  OBVIOUS
<1>1. queue = <<>> /\ sent = <<>> /\ Len(queue) = 0 /\ Len(sent) = 0
  BY DEF Init
<1>2. WriterTypes
  <2>1. queue \in Seq(Nat) /\ sent \in Seq(Nat)
    BY <1>1
  <2>2. /\ cur = 0 /\ writeOp = "none" /\ next = 1 /\ dropped = {}
        /\ running = TRUE /\ stopEvent = FALSE /\ applyEvent = FALSE
        /\ reqEvent = FALSE
    BY DEF Init, Pill
  <2>3. (cur = Pill) = (writeOp = "none")
    BY <2>2 DEF Pill
  <2>4. next \in Nat \ {0} /\ cur \in Nat /\ dropped \subseteq Nat
    BY <2>2
  <2> QED
    BY <2>1, <2>2, <2>3, <2>4 DEF WriterTypes, Operations
<1>3. OwnerInv
  BY <1>1
  DEF Init, OwnerInv, Requesting, Setting, BeforePill, AfterPill, WriteSteps,
      SettingsSteps, StopSteps
<1>4. QueueInv /\ SentInv /\ OnlyOldestDropped
  BY <1>1
  DEF Init, QueueInv, SentInv, WritesInOrder, OnlyOldestDropped, Pill
<1>5. ReaderTypes
  BY DEF Init, ReaderTypes, Operations
<1>6. ReadInv /\ LateInv
  BY DEF Init, ReadInv, LateInv
<1> QED
  BY <1>2, <1>3, <1>4, <1>5, <1>6 DEF WriterInv, ReaderInv, IInv

LEMMA StepInv == IInv /\ [Next]_vars => IInv'
<1> SUFFICES ASSUME IInv, [Next]_vars PROVE IInv'
  OBVIOUS
<1>1. /\ WriterInv /\ ReaderInv /\ running \in BOOLEAN /\ room \in BOOLEAN
      /\ reqEvent \in BOOLEAN /\ stopEvent \in BOOLEAN
      /\ applyEvent \in BOOLEAN
  BY DEF IInv, WriterInv, WriterTypes, ReaderInv, ReaderTypes
\* The emulator's calls and the writer leave the reader's variables alone.
<1>2. CASE Write \/ ApplySettings \/ Stop
  <2>1. PICK steps \in {WriteSteps, SettingsSteps, StopSteps} : Call(steps)
    BY <1>2 DEF Write, ApplySettings, Stop
  <2>2. running' = running /\ UNCHANGED readerVars
    BY <2>1 DEF Call
  <2>3. ReaderInv'
    BY <1>1, <2>2, ReaderFramed DEF readerVars, callVars, eventVars
  <2> QED
    BY <1>1, <2>1, <2>3, CallKeeps DEF IInv
<1>3. CASE OwnerStep
  <2>1. UNCHANGED readerVars
    BY <1>3 DEF OwnerStep
  <2>2. running' \in BOOLEAN /\ (running' => running)
    <3>1. CASE Head(owner) = "flag"
      BY <1>3, <3>1 DEF OwnerStep
    <3>2. CASE Head(owner) # "flag"
      BY <1>1, <1>3, <3>2 DEF OwnerStep
    <3> QED
      BY <3>1, <3>2
  <2>3. ReaderInv'
    BY <1>1, <2>1, <2>2, ReaderFramed DEF readerVars, callVars, eventVars
  <2> QED
    BY <1>1, <1>3, <2>3, OwnerKeeps DEF IInv
<1>4. CASE WriterStep \/ WriteCompletes
  <2>1. running' = running /\ UNCHANGED readerVars
    BY <1>4 DEF WriterStep, WriterTest, LookForRequest, PopRequest, WaitWriter,
       WriteCompletes, WriterFrame, ownerVars
  <2>2. ReaderInv'
    BY <1>1, <2>1, ReaderFramed DEF readerVars, callVars, eventVars
  <2> QED
    BY <1>1, <1>4, <2>2, WriterKeeps, CompletionKeeps DEF IInv
\* The reader, the line and the guest leave the writer's variables alone.
<1>5. CASE ReaderStep
  <2>1. UNCHANGED <<ownerVars, queueVars, writerVars>>
    BY <1>5 DEF ReaderStep, CopySettings, ReaderTest, StartRead, Deliver,
       StartEvent, PassBreak, WaitReader, ReaderFrame
  <2>2. applyEvent' \in {FALSE, applyEvent}
    BY <1>5 DEF ReaderStep, CopySettings, ReaderTest, StartRead, Deliver,
       StartEvent, PassBreak, WaitReader, ReadEnds, EventEnds, Reconfigure,
       setVars
  <2>3. WriterInv'
    BY <1>1, <2>1, <2>2, WriterFramed DEF ownerVars, queueVars, writerVars
  <2> QED
    BY <1>1, <1>5, <2>3, ReaderKeeps DEF IInv
<1>6. CASE ByteArrives \/ BreakArrives \/ ReadCompletes \/ EventCompletes
  <2>1. UNCHANGED <<ownerVars, queueVars, writerVars, applyEvent>>
    BY <1>6 DEF ByteArrives, BreakArrives, ReadCompletes, EventCompletes,
       LineFrame, setVars
  <2>2. WriterInv'
    BY <1>1, <2>1, WriterFramed DEF ownerVars, queueVars, writerVars
  <2> QED
    BY <1>1, <1>6, <2>2, LineKeeps DEF IInv
<1>7. CASE Drain \/ UNCHANGED vars
  <2>1. /\ UNCHANGED <<ownerVars, queueVars, writerVars, applyEvent>>
        /\ UNCHANGED <<reader, back, holding, late, readVars, eventVars, inQueue>>
        /\ room' \in BOOLEAN
    BY <1>1, <1>7 DEF Drain, vars, setVars, readerVars, callVars
  <2>2. WriterInv'
    BY <1>1, <2>1, WriterFramed DEF ownerVars, queueVars, writerVars
  <2>3. ReaderInv'
    BY <1>1, <2>1, ReaderFramed DEF ownerVars, eventVars
  <2> QED
    BY <2>2, <2>3 DEF IInv
<1> QED
  BY <1>2, <1>3, <1>4, <1>5, <1>6, <1>7 DEF Next, HostStep

LEMMA Inductive == Spec => []IInv
BY InitInv, StepInv, PTL DEF Spec
-----------------------------------------------------------------------------
\* Requests are written in the order in which they were made and none twice,
\* whatever Windows lets fail; a full queue loses its oldest request only; and a
\* read is never started for bytes that have not come, so it does not block.
THEOREM RequestsAreKept == Spec => []RequestsKept
<1>1. IInv => RequestsKept
  BY DEF IInv, WriterInv, WriterTypes, SentInv, ReaderInv, ReaderTypes, ReadInv,
     TypeOK, ReadsWhatIsThere, RequestsKept
<1> QED
  BY <1>1, Inductive, PTL

\* After Stop() cleared m_running the reader calls into the emulated port, which
\* nobody keeps alive for it, for one delivery and one break at most.
THEOREM OnePass == Spec => []OnePassAfterStop
<1>1. IInv => OnePassAfterStop
  BY DEF IInv, ReaderInv, LateInv, OnePassAfterStop
<1> QED
  BY <1>1, Inductive, PTL
=============================================================================
