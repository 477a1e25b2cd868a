----------------------------- MODULE SerialComm -----------------------------
(***************************************************************************)
(* The host serial port (hw/basic/win32/mt_serial.cpp): one thread that    *)
(* reads and waits for events, one that writes, and the emulator, which    *)
(* queues writes and settings on its CPU thread and stops the port when it *)
(* shuts down (the CPU thread has ended by then: one owner, here).  The    *)
(* port is stopped without waiting, SuperIO deletes the emulated port at   *)
(* once, and nobody deletes the driver (superio.cpp:53).                   *)
(*                                                                         *)
(* Bytes and requests are numbered, so that what was read or sent so far   *)
(* is a number or a sequence of numbers.  Of the events of the line, the   *)
(* arrival of a character and a break are kept: the code does nothing on   *)
(* the others.  Windows decides whether an overlapped operation completes  *)
(* at once, later or fails.                                                *)
(***************************************************************************)
EXTENDS Naturals, Sequences, FiniteSets

CONSTANTS
    QueueSize,    \* WRITE_QUEUE_SIZE
    Budgets       \* bounds: how often each Kind may happen in a behaviour

Kinds == {"write", "byte", "break", "settings", "failure"}

ASSUME SerialCommAssumption ==
    /\ QueueSize \in Nat /\ QueueSize > 1
    /\ Budgets \subseteq [Kinds -> Nat]

Pill == 0       \* the request without a buffer

VARIABLES
    owner,      \* what is left of the emulator's current call
    running,    \* m_running
    stopEvent,  \* m_hStopEvent
    settings,   \* m_settings: the number of the change of each of two fields
    applyEvent, \* m_hApplySettingsEvent
    room,       \* CanReceive of the emulated port is not 0
    next,       \* the number of the next request
    queue,      \* m_writeRequests
    reqEvent,   \* m_hWriteReqEvent
    dropped,    \* requests discarded because the queue was full
    writer,     \* where the writer is
    cur,        \* its outstanding request, or Pill
    writeOp,    \* the overlapped write
    sent,       \* the requests written, in order
    reader,     \* where the reader is
    back,       \* where it goes on after a callback
    holding,    \* bytes that ReaderFunc still has to pass on
    reqLen,     \* readRequestLen
    readLen,    \* the length of the outstanding read
    readOp,     \* the overlapped read
    eventOp,    \* the overlapped WaitCommEvent
    mask,       \* dwCommEvent
    latched,    \* events of the line not yet reported
    inQueue,    \* bytes that came and were not read, comStat.cbInQue
    local,      \* the reader's copy of the settings
    config,     \* the settings of the host's port
    late,       \* callbacks begun after m_running was cleared
    failed,     \* some call of Windows failed
    left        \* what is left of the budget

ownerVars  == <<owner, running, stopEvent>>
setVars    == <<settings, applyEvent, local, config>>
queueVars  == <<next, queue, reqEvent, dropped>>
writerVars == <<writer, cur, writeOp, sent>>
readVars   == <<reqLen, readLen, readOp>>
eventVars  == <<eventOp, mask, latched>>
callVars   == <<reader, back, holding, room, late>>
readerVars == <<callVars, readVars, eventVars, inQueue>>
vars == <<ownerVars, setVars, queueVars, writerVars, readerVars, failed, left>>

Operations == {"none", "pending", "done", "failed"}

\* After Start(), which configured the host's port with the first settings.
Init ==
    /\ owner = <<>> /\ running = TRUE /\ stopEvent = FALSE
    /\ settings = <<0, 0>> /\ local = <<0, 0>> /\ config = <<0, 0>>
    /\ applyEvent = FALSE
    /\ next = 1 /\ queue = <<>> /\ reqEvent = FALSE /\ dropped = {}
    /\ writer = "test" /\ cur = Pill /\ writeOp = "none" /\ sent = <<>>
    /\ reader = "start" /\ back = "test" /\ holding = 0 /\ room = TRUE
    /\ late = [deliver |-> 0, break |-> 0]
    /\ reqLen = 0 /\ readLen = 0 /\ readOp = "none"
    /\ eventOp = "none" /\ mask = {} /\ latched = {} /\ inQueue = 0
    /\ failed = FALSE /\ left \in Budgets

Spend(kind) == left[kind] > 0 /\ left' = [left EXCEPT ![kind] = @ - 1]

Works == UNCHANGED <<failed, left>>
Fails == Spend("failure") /\ failed' = TRUE
-----------------------------------------------------------------------------
(* The emulator: each call is the sequence of its steps.                    *)

WriteSteps    == <<"push", "notify">>
SettingsSteps == <<"baud", "line", "apply">>

NoEventSteps == <<"flag", "pill", "notify", "delete">>   \* mutant: no SetEvent
StopSteps    == <<"flag", "event", "pill", "notify", "delete">>

Call(steps) ==
    /\ owner = <<>> /\ running
    /\ owner' = steps
    /\ UNCHANGED <<running, stopEvent, setVars, queueVars, writerVars,
                   readerVars, failed>>

\* Write and Stop hold m_writeReqMutex from the push to the notification.
ReqMutexFree == ~(owner # <<>> /\ Head(owner) = "notify")

DropNewest(q) == SubSeq(q, 1, Len(q) - 1)   \* mutant: pop_back
Discarded(q) == IF Head(q) = Pill THEN q ELSE Tail(q)

EnqueuedInFront(q) == <<next>> \o q   \* mutant: push_front
Enqueued(q) == Append(q, next)

Push ==
    LET q == Enqueued(queue)
        full == Len(q) >= QueueSize
    IN  /\ queue' = IF full THEN Discarded(q) ELSE q
        /\ dropped' = dropped \union
             {i \in 1 .. next : /\ full
                                /\ \A j \in 1 .. Len(queue') : queue'[j] # i
                                /\ \E k \in 1 .. Len(q) : q[k] = i}
        /\ next' = next + 1 /\ reqEvent' = TRUE

\* mutant: no poison pill
NoPill == reqEvent' = TRUE /\ UNCHANGED <<queue, next, dropped>>
PushPill == /\ queue' = <<Pill>> \o queue
            /\ reqEvent' = TRUE /\ UNCHANGED <<next, dropped>>

NoNotify == UNCHANGED writer   \* mutant: the condition is not notified
\* notify_one under m_writeQueueEmptyMutex.
NotifyWriter == writer' = IF writer = "sleep" THEN "look" ELSE writer

OwnerStep ==
    /\ owner # <<>>
    /\ owner' = Tail(owner)
    /\ LET step == Head(owner)
       IN  \/ /\ step = "push" /\ Push
              /\ UNCHANGED <<running, stopEvent, setVars, writer>>
           \/ /\ step = "pill" /\ PushPill
              /\ UNCHANGED <<running, stopEvent, setVars, writer>>
           \/ /\ step = "notify" /\ NotifyWriter
              /\ UNCHANGED <<running, stopEvent, setVars, queueVars>>
           \/ /\ step \in {"baud", "line"}
              /\ settings' = [settings EXCEPT ![IF step = "baud" THEN 1 ELSE 2] = @ + 1]
              /\ UNCHANGED <<running, stopEvent, applyEvent, local, config,
                             queueVars, writer>>
           \/ /\ step = "apply" /\ applyEvent' = TRUE
              /\ UNCHANGED <<running, stopEvent, settings, local, config,
                             queueVars, writer>>
           \/ /\ step = "flag" /\ running' = FALSE
              /\ UNCHANGED <<stopEvent, setVars, queueVars, writer>>
           \/ /\ step = "event" /\ stopEvent' = TRUE
              /\ UNCHANGED <<running, setVars, queueVars, writer>>
           \/ /\ step = "delete"
              /\ UNCHANGED <<running, stopEvent, setVars, queueVars, writer>>
    /\ UNCHANGED <<cur, writeOp, sent, readerVars, failed, left>>

Write         == Spend("write") /\ Call(WriteSteps)
ApplySettings == Spend("settings") /\ Call(SettingsSteps)
Stop          == Call(StopSteps) /\ UNCHANGED left

\* The guest reads its port.
Drain == /\ running /\ ~room /\ room' = TRUE
         /\ UNCHANGED <<reader, back, holding, late, readVars, eventVars, inQueue,
                        ownerVars, setVars, queueVars, writerVars, failed, left>>
-----------------------------------------------------------------------------
(* WriterLoop.                                                              *)

WriterFrame == UNCHANGED <<ownerVars, setVars, next, dropped, readerVars>>

WriterTest ==
    /\ writer = "test"
    /\ writer' = IF ~running THEN "done" ELSE IF cur = Pill THEN "look" ELSE "wait"
    /\ UNCHANGED <<cur, writeOp, sent, queue, reqEvent, failed, left>> /\ WriterFrame

\* The size is read without m_writeReqMutex; the last time, and the sleep,
\* under the mutex of the condition.
LookForRequest ==
    /\ writer = "look"
    /\ writer' = IF queue = <<>> THEN "sleep" ELSE "pop"
    /\ UNCHANGED <<cur, writeOp, sent, queue, reqEvent, failed, left>> /\ WriterFrame

StartWrite(r) ==
    \/ /\ Works /\ sent' = Append(sent, r) /\ writer' = "test"
       /\ UNCHANGED <<cur, writeOp>>
    \/ /\ Works /\ cur' = r /\ writeOp' = "pending" /\ writer' = "wait"
       /\ UNCHANGED sent
    \/ Fails /\ writer' = "test" /\ UNCHANGED <<cur, writeOp, sent>>

PopRequest ==
    /\ writer = "pop" /\ ReqMutexFree
    /\ IF queue = <<>> THEN /\ writer' = "test"
                            /\ UNCHANGED <<queue, cur, writeOp, sent, failed, left>>
       ELSE /\ queue' = Tail(queue)
            /\ IF Head(queue) = Pill
               THEN writer' = "done" /\ UNCHANGED <<cur, writeOp, sent, failed, left>>
               ELSE StartWrite(Head(queue))
    /\ UNCHANGED reqEvent /\ WriterFrame

\* mutant: the write stays outstanding
EventReset    == writeOp' = "none" /\ UNCHANGED cur
WriteFinished == writeOp' = "none" /\ cur' = Pill

\* WaitForMultipleObjects reports the first event that is set.  A write that
\* failed stays outstanding and its event set.
WaitWriter ==
    /\ writer = "wait" /\ writer' = "test"
    /\ \/ writeOp = "done" /\ WriteFinished /\ UNCHANGED reqEvent
       \/ writeOp = "failed" /\ UNCHANGED <<writeOp, cur, reqEvent>>
       \/ /\ writeOp = "pending" /\ reqEvent /\ reqEvent' = FALSE
          /\ UNCHANGED <<writeOp, cur>>
       \/ /\ writeOp = "pending" /\ ~reqEvent /\ stopEvent
          /\ UNCHANGED <<writeOp, cur, reqEvent>>
    /\ UNCHANGED <<sent, queue, failed, left>> /\ WriterFrame

WriterStep == WriterTest \/ LookForRequest \/ PopRequest \/ WaitWriter

WriteCompletes ==
    /\ writeOp = "pending"
    /\ \/ Works /\ writeOp' = "done" /\ sent' = Append(sent, cur)
       \/ Fails /\ writeOp' = "failed" /\ UNCHANGED sent
    /\ UNCHANGED <<writer, cur, queue, reqEvent>> /\ WriterFrame
-----------------------------------------------------------------------------
(* ReaderAndEventsLoop.                                                     *)

ReaderFrame == UNCHANGED <<ownerVars, queueVars, writerVars, room>>

CopySettings ==
    /\ reader = "start" /\ reader' = "test" /\ local' = settings
    /\ UNCHANGED <<settings, applyEvent, config, back, holding, late, readVars,
                   eventOp, mask, latched, inQueue, failed, left>>
    /\ ReaderFrame

ReadsToTheEnd == running \/ reqLen > 0   \* mutant: what came is still read
Continues     == running

ReaderTest ==
    /\ reader = "test" /\ reader' = IF Continues THEN "read" ELSE "done"
    /\ UNCHANGED <<setVars, back, holding, late, readVars, eventOp, mask,
                   latched, inQueue, failed, left>>
    /\ ReaderFrame

KeepsRequest == UNCHANGED reqLen   \* mutant: readRequestLen is not reset
RequestServed == reqLen' = 0

Count(kind) == late' = IF running THEN late ELSE [late EXCEPT ![kind] = @ + 1]

\* The read completed: its n bytes go to ReaderFunc.
SendRead(n, then) ==
    /\ reader' = "deliver" /\ back' = then /\ holding' = n
    /\ RequestServed /\ Count("deliver")

StartRead ==
    /\ reader = "read"
    /\ IF readOp = "none" /\ reqLen > 0
       THEN \/ /\ Works /\ reqLen <= inQueue /\ inQueue' = inQueue - reqLen
               /\ SendRead(reqLen, "event") /\ UNCHANGED <<readLen, readOp>>
            \/ /\ Works /\ readOp' = "pending" /\ readLen' = reqLen
               /\ reader' = "event" /\ UNCHANGED <<back, holding, late, reqLen, inQueue>>
            \/ /\ Fails /\ reader' = "event"
               /\ UNCHANGED <<back, holding, late, readVars, inQueue>>
       ELSE /\ reader' = "event"
            /\ UNCHANGED <<back, holding, late, readVars, inQueue, failed, left>>
    /\ UNCHANGED <<setVars, eventOp, mask, latched>> /\ ReaderFrame

\* Win32SerialDriver::ReaderFunc asks until the port takes some bytes.
Deliver ==
    /\ reader = "deliver" /\ room
    /\ \E n \in 1 .. holding :
         /\ holding' = holding - n
         /\ reader' = IF n = holding THEN back ELSE reader
    /\ room' \in BOOLEAN
    /\ UNCHANGED <<back, late, readVars, eventVars, inQueue, setVars, ownerVars,
                   queueVars, writerVars, failed, left>>

\* The events in m are processed: the number of bytes is asked for, a break
\* is passed on.
ProcessEvents(m, then) ==
    /\ \/ "rx" \notin m /\ UNCHANGED <<reqLen, failed, left>>
       \/ "rx" \in m /\ Works /\ reqLen' = inQueue
       \/ "rx" \in m /\ Fails /\ UNCHANGED reqLen
    /\ back' = then
    /\ IF "brk" \in m THEN reader' = "break" /\ Count("break")
                      ELSE reader' = then /\ UNCHANGED late

WaitsOrTests(read, event) ==
    IF read = "none" /\ event = "none" THEN "test" ELSE "wait"

StartEvent ==
    /\ reader = "event"
    /\ \/ /\ eventOp = "none" /\ latched # {} /\ latched' = {}
          /\ ProcessEvents(latched, WaitsOrTests(readOp, "none"))
          /\ UNCHANGED <<eventOp, mask>>
       \/ /\ eventOp = "none" /\ Works /\ eventOp' = "pending" /\ reader' = "wait"
          /\ UNCHANGED <<latched, mask, reqLen, back, late>>
       \/ /\ eventOp = "none" /\ Fails
          /\ reader' = WaitsOrTests(readOp, "none")
          /\ UNCHANGED <<eventOp, latched, mask, reqLen, back, late>>
       \/ /\ eventOp # "none" /\ reader' = "wait"
          /\ UNCHANGED <<eventOp, latched, mask, reqLen, back, late, failed, left>>
    /\ UNCHANGED <<setVars, holding, readLen, readOp, inQueue>> /\ ReaderFrame

PassBreak ==
    /\ reader = "break" /\ reader' = back
    /\ UNCHANGED <<setVars, back, holding, late, readVars, eventOp, mask, latched,
                   inQueue, failed, left>>
    /\ ReaderFrame

Ends(op) == op \in {"done", "failed"}

ReadEnds ==
    /\ IF readOp = "done"
       THEN readOp' = "none" /\ SendRead(readLen, "test")
       ELSE /\ reader' = "test"
            /\ UNCHANGED <<readOp, back, holding, late, reqLen>>
    /\ UNCHANGED <<eventOp, readLen, setVars, failed, left>>

EventEnds ==
    /\ IF eventOp = "done"
       THEN eventOp' = "none" /\ ProcessEvents(mask, "test")
       ELSE reader' = "test" /\ UNCHANGED <<eventOp, back, late, reqLen, failed, left>>
    /\ UNCHANGED <<readOp, readLen, holding, setVars>>

BaudRateDiffers == settings[1] # local[1]   \* mutant: one field is compared
Differ          == settings # local

\* The port is configured only if the settings differ from the copy.
Reconfigure ==
    /\ applyEvent' = FALSE /\ local' = settings
    /\ \/ ~Differ /\ UNCHANGED <<config, failed, left>>
       \/ Differ /\ Works /\ config' = settings
       \/ Differ /\ Fails /\ UNCHANGED config
    /\ reader' = "test"
    /\ UNCHANGED <<settings, readVars, eventOp, back, holding, late>>

WaitReader ==
    /\ reader = "wait"
    /\ \/ Ends(readOp) /\ ReadEnds
       \/ ~Ends(readOp) /\ Ends(eventOp) /\ EventEnds
       \/ ~Ends(readOp) /\ ~Ends(eventOp) /\ applyEvent /\ Reconfigure
       \/ /\ ~Ends(readOp) /\ ~Ends(eventOp) /\ ~applyEvent /\ stopEvent
          /\ reader' = "test"
          /\ UNCHANGED <<setVars, readVars, eventOp, back, holding, late, failed, left>>
    /\ UNCHANGED <<mask, latched, inQueue>> /\ ReaderFrame

ReaderStep == \/ CopySettings \/ ReaderTest \/ StartRead \/ Deliver
              \/ StartEvent \/ PassBreak \/ WaitReader
-----------------------------------------------------------------------------
(* The host's port.                                                         *)

LineFrame == UNCHANGED <<ownerVars, setVars, queueVars, writerVars, callVars>>

ByteArrives ==
    /\ Spend("byte") /\ inQueue' = inQueue + 1
    /\ latched' = latched \union {"rx"}
    /\ UNCHANGED <<readVars, eventOp, mask, failed>> /\ LineFrame

BreakArrives ==
    /\ Spend("break") /\ latched' = latched \union {"brk"}
    /\ UNCHANGED <<inQueue, readVars, eventOp, mask, failed>> /\ LineFrame

\* All timeouts are disabled: a read completes when its bytes are there.
ReadCompletes ==
    /\ readOp = "pending"
    /\ \/ /\ Works /\ readLen <= inQueue
          /\ readOp' = "done" /\ inQueue' = inQueue - readLen
       \/ Fails /\ readOp' = "failed" /\ UNCHANGED inQueue
    /\ UNCHANGED <<reqLen, readLen, eventVars>> /\ LineFrame

EventCompletes ==
    /\ eventOp = "pending"
    /\ \/ /\ Works /\ latched # {} /\ eventOp' = "done"
          /\ mask' = latched /\ latched' = {}
       \/ Fails /\ eventOp' = "failed" /\ UNCHANGED <<mask, latched>>
    /\ UNCHANGED <<inQueue, readVars>> /\ LineFrame

HostStep == WriteCompletes \/ ReadCompletes \/ EventCompletes

Next == \/ Write \/ ApplySettings \/ Stop \/ OwnerStep \/ Drain
        \/ WriterStep \/ ReaderStep \/ HostStep
        \/ ByteArrives \/ BreakArrives

\* The threads run, calls that were begun return, the host completes what it
\* can and the guest reads its port while it runs.
Spec == /\ Init /\ [][Next]_vars
        /\ WF_vars(OwnerStep) /\ WF_vars(WriterStep) /\ WF_vars(ReaderStep)
        /\ WF_vars(WriteCompletes) /\ WF_vars(ReadCompletes)
        /\ WF_vars(EventCompletes) /\ WF_vars(Drain)
-----------------------------------------------------------------------------
\* The types; a request is outstanding exactly while the write of it is.
TypeOK ==
    /\ running \in BOOLEAN /\ stopEvent \in BOOLEAN /\ applyEvent \in BOOLEAN
    /\ room \in BOOLEAN /\ reqEvent \in BOOLEAN
    /\ next \in Nat /\ queue \in Seq(Nat) /\ dropped \subseteq Nat
    /\ cur \in Nat /\ sent \in Seq(Nat)
    /\ {writeOp, readOp, eventOp} \subseteq Operations
    /\ {reqLen, readLen, holding, inQueue} \subseteq Nat
    /\ (cur = Pill) = (writeOp = "none")

\* Write() queues (mt_serial.cpp:202), the writer sends: requests are written
\* in the order they were made and no request twice, whatever fails.
WritesInOrder == \A i, j \in 1 .. Len(sent) : i < j => sent[i] < sent[j]

\* "Discard oldest entry if the queue is full" (mt_serial.cpp:221): a request
\* is lost only when as many newer ones as the queue holds were made.
OnlyOldestDropped == \A i \in dropped : i + QueueSize <= next

\* A read with disabled timeouts blocks until it has all its bytes: it is
\* never started for more bytes than have come.
ReadsWhatIsThere == readOp = "pending" => readLen <= inQueue

\* The requests of both threads: written in order, dropped oldest first, and
\* reads that do not wait.
RequestsKept == TypeOK /\ WritesInOrder /\ OnlyOldestDropped /\ ReadsWhatIsThere

\* SuperIO deletes the emulated port as soon as Stop() returned, without a
\* join.  The reader may still call into it, but for one pass of its loop
\* only: one delivery and one break at most are begun after the stop.
OnePassAfterStop == late.deliver <= 1 /\ late.break <= 1

\* The poison pill and the stop event reach the writer wherever it is, even
\* with a write outstanding or failed.
WriterEnds == ~running ~> writer = "done"

\* The reader ends too, unless it has bytes left that the port, which nobody
\* reads any more, has no room for.
ReaderEnds == ~running ~> \/ reader = "done"
                          \/ reader = "deliver" /\ ~room

\* Without a failure the writer never sleeps on a queue that is not empty,
\* although it tests the size without the mutex of the queue.
WritesGoOut == queue # <<>> ~> (queue = <<>> \/ failed \/ ~running)

\* Settings that differ from the reader's copy reach the port, although the
\* fields are written without m_settingsMutex and copied in between.
SettingsReachPort ==
    (applyEvent /\ reader # "start" /\ local # settings)
      ~> (config = settings \/ failed \/ ~running)

\* The stop ends both threads, wherever it finds them.
ThreadsEnd == WriterEnds /\ ReaderEnds
\* What the emulator asked of a port that works is done.
WorkIsDone == WritesGoOut /\ SettingsReachPort
=============================================================================
