---------------------------- MODULE Pfifo_proofs ----------------------------
(***************************************************************************)
(* Proofs about the command FIFO, for every push buffer, every number of   *)
(* channels and every bound.                                               *)
(***************************************************************************)
EXTENDS Pfifo, TLAPS

-----------------------------------------------------------------------------
(* At most one late method.                                                 *)

LateInv ==
    /\ late \in {0, 1}
    /\ access => late = 0
    /\ late = 1 => puller # "method"

\* Turning FIFO access off leaves the one method that is past the test of
\* pgraph_wait_fifo_access; LateInv is inductive.
LEMMA LateInvStep == LateInv /\ [Next]_vars => LateInv'
<1> SUFFICES ASSUME LateInv, [Next]_vars PROVE LateInv'
    OBVIOUS
<1> USE DEF LateInv
<1>1. CASE UNCHANGED vars
      BY <1>1 DEF vars, pullerVars, graphVars
<1>2. ASSUME NEW p \in Puts, Submit(p) PROVE LateInv'
      BY <1>2 DEF Submit, pullerVars, graphVars
<1>3. ASSUME NEW on \in BOOLEAN, WritePULL0(on) PROVE LateInv'
      BY <1>3 DEF WritePULL0, Wake, pullerVars, graphVars
<1>4. ASSUME NEW on \in BOOLEAN, WriteFIFO(on) PROVE LateInv'
      BY <1>4 DEF WriteFIFO, SetAccess
<1>5. ASSUME NEW c \in Channels, Switch(c) PROVE LateInv'
      BY <1>5 DEF Switch, pullerVars, graphVars
<1>6. ASSUME NEW t \in Threads, UpdateIRQ(t) PROVE LateInv'
      BY <1>6 DEF UpdateIRQ, See, HandleIRQ, pullerVars, graphVars
<1>7. CASE PushWord
      BY <1>7 DEF PushWord, PushData, Command, Wake, pullerVars, graphVars
<1>8. CASE PusherReturns
      BY <1>8 DEF PusherReturns, pullerVars, graphVars
<1>9. CASE Serve
      BY <1>9 DEF Serve, ServePFIFO, ServePCRTC, ServePGRAPH, SetAccess,
                  pullerVars, graphVars
<1>10. CASE Handler
      BY <1>10 DEF Handler, Restart, LoadContext, ClearINTR, EnableFIFO,
                   SetAccess, pullerVars, graphVars
<1>11. CASE PullerStep
  <2>1. CASE Wait \/ AllTaken \/ Lookup \/ WaitContext
        BY <2>1 DEF Wait, AllTaken, Lookup, WaitContext, Puller, pullerVars,
                    graphVars
  <2>2. CASE Take
        BY <2>2 DEF Take, graphVars
  <2>3. CASE Pop
        BY <2>3 DEF Pop, Puller, graphVars
  <2>4. CASE Engine
        BY <2>4 DEF Engine, Puller, graphVars
  <2>5. CASE Trap \/ Raise
        BY <2>5 DEF Trap, Raise, pullerVars, graphVars
  <2>6. CASE WaitAccess
        BY <2>6 DEF WaitAccess, HasAccess, Puller, pullerVars, graphVars
  <2>7. CASE Method
        BY <2>7 DEF Method, Puller, graphVars
  <2> QED  BY <1>11, <2>1, <2>2, <2>3, <2>4, <2>5, <2>6, <2>7 DEF PullerStep
<1>12. CASE VBlank
      BY <1>12 DEF VBlank, pullerVars, graphVars
<1> QED  BY <1>1, <1>2, <1>3, <1>4, <1>5, <1>6, <1>7, <1>8, <1>9, <1>10, <1>11,
            <1>12 DEF Next, Pusher

\* PGRAPH executes at most one method after the guest turned FIFO access off.
THEOREM LateMethod == SafeSpec => []OneLateMethod
<1>1. Init => LateInv
      BY DEF Init, LateInv
<1>2. LateInv => OneLateMethod
      BY DEF LateInv, OneLateMethod
<1> QED  BY <1>1, <1>2, LateInvStep, PTL DEF SafeSpec
-----------------------------------------------------------------------------
(* A bind finds the context of its channel.                                 *)

Right(c) == [channel |-> c, valid |-> TRUE]

\* While CONTEXT_SWITCH is pending the puller is in its wait, and the guest's
\* handler, which loads the trapped channel, has it cleared last.
ContextInv ==
    /\ context.valid \in BOOLEAN
    /\ context = [channel |-> context.channel, valid |-> context.valid]
    /\ "PGRAPH" \in pending => puller \in {"context", "sleepContext"}
    /\ cpu \in {"load", "clear"} => "PGRAPH" \in pending
    /\ cpu = "clear" => context = Right(trapped)
    /\ puller \in {"raise", "context", "sleepContext"} => trapped = cmd.ch
    /\ puller = "sleepContext" => "PGRAPH" \in pending
    /\ puller = "context" /\ "PGRAPH" \notin pending => context = Right(cmd.ch)
    /\ puller = "engine" => cmd.method # "bind"
    /\ (puller \in {"access", "sleepAccess", "method"} /\ cmd.method = "bind")
          => context = Right(cmd.ch)

\* ContextInv is inductive.
LEMMA ContextInvStep == ContextInv /\ [Next]_vars => ContextInv'
<1> SUFFICES ASSUME ContextInv, [Next]_vars PROVE ContextInv'
    OBVIOUS
<1> USE DEF ContextInv, pullerVars, graphVars
<1>1. CASE UNCHANGED vars
      BY <1>1 DEF vars
<1>2. ASSUME NEW p \in Puts, Submit(p) PROVE ContextInv'
      BY <1>2 DEF Submit, Guest
<1>3. ASSUME NEW on \in BOOLEAN, WritePULL0(on) PROVE ContextInv'
      BY <1>3 DEF WritePULL0, Wake
<1>4. ASSUME NEW on \in BOOLEAN, WriteFIFO(on) PROVE ContextInv'
      BY <1>4 DEF WriteFIFO, SetAccess
<1>5. ASSUME NEW c \in Channels, Switch(c) PROVE ContextInv'
      BY <1>5 DEF Switch
<1>6. ASSUME NEW t \in Threads, UpdateIRQ(t) PROVE ContextInv'
      BY <1>6 DEF UpdateIRQ, See, HandleIRQ
<1>7. CASE PushWord
  <2>1. UNCHANGED puller \/ (puller = "wait" /\ puller' = "lock")
        BY <1>7 DEF PushWord, PushData, Command, Wake
  <2>2. UNCHANGED <<cpu, pullerVars, graphVars, pending>>
        BY <1>7 DEF PushWord
  <2> QED  BY <2>1, <2>2
<1>8. CASE PusherReturns
      BY <1>8 DEF PusherReturns
<1>9. CASE ServePFIFO \/ ServePCRTC
      BY <1>9 DEF ServePFIFO, ServePCRTC, Guest
<1>10. CASE ServePGRAPH
      BY <1>10 DEF ServePGRAPH, Guest, SetAccess
<1>11. CASE Restart
      BY <1>11 DEF Restart
<1>12. CASE LoadContext
      BY <1>12 DEF LoadContext, Guest, Right
<1>13. CASE ClearINTR
      BY <1>13 DEF ClearINTR, Guest
<1>14. CASE EnableFIFO
      BY <1>14 DEF EnableFIFO, Guest, SetAccess
<1>15. CASE PullerStep
  <2>1. CASE Wait \/ Take \/ AllTaken
        BY <2>1 DEF Wait, Take, AllTaken, Puller
  <2>2. CASE Pop
    <3>1. UNCHANGED <<cpu, graphVars, pending>> /\ puller = "next"
          BY <2>2 DEF Pop, Puller
    <3>2. \/ puller' \in {"next", "lookup"}
          \/ puller' = "engine" /\ cmd'.method = "draw"
          BY <2>2 DEF Pop, Puller, Begin
    <3> QED  BY <3>1, <3>2
  <2>3. CASE Lookup
        BY <2>3 DEF Lookup, Puller
  <2>4. CASE Engine
        BY <2>4 DEF Engine, Puller
  <2>5. CASE Trap
        BY <2>5 DEF Trap, ContextReady, Right
  <2>6. CASE Raise
        BY <2>6 DEF Raise
  <2>7. CASE WaitContext
        BY <2>7 DEF WaitContext, Puller
  <2>8. CASE WaitAccess
        BY <2>8 DEF WaitAccess, HasAccess, Puller
  <2>9. CASE Method
        BY <2>9 DEF Method, Puller
  <2> QED  BY <1>15, <2>1, <2>2, <2>3, <2>4, <2>5, <2>6, <2>7, <2>8, <2>9
              DEF PullerStep
<1>16. CASE VBlank
      BY <1>16 DEF VBlank
<1> QED  BY <1>1, <1>2, <1>3, <1>4, <1>5, <1>6, <1>7, <1>8, <1>9, <1>10, <1>11,
            <1>12, <1>13, <1>14, <1>15, <1>16 DEF Next, Pusher, Serve, Handler

\* A method that binds an object is executed on the context of its channel.
THEOREM BindInContext == SafeSpec => []RightContext
<1>1. Init => ContextInv
      BY DEF Init, ContextInv
<1>2. ContextInv => RightContext
      BY DEF ContextInv, RightContext, Right
<1> QED  BY <1>1, <1>2, ContextInvStep, PTL DEF SafeSpec
-----------------------------------------------------------------------------
(* The commands are finished in the order in which they were pushed.        *)

Cmds == [n : Nat, ch : Channels, method : Methods]
Busy == puller \in {"lookup", "engine", "trap", "raise", "context",
                    "sleepContext", "access", "sleepAccess", "method"}

\* How many commands the puller has taken from working.
Taken == IF Busy THEN done + 1 ELSE done

QueueTypes ==
    /\ done \in Nat /\ pushed \in Nat
    /\ working \in Seq(Cmds) /\ cache \in Seq(Cmds)
    /\ channel \in Channels
    /\ header.method \in Methods
    /\ header = [method |-> header.method, count |-> header.count,
                 inc |-> header.inc]

\* The commands between the last one finished and the last one pushed are, in
\* this order, the puller's, those of working and those of cache.
OrderInv ==
    /\ QueueTypes
    /\ Busy => cmd.n = done + 1
    /\ \A i \in 1 .. Len(working) : working[i].n = Taken + i
    /\ \A i \in 1 .. Len(cache) : cache[i].n = Taken + Len(working) + i
    /\ pushed = Taken + Len(working) + Len(cache)
    /\ puller \in {"lock", "wait"} => working = <<>>

LEMMA WordHeader ==
    ASSUME NEW w \in Words, w.op = "method"
    PROVE  w.method \in Methods
BY DEF Words

LEMMA AfterMethod == ASSUME NEW m \in Methods PROVE After(m) \in Methods
BY DEF After, Methods

\* What PushWord does to header: one of these.
LEMMA HeaderAfterWord ==
    ASSUME QueueTypes, PushWord
    PROVE  /\ header'.method \in Methods
           /\ header' = [method |-> header'.method, count |-> header'.count,
                         inc |-> header'.inc]
<1>1. CASE UNCHANGED header
      BY <1>1 DEF QueueTypes
<1>2. CASE get[channel] \in DOMAIN Memory /\ header.count > 0
  <2>1. header' = [header EXCEPT !.count = @ - 1,
                      !.method = IF header.inc THEN After(@) ELSE @]
        BY <1>2 DEF PushWord, PushData
  <2>2. header' = [method |-> IF header.inc THEN After(header.method)
                                            ELSE header.method,
                   count |-> header.count - 1, inc |-> header.inc]
        BY <2>1 DEF QueueTypes
  <2> QED  BY <2>2, AfterMethod DEF QueueTypes
<1>3. CASE get[channel] \in DOMAIN Memory /\ ~(header.count > 0)
  <2>1. \/ UNCHANGED header
        \/ /\ Word.op = "method"
           /\ header' = [method |-> Word.method, count |-> Word.count,
                         inc |-> Word.inc]
        BY <1>3 DEF PushWord, Command
  <2>2. Word \in Words
        BY <1>3, PfifoAssumption DEF Word
  <2> QED  BY <2>1, <2>2, <1>1, WordHeader
<1> QED  BY <1>1, <1>2, <1>3 DEF PushWord

\* What PushWord does to the cache: it appends a command, or nothing.
LEMMA CacheAfterWord ==
    ASSUME QueueTypes, PushWord
    PROVE  \/ UNCHANGED <<cache, pushed>>
           \/ /\ pushed' = pushed + 1
              /\ \E c \in Cmds : c.n = pushed + 1 /\ cache' = Append(cache, c)
<1>1. CASE get[channel] \in DOMAIN Memory /\ header.count > 0
  <2> DEFINE c == [n |-> pushed + 1, ch |-> channel, method |-> header.method]
  <2>1. c \in Cmds /\ c.n = pushed + 1
        BY DEF QueueTypes, Cmds
  <2>2. pushed' = pushed + 1 /\ cache' = Append(cache, c)
        BY <1>1 DEF PushWord, PushData
  <2> QED  BY <2>1, <2>2
<1>2. CASE ~(get[channel] \in DOMAIN Memory /\ header.count > 0)
      BY <1>2 DEF PushWord, Command
<1> QED  BY <1>1, <1>2

\* A step that moves no command keeps the order.
LEMMA NothingMoves ==
    ASSUME OrderInv, QueueTypes', UNCHANGED <<working, cache, done, pushed, cmd>>,
           Busy' <=> Busy,
           puller' \in {"lock", "wait"} =>
               puller \in {"lock", "wait"} \/ working = <<>>
    PROVE  OrderInv'
<1>1. Taken' = Taken
      BY DEF Taken
<1> QED  BY <1>1 DEF OrderInv

\* Appending a command to the cache keeps the order.
LEMMA AppendOrder ==
    ASSUME OrderInv, QueueTypes', NEW c \in Cmds, c.n = pushed + 1,
           cache' = Append(cache, c), pushed' = pushed + 1,
           UNCHANGED <<working, done, cmd>>, Busy' <=> Busy,
           puller' \in {"lock", "wait"} => puller \in {"lock", "wait"}
    PROVE  OrderInv'
<1>1. Taken' = Taken /\ Taken \in Nat
      BY DEF Taken, OrderInv, QueueTypes
<1>2. Len(cache') = Len(cache) + 1 /\ Len(cache) \in Nat /\ Len(working) \in Nat
      BY DEF OrderInv, QueueTypes
<1>3. ASSUME NEW i \in 1 .. Len(cache')
      PROVE  cache'[i].n = Taken' + Len(working') + i
  <2>1. CASE i \in 1 .. Len(cache)
    <3>1. cache'[i] = cache[i]
          BY <2>1, <1>2 DEF OrderInv, QueueTypes
    <3> QED  BY <2>1, <3>1, <1>1 DEF OrderInv
  <2>2. CASE i = Len(cache) + 1
    <3>1. cache'[i] = c
          BY <2>2, <1>2 DEF OrderInv, QueueTypes
    <3> QED  BY <2>2, <3>1, <1>1, <1>2 DEF OrderInv
  <2> QED  BY <2>1, <2>2, <1>2
<1>4. pushed' = Taken' + Len(working') + Len(cache')
      BY <1>1, <1>2 DEF OrderInv
<1> QED  BY <1>1, <1>3, <1>4 DEF OrderInv

\* The guest's register writes and UpdateIRQ.
LEMMA GuestKeepsOrder ==
    ASSUME OrderInv,
           \/ \E p \in Puts : Submit(p)
           \/ \E on \in BOOLEAN : WritePULL0(on) \/ WriteFIFO(on)
           \/ \E c \in Channels : Switch(c)
           \/ \E t \in Threads : UpdateIRQ(t)
           \/ Serve \/ Handler \/ VBlank \/ PusherReturns
    PROVE  OrderInv'
<1>1. UNCHANGED <<working, cache, done, pushed, cmd>>
      BY DEF Submit, WritePULL0, WriteFIFO, Switch, UpdateIRQ, See, HandleIRQ,
             Serve, ServePFIFO, ServePCRTC, ServePGRAPH, Handler, Restart,
             LoadContext, ClearINTR, EnableFIFO, VBlank, PusherReturns,
             pullerVars
<1>2. \/ UNCHANGED puller
      \/ puller = "wait" /\ puller' = "lock"
      \/ puller = "sleepAccess" /\ puller' = "access"
      \/ puller = "sleepContext" /\ puller' = "context"
      BY DEF Submit, WritePULL0, WriteFIFO, Switch, UpdateIRQ, See, HandleIRQ,
             Serve, ServePFIFO, ServePCRTC, ServePGRAPH, Handler, Restart,
             LoadContext, ClearINTR, EnableFIFO, VBlank, PusherReturns,
             SetAccess, Wake
<1>3. channel' \in Channels /\ (UNCHANGED header \/ header' = NoHeader)
      BY DEF Submit, WritePULL0, WriteFIFO, Switch, UpdateIRQ, See, HandleIRQ,
             Serve, ServePFIFO, ServePCRTC, ServePGRAPH, Handler, Restart,
             LoadContext, ClearINTR, EnableFIFO, VBlank, PusherReturns,
             pusherVars, OrderInv, QueueTypes
<1>4. QueueTypes'
      BY <1>1, <1>3 DEF OrderInv, QueueTypes, NoHeader, Methods
<1>5. Busy' <=> Busy
      BY <1>2 DEF Busy
<1> QED  BY <1>1, <1>2, <1>4, <1>5, NothingMoves

LEMMA PushKeepsOrder == ASSUME OrderInv, PushWord PROVE OrderInv'
<1>1. UNCHANGED <<working, done, cmd, channel>>
      /\ (UNCHANGED puller \/ (puller = "wait" /\ puller' = "lock"))
      BY DEF PushWord, PushData, Command, Wake, pullerVars
<1>2. QueueTypes
      BY DEF OrderInv
<1>3. Busy' <=> Busy
      BY <1>1 DEF Busy
<1>4. CASE UNCHANGED <<cache, pushed>>
  <2>1. QueueTypes'
        BY <1>1, <1>2, <1>4, HeaderAfterWord DEF QueueTypes
  <2> QED  BY <1>1, <1>3, <1>4, <2>1, NothingMoves
<1>5. ASSUME NEW c \in Cmds, c.n = pushed + 1, cache' = Append(cache, c),
             pushed' = pushed + 1
      PROVE  OrderInv'
  <2>1. cache' \in Seq(Cmds) /\ pushed' \in Nat
        BY <1>2, <1>5 DEF QueueTypes
  <2>2. QueueTypes'
        BY <1>1, <1>2, <2>1, HeaderAfterWord DEF QueueTypes
  <2> QED  BY <1>1, <1>3, <1>5, <2>2, AppendOrder
<1> QED  BY <1>2, <1>4, <1>5, CacheAfterWord

\* The steps of the puller.
LEMMA PullerKeepsOrder == ASSUME OrderInv, PullerStep PROVE OrderInv'
<1>1. QueueTypes
      BY DEF OrderInv
<1>2. CASE Wait \/ Lookup \/ Trap \/ Raise \/ WaitContext \/ WaitAccess
           \/ (Engine /\ bound) \/ AllTaken
  <2>1. UNCHANGED <<working, cache, done, pushed, cmd, channel, header>>
        BY <1>2 DEF Wait, Lookup, Trap, Raise, WaitContext, WaitAccess, Engine,
                    AllTaken, Puller, pullerVars, pusherVars
  <2>2. QueueTypes'
        BY <1>1, <2>1 DEF QueueTypes
  <2>3. (Busy' <=> Busy) /\ (puller' \in {"lock", "wait"} =>
                               puller \in {"lock", "wait"} \/ working = <<>>)
        BY <1>2 DEF Wait, Lookup, Trap, Raise, WaitContext, WaitAccess, Engine,
                    AllTaken, Puller, Busy
  <2> QED  BY <2>1, <2>2, <2>3, NothingMoves
<1>3. CASE Take
  <2>1. /\ puller = "lock" /\ puller' = "next" /\ cache' = <<>>
        /\ working' = working \o cache
        /\ UNCHANGED <<done, pushed, cmd, channel, header>>
        BY <1>3 DEF Take, Popped, pusherVars
  <2>2. working = <<>>
        BY <2>1 DEF OrderInv
  <2>3. working' = cache
        BY <2>1, <2>2, <1>1 DEF QueueTypes
  <2>4. ~Busy /\ ~Busy' /\ Taken = done /\ Taken' = done
        BY <2>1 DEF Busy, Taken
  <2>5. QueueTypes'
        BY <1>1, <2>1, <2>3 DEF QueueTypes
  <2>6. Len(working) = 0 /\ Len(cache') = 0 /\ Len(cache) \in Nat
        BY <1>1, <2>1, <2>2 DEF QueueTypes
  <2>7. \A i \in 1 .. Len(working') : working'[i].n = Taken' + i
        BY <2>3, <2>4, <2>6, <1>1 DEF OrderInv, QueueTypes
  <2>8. pushed' = Taken' + Len(working') + Len(cache')
        BY <2>1, <2>3, <2>4, <2>6, <1>1 DEF OrderInv, QueueTypes
  <2> QED  BY <2>1, <2>4, <2>5, <2>6, <2>7, <2>8 DEF OrderInv
<1>4. CASE Pop
  <2>1. /\ working # <<>> /\ working' = Tail(working)
        /\ UNCHANGED <<cache, pushed, channel, header>>
        /\ puller = "next" /\ puller' \in {"next", "lookup", "engine"}
        BY <1>4 DEF Pop, Puller, pusherVars
  <2>2. IF Busy' THEN cmd' = Head(working) /\ done' = done
                 ELSE done' = Head(working).n
        BY <1>4 DEF Pop, Puller, Begin, Finish, Busy
  <2>3. ~Busy /\ Taken = done
        BY <2>1 DEF Busy, Taken
  <2>4. /\ Len(working) \in Nat \ {0} /\ Len(working') = Len(working) - 1
        /\ Head(working) = working[1] /\ working' \in Seq(Cmds)
        /\ \A i \in 1 .. Len(working') : working'[i] = working[i + 1]
        BY <1>1, <2>1 DEF QueueTypes
  <2>5. Head(working).n = done + 1
        BY <2>3, <2>4 DEF OrderInv
  <2>6. Taken' = done + 1 /\ done' \in Nat /\ (Busy' => cmd'.n = done' + 1)
        BY <2>2, <2>5, <1>1 DEF Taken, QueueTypes
  <2>7. ASSUME NEW i \in 1 .. Len(working')
        PROVE  working'[i].n = Taken' + i
    <3>1. i + 1 \in 1 .. Len(working)
          BY <2>4
    <3>2. working[i + 1].n = Taken + (i + 1)
          BY <3>1 DEF OrderInv
    <3>3. working'[i].n = done + (i + 1)
          BY <2>3, <2>4, <3>2
    <3>4. done \in Nat /\ i \in Nat /\ Taken' = done + 1
          BY <2>6, <1>1 DEF QueueTypes
    <3> HIDE DEF Taken
    <3> QED  BY <3>3, <3>4
  <2>8. \A i \in 1 .. Len(cache') : cache'[i].n = Taken' + Len(working') + i
        BY <2>1, <2>3, <2>4, <2>6, <1>1 DEF OrderInv, QueueTypes
  <2>9. pushed' = Taken' + Len(working') + Len(cache')
        BY <2>1, <2>3, <2>4, <2>6, <1>1 DEF OrderInv, QueueTypes
  <2>10. QueueTypes'
        BY <1>1, <2>1, <2>4, <2>6 DEF QueueTypes
  <2> QED  BY <2>1, <2>6, <2>7, <2>8, <2>9, <2>10 DEF OrderInv
<1>5. CASE Method \/ (Engine /\ ~bound)
  <2>1. /\ Busy /\ puller' = "next" /\ done' = cmd.n
        /\ UNCHANGED <<working, cache, pushed, channel, header>>
        BY <1>5 DEF Method, Engine, Puller, Finish, Busy, pusherVars
  <2>2. ~Busy' /\ done' = done + 1
        BY <2>1 DEF OrderInv, Busy
  <2>3. Taken' = Taken
        BY <2>1, <2>2 DEF Taken
  <2>4. QueueTypes'
        BY <1>1, <2>1, <2>2 DEF QueueTypes
  <2> QED  BY <2>1, <2>2, <2>3, <2>4 DEF OrderInv
<1> QED  BY <1>2, <1>3, <1>4, <1>5 DEF PullerStep

LEMMA OrderInvStep == OrderInv /\ [Next]_vars => OrderInv'
<1> SUFFICES ASSUME OrderInv, [Next]_vars PROVE OrderInv'
    OBVIOUS
<1>1. CASE UNCHANGED vars
  <2>1. UNCHANGED <<working, cache, done, pushed, cmd, puller, channel, header>>
        BY <1>1 DEF vars, pullerVars, pusherVars
  <2>2. QueueTypes' /\ (Busy' <=> Busy)
        BY <2>1 DEF OrderInv, QueueTypes, Busy
  <2> QED  BY <2>1, <2>2, NothingMoves
<1>2. CASE PushWord
      BY <1>2, PushKeepsOrder
<1>3. CASE PullerStep
      BY <1>3, PullerKeepsOrder
<1> QED  BY <1>1, <1>2, <1>3, GuestKeepsOrder DEF Next, Pusher

\* Commands are finished one after the other, none twice and none left out.
THEOREM CommandsInOrder == SafeSpec => InOrder
<1>1. Init => OrderInv
  <2> SUFFICES ASSUME Init PROVE OrderInv
      OBVIOUS
  <2>1. channel \in Channels
        BY PfifoAssumption DEF Init
  <2>2. ~Busy /\ Taken = 0
        BY DEF Init, Busy, Taken
  <2>3. QueueTypes
        BY <2>1 DEF Init, QueueTypes, NoHeader, Methods
  <2> QED  BY <2>2, <2>3 DEF Init, OrderInv
<1>2. OrderInv /\ [Next]_vars => [done' # done => done' = done + 1]_vars
  <2> SUFFICES ASSUME OrderInv, [Next]_vars, done' # done
               PROVE  done' = done + 1
      OBVIOUS
  <2>1. PullerStep
        BY DEF Next, vars, pullerVars, Pusher, PushWord, PusherReturns, Submit,
               WritePULL0, WriteFIFO, Switch, UpdateIRQ, See, HandleIRQ, Serve,
               ServePFIFO, ServePCRTC, ServePGRAPH, Handler, Restart,
               LoadContext, ClearINTR, EnableFIFO, VBlank
  <2>2. CASE Pop
    <3>1. working # <<>> /\ puller = "next" /\ done' = Head(working).n
          BY <2>2 DEF Pop, Puller, Begin, Finish
    <3>2. Len(working) \in Nat \ {0} /\ Head(working) = working[1]
          BY <3>1 DEF OrderInv, QueueTypes
    <3>3. Taken = done
          BY <3>1 DEF Taken, Busy
    <3> QED  BY <3>1, <3>2, <3>3 DEF OrderInv
  <2>3. CASE Method \/ Engine
    <3>1. Busy /\ done' = cmd.n
          BY <2>3 DEF Method, Engine, Puller, Finish, Busy
    <3> QED  BY <3>1 DEF OrderInv
  <2> QED  BY <2>1, <2>2, <2>3 DEF PullerStep, Wait, Take, AllTaken, Lookup,
              Trap, Raise, WaitContext, WaitAccess, pullerVars
<1> QED  BY <1>1, <1>2, OrderInvStep, PTL DEF SafeSpec, InOrder
=============================================================================
