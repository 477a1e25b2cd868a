------------------------------- MODULE Pfifo -------------------------------
(***************************************************************************)
(* The command FIFO of the NV2A (core/openxbox/hw/pci/nv2a.cpp).  The      *)
(* pusher runs on the CPU thread, within the guest's register write that   *)
(* started it: it reads the words of the push buffer of the channel that   *)
(* CACHE1 is switched to and puts the methods in m_PFIFO.cache1.cache.     *)
(* The puller thread moves them to working_cache under the mutex and hands *)
(* them to PGRAPH outside of it, stopping for a context switch, which the  *)
(* guest's interrupt handler performs, and while FIFO access is off.       *)
(* UpdateIRQ is called by these two threads and by the vertical blank      *)
(* thread, with no lock.                                                   *)
(*                                                                         *)
(* One subchannel stands for all of them.  A command carries the number n  *)
(* and the channel ch it was pushed with: n is a history, and ch is what   *)
(* the guest has put in the RAMHT entry of the command's handle.  The      *)
(* asserts are not part of the model: release builds have none.            *)
(***************************************************************************)
EXTENDS Naturals, Sequences

CONSTANTS
    Channels,
    Memory,      \* the push buffers: a sequence of words
    Starts,      \* where the push buffers start, one for each channel
    Puts,        \* what the guest writes to DMA_PUT
    Drained,     \* TRUE if the guest switches channels on an idle puller only
    MaxSubmits,  \* bound: writes to DMA_PUT
    MaxSwitches, \* bound: channel switches
    MaxPauses    \* bound: how often the guest stops the puller or PGRAPH

\* Methods: 0 binds an object, 0x100 and up go to the engine, those from 0x180
\* to 0x1FF with an object; the others are ignored.
Methods == {"bind", "reserved", "object", "draw"}
After(m) == IF m = "bind" THEN "reserved" ELSE m

Words == [op : {"method"}, method : Methods, count : Nat, inc : BOOLEAN]
           \cup [op : {"jump", "call"}, to : Nat]
           \cup [op : {"return", "data", "bad"}]

ASSUME PfifoAssumption ==
    /\ Memory \in Seq(Words) /\ Starts \in [Channels -> Nat] /\ Puts \subseteq Nat
    /\ Drained \in BOOLEAN /\ Channels # {}
    /\ MaxSubmits \in Nat /\ MaxSwitches \in Nat /\ MaxPauses \in Nat

VARIABLES
    put, get,    \* channel_control[c].dma_put and dma_get
    channel,     \* cache1.channel_id
    suspended,   \* cache1.dma_push_suspended
    error,       \* cache1.error
    header,      \* cache1.method, method_count and method_nonincreasing
    sub,         \* cache1.subroutine_return if subroutine_active, else 0
    cpu,         \* what the CPU thread is doing
    cache,       \* cache1.cache
    pull,        \* cache1.pull_enabled
    working,     \* cache1.working_cache
    puller,      \* where the puller thread is
    cmd,         \* its command
    bound,       \* bound_engines is ENGINE_GRAPHICS
    context,     \* m_PGRAPH.channel_id and channel_valid
    trapped,     \* m_PGRAPH.trapped_channel_id
    access,      \* m_PGRAPH.fifo_access
    pending,     \* the blocks with an interrupt pending
    pmc,         \* m_PMC.pendingInterrupts
    line,        \* the level of the interrupt line
    irq,         \* irq[t]: UpdateIRQ in thread t
    pushed,      \* how many commands were pushed
    done,        \* the number of the last command that was finished
    late,        \* methods executed since the guest stopped PGRAPH
    budget       \* what is left of the bounds

pusherVars == <<put, get, channel, suspended, error, header, sub>>
pullerVars == <<working, cmd, bound, done, late>>
graphVars  == <<context, trapped, access>>
irqVars    == <<pmc, line, irq>>
vars == <<pusherVars, cpu, cache, pull, puller, pullerVars, graphVars, pending,
          irqVars, pushed, budget>>

Threads == {"cpu", "puller", "vblank"}
NoCmd == [n |-> 0]
NoHeader == [method |-> "draw", count |-> 0, inc |-> FALSE]
Idle == [at |-> "idle", saw |-> {}]

\* The guest has set up the channels and turned everything on.
Init ==
    /\ put = Starts /\ get = Starts
    /\ channel = CHOOSE c \in Channels : TRUE
    /\ suspended = FALSE /\ error = FALSE /\ header = NoHeader /\ sub = 0
    /\ cpu = "guest"
    /\ cache = <<>> /\ pull = TRUE
    /\ working = <<>> /\ puller = "lock" /\ cmd = NoCmd /\ bound = FALSE
    /\ context = [channel |-> channel, valid |-> FALSE]
    /\ trapped = channel /\ access = TRUE
    /\ pending = {} /\ pmc = {} /\ line = FALSE
    /\ irq = [t \in Threads |-> Idle]
    /\ pushed = 0 /\ done = 0 /\ late = 0
    /\ budget = [submit |-> MaxSubmits, switch |-> MaxSwitches,
                 pause |-> MaxPauses]

Spend(what) == /\ budget[what] > 0
               /\ budget' = [budget EXCEPT ![what] = @ - 1]
-----------------------------------------------------------------------------
(* UpdateIRQ: a thread looks at the blocks, then updates PMC and the line.  *)
(* The calls are not ordered: what a thread has seen may be stale.          *)

StartUpdateIRQ(t) == irq' = [irq EXCEPT ![t] = [at |-> "see", saw |-> {}]]

See(t) ==
    /\ irq[t].at = "see"
    /\ irq' = [irq EXCEPT ![t] = [at |-> "tell", saw |-> pending]]
    /\ UNCHANGED <<pusherVars, cpu, cache, pull, puller, pullerVars,
                   graphVars, pending, pmc, line, pushed, budget>>

HandleIRQ(t) ==
    /\ irq[t].at = "tell"
    /\ pmc' = irq[t].saw
    /\ line' = (irq[t].saw # {})
    /\ irq' = [irq EXCEPT ![t] = Idle]
    /\ UNCHANGED <<pusherVars, cpu, cache, pull, puller, pullerVars,
                   graphVars, pending, pushed, budget>>

UpdateIRQ(t) == See(t) \/ HandleIRQ(t)

\* A tick that would find everything as it is now is left out.
VBlank == /\ irq["vblank"] = Idle
          /\ "PCRTC" \notin pending \/ pmc # pending
          /\ pending' = pending \cup {"PCRTC"}
          /\ StartUpdateIRQ("vblank")
          /\ UNCHANGED <<pusherVars, cpu, cache, pull, puller, pullerVars,
                         graphVars, pmc, line, pushed, budget>>
-----------------------------------------------------------------------------
(* The pusher: one step for each word, while the CPU thread is in           *)
(* pfifo_run_pusher.  cpu is "push", or "resume" if DMA_PUSH started it.    *)

Pushing == cpu \in {"push", "resume"}
Word == Memory[get[channel]]
Advance(a) == get' = [get EXCEPT ![channel] = a]

NoWake == UNCHANGED puller     \* mutant: nothing is notified
Wake == puller' = IF puller = "wait" THEN "lock" ELSE puller

PushData ==
    /\ cache' = Append(cache, [n |-> pushed + 1, ch |-> channel,
                               method |-> header.method])
    /\ pushed' = pushed + 1
    /\ Wake
    /\ header' = [header EXCEPT !.count = @ - 1,
                                !.method = IF header.inc THEN After(@) ELSE @]
    /\ Advance(get[channel] + 1)
    /\ UNCHANGED <<sub, error>>

Command ==
    /\ UNCHANGED <<cache, pushed, puller>>
    /\ CASE Word.op = "method" ->
              /\ header' = [method |-> Word.method, count |-> Word.count,
                            inc |-> Word.inc]
              /\ Advance(get[channel] + 1) /\ UNCHANGED <<sub, error>>
         [] Word.op = "jump" ->
              Advance(Word.to) /\ UNCHANGED <<header, sub, error>>
         [] Word.op = "call" /\ sub = 0 ->
              /\ sub' = get[channel] + 1 /\ Advance(Word.to)
              /\ UNCHANGED <<header, error>>
         [] Word.op = "return" /\ sub # 0 ->
              Advance(sub) /\ sub' = 0 /\ UNCHANGED <<header, error>>
         [] OTHER ->     \* the errors RESERVED_CMD, CALL and RETURN
              /\ error' = TRUE /\ Advance(get[channel] + 1)
              /\ UNCHANGED <<header, sub>>

PushWord ==
    /\ Pushing /\ ~error /\ get[channel] # put[channel]
    /\ IF get[channel] \notin DOMAIN Memory     \* the error PROTECTION
       THEN error' = TRUE /\ UNCHANGED <<get, header, sub, cache, pushed, puller>>
       ELSE IF header.count > 0 THEN PushData ELSE Command
    /\ UNCHANGED <<put, channel, suspended, cpu, pull, pullerVars, graphVars,
                   pending, irqVars, budget>>

\* An error suspends the pusher, but the write to DMA_PUSH that resumed it
\* stores its own status after that.
PusherReturns ==
    /\ Pushing /\ (error \/ get[channel] = put[channel])
    /\ suspended' = (error /\ cpu = "push")
    /\ IF error THEN pending' = pending \cup {"PFIFO"} /\ StartUpdateIRQ("cpu")
                ELSE UNCHANGED <<pending, irq>>
    /\ cpu' = "guest"
    /\ UNCHANGED <<put, get, channel, error, header, sub, cache, pull, puller,
                   pullerVars, graphVars, pmc, line, pushed, budget>>
-----------------------------------------------------------------------------
(* The guest's register writes.  The CPU thread does nothing else while it  *)
(* is in the pusher or in UpdateIRQ.                                        *)

Guest(at) == cpu = at /\ irq["cpu"] = Idle

\* USER: DMA_PUT.  The guest appends to its push buffer.
Submit(p) ==
    /\ Guest("guest") /\ Spend("submit")
    /\ p > put[channel]
    /\ put' = [put EXCEPT ![channel] = p]
    /\ cpu' = IF suspended THEN "guest" ELSE "push"
    /\ UNCHANGED <<get, channel, suspended, error, header, sub, cache, pull,
                   puller, pullerVars, graphVars, pending, irqVars, pushed>>

\* CACHE1_PULL0.
WritePULL0(on) ==
    /\ Guest("guest") /\ pull # on
    /\ IF on THEN UNCHANGED budget ELSE Spend("pause")
    /\ pull' = on
    /\ IF on THEN Wake ELSE UNCHANGED puller
    /\ UNCHANGED <<pusherVars, cpu, cache, pullerVars, graphVars, pending,
                   irqVars, pushed>>

\* PGRAPH_FIFO: a puller that waits for access looks again.
SetAccess(on) ==
    /\ access' = on
    /\ late' = IF on THEN 0 ELSE late
    /\ puller' = IF puller = "sleepAccess" THEN "access" ELSE puller

WriteFIFO(on) ==
    /\ Guest("guest") /\ access # on
    /\ IF on THEN UNCHANGED budget ELSE Spend("pause")
    /\ SetAccess(on)
    /\ UNCHANGED <<pusherVars, cpu, cache, pull, working, cmd, bound, done,
                   context, trapped, pending, irqVars, pushed>>

\* CACHE1_PUSH1: another channel, once CACHE1_STATUS says that the cache is
\* empty and the pusher has finished.
Switch(c) ==
    /\ Guest("guest") /\ c # channel /\ Spend("switch")
    /\ get[channel] = put[channel] /\ ~error /\ header.count = 0 /\ sub = 0
    /\ cache = <<>>
    /\ Drained => puller \in {"lock", "wait"}
    /\ channel' = c
    /\ UNCHANGED <<put, get, suspended, error, header, sub, cpu, cache, pull,
                   puller, pullerVars, graphVars, pending, irqVars, pushed>>

\* The interrupt handler: a push buffer error is cleared and the pusher
\* resumed (PFIFO_INTR_0, CACHE1_DMA_STATE, CACHE1_DMA_PUSH).
ServePFIFO ==
    /\ Guest("guest") /\ line /\ "PFIFO" \in pmc
    /\ pending' = pending \ {"PFIFO"} /\ StartUpdateIRQ("cpu")
    /\ cpu' = IF error THEN "restart" ELSE "guest"
    /\ UNCHANGED <<pusherVars, cache, pull, puller, pullerVars, graphVars, pmc,
                   line, pushed, budget>>

Restart ==
    /\ Guest("restart")
    /\ error' = FALSE /\ header' = NoHeader
    /\ suspended' = FALSE
    /\ cpu' = IF suspended THEN "resume" ELSE "guest"
    /\ UNCHANGED <<put, get, channel, sub, cache, pull, puller, pullerVars,
                   graphVars, pending, irqVars, pushed, budget>>

\* PCRTC_INTR_0.
ServePCRTC ==
    /\ Guest("guest") /\ line /\ "PCRTC" \in pmc
    /\ pending' = pending \ {"PCRTC"} /\ StartUpdateIRQ("cpu")
    /\ UNCHANGED <<pusherVars, cpu, cache, pull, puller, pullerVars, graphVars,
                   pmc, line, pushed, budget>>

\* The context switch: PGRAPH_FIFO off, CTX_USER and CTX_CONTROL, PGRAPH_INTR,
\* which does not call UpdateIRQ, and PGRAPH_FIFO on.
ServePGRAPH ==
    /\ Guest("guest") /\ line /\ "PGRAPH" \in pmc \cap pending /\ access
    /\ SetAccess(FALSE) /\ cpu' = "load"
    /\ UNCHANGED <<pusherVars, cache, pull, working, cmd, bound, done, context,
                   trapped, pending, irqVars, pushed, budget>>

LoadContext ==
    /\ Guest("load") /\ cpu' = "clear"
    /\ context' = [channel |-> trapped, valid |-> TRUE]
    /\ UNCHANGED <<pusherVars, cache, pull, puller, pullerVars, trapped, access,
                   pending, irqVars, pushed, budget>>

ClearINTR ==
    /\ Guest("clear") /\ cpu' = "enable"
    /\ pending' = pending \ {"PGRAPH"}
    /\ puller' = IF puller = "sleepContext" THEN "context" ELSE puller
    /\ UNCHANGED <<pusherVars, cache, pull, pullerVars, graphVars, irqVars,
                   pushed, budget>>

EnableFIFO ==
    /\ Guest("enable") /\ cpu' = "guest"
    /\ SetAccess(TRUE)
    /\ UNCHANGED <<pusherVars, cache, pull, working, cmd, bound, done, context,
                   trapped, pending, irqVars, pushed, budget>>
-----------------------------------------------------------------------------
(* The puller thread.                                                       *)

Puller(from, to) ==
    /\ puller = from /\ puller' = to
    /\ UNCHANGED <<pusherVars, cpu, cache, pull, graphVars, pending, irqVars,
                   pushed, budget>>

\* Under the mutex: wait, or take everything that is in the cache.
Wait == /\ cache = <<>> \/ ~pull
        /\ Puller("lock", "wait") /\ UNCHANGED pullerVars

Kept == cache     \* mutant: what is taken is not popped
Popped == <<>>

Take == /\ puller = "lock" /\ puller' = "next"
        /\ cache # <<>> /\ pull
        /\ working' = working \o cache /\ cache' = Popped
        /\ UNCHANGED <<pusherVars, cpu, pull, cmd, bound, done, late, graphVars,
                       pending, irqVars, pushed, budget>>

AllTaken == /\ working = <<>>
            /\ Puller("next", "lock") /\ UNCHANGED pullerVars

Begin(c) == cmd' = c /\ UNCHANGED done
Finish(c) == cmd' = NoCmd /\ done' = c.n

Pop == /\ working # <<>>
       /\ working' = Tail(working)
       /\ LET c == Head(working)
          IN  CASE c.method = "reserved" -> Puller("next", "next") /\ Finish(c)
                [] c.method = "draw" -> Puller("next", "engine") /\ Begin(c)
                [] OTHER -> Puller("next", "lookup") /\ Begin(c)
       /\ UNCHANGED <<bound, late>>

\* ramht_lookup, with the handle that is the parameter.
Lookup == /\ Puller("lookup", IF cmd.method = "bind" THEN "trap" ELSE "engine")
          /\ UNCHANGED pullerVars

\* Methods of an engine other than the graphics engine are dropped.
Engine == /\ Puller("engine", IF bound THEN "access" ELSE "next")
          /\ IF bound THEN UNCHANGED <<cmd, done>> ELSE Finish(cmd)
          /\ UNCHANGED <<working, bound, late>>

\* pgraph_context_switch.
IgnoreValid == context.channel = cmd.ch     \* mutant: CTX_CONTROL is not read
ContextReady == context.valid /\ context.channel = cmd.ch

Trap == /\ puller = "trap"
        /\ IF ContextReady THEN puller' = "access" /\ UNCHANGED trapped
                           ELSE puller' = "raise" /\ trapped' = cmd.ch
        /\ UNCHANGED <<pusherVars, cpu, cache, pull, pullerVars, context,
                       access, pending, irqVars, pushed, budget>>

Raise == /\ puller = "raise" /\ puller' = "context"
         /\ pending' = pending \cup {"PGRAPH"} /\ StartUpdateIRQ("puller")
         /\ UNCHANGED <<pusherVars, cpu, cache, pull, pullerVars, graphVars,
                        pmc, line, pushed, budget>>

WaitContext == /\ irq["puller"] = Idle
               /\ Puller("context", IF "PGRAPH" \in pending THEN "sleepContext"
                                    ELSE "access")
               /\ UNCHANGED pullerVars

\* pgraph_wait_fifo_access.
AlwaysAccess == TRUE     \* mutant: the puller does not wait
HasAccess == access
WaitAccess == /\ Puller("access", IF HasAccess THEN "method" ELSE "sleepAccess")
              /\ UNCHANGED pullerVars

\* pgraph_method; FIFO access may have been turned off again.
Method == /\ Puller("method", "next")
          /\ Finish(cmd)
          /\ late' = IF access THEN late ELSE late + 1
          /\ bound' = (bound \/ cmd.method = "bind")
          /\ UNCHANGED working

PullerStep == \/ Wait \/ Take \/ AllTaken \/ Pop \/ Lookup \/ Engine \/ Trap
              \/ Raise \/ WaitContext \/ WaitAccess \/ Method
-----------------------------------------------------------------------------
Serve == ServePFIFO \/ ServePCRTC \/ ServePGRAPH
Handler == Restart \/ LoadContext \/ ClearINTR \/ EnableFIFO
Pusher == PushWord \/ PusherReturns

Next == \/ Pusher \/ Serve \/ Handler \/ PullerStep \/ VBlank
        \/ \E p \in Puts : Submit(p)
        \/ \E on \in BOOLEAN : WritePULL0(on) \/ WriteFIFO(on)
        \/ \E c \in Channels : Switch(c)
        \/ \E t \in Threads : UpdateIRQ(t)

SafeSpec == Init /\ [][Next]_vars

\* The threads run, the guest handles its interrupts and turns on again what
\* it has turned off.
Fairness ==
    /\ WF_vars(Pusher \/ Handler \/ UpdateIRQ("cpu"))
    /\ WF_vars(PullerStep \/ UpdateIRQ("puller"))
    /\ WF_vars(VBlank \/ UpdateIRQ("vblank"))
    /\ SF_vars(ServePFIFO) /\ SF_vars(ServePCRTC) /\ SF_vars(ServePGRAPH)
    /\ SF_vars(WritePULL0(TRUE)) /\ SF_vars(WriteFIFO(TRUE))

Spec == SafeSpec /\ Fairness
-----------------------------------------------------------------------------
\* The puller finishes every command that the pusher pushes, once and in the
\* order of the push buffer: none is lost, repeated or overtaken on its way
\* through the two queues.
InOrder == [][done' # done => done' = done + 1]_vars

\* A method that binds an object finds PGRAPH switched to its channel, though
\* pgraph_context_switch does not look again after its wait.
RightContext == (puller = "method" /\ cmd.method = "bind") =>
                   context = [channel |-> cmd.ch, valid |-> TRUE]

\* When the guest has turned FIFO access off, PGRAPH executes at most the one
\* method that had passed pgraph_wait_fifo_access.
OneLateMethod == late <= 1

\* However the updates of the interrupt line race, every command that was
\* pushed is finished: the vertical blank repairs an update that was lost.
AllFinished == (done < pushed) ~> (done = pushed)
=============================================================================
