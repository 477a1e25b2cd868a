# OpenXBOX: verification project

TLA+ models of OpenXBOX, an emulator of the original Xbox, with the TLC runs
that check them on small instances and the TLAPS proofs that hold for every
instance. Paths below are relative to `src/core/openxbox/` of the repository
unless they begin with another directory of `src/`.

## 1. The system

A CPU thread runs the guest in a hypervisor (KVM, HAXM or the Windows
Hypervisor Platform, one plug-in module each). Every exit of the hypervisor is an
access to an I/O port or to a device's memory, which the CPU thread carries out
itself, inside the device's register handler. Around that thread there are
others: the interval timer, one OHCI frame timer per controller, the NV2A's
puller and vertical blank threads, two threads per host serial port, two delayed
invocation threads per serial port, and the main thread, which starts the CPU
thread and destroys everything when it has ended. Devices raise interrupts from
any of these threads, through the i8259 pair, into the queue of class `Cpu`.

| component | state | operations | interacts with | what is hard |
|---|---|---|---|---|
| CPU interrupt queue, `RunCpu` (`cpu-module/openxbox/cpu.cpp`, `xbox.cpp`) | pending vectors, their mutex, credits | `Interrupt`, `InjectPendingInterrupt`, the run loop | devices' threads, the backend | unlocked tests of the queue; credits in a `uint8_t`; a vector must neither be lost nor starve the guest |
| KVM, HAXM, WHVP backends | run page, pending event, cancellation; copies of the registers and their flags | run, inject, request a window, cancel; read and write registers, memory | the hypervisor, the queue, debugger | the window is sampled at one exit and used at the next; a cancel races the exit; copies that are stale or not written back |
| emulator lifecycle (`xbox.cpp`), i8254 | run flags, thread handles, error codes | run, stop on an error, destructors | all devices | flags written by two threads; the timer's thread uses the i8259 while it is destroyed |
| i8259 pair (`hw/basic/i8259.cpp`) | IRR, ISR, IMR, modes of two controllers | port commands, `HandleIRQ`, `UpdateIRQ` | devices' threads, queue | `UpdateIRQ` calls itself through the acknowledgement; cascade; priority modes |
| delayed invocation (`util/invoke_later.cpp`) | flags, expiration, two condition variables | `Set`, `Cancel`, `Stop`, its thread | serial port | waits without a predicate |
| serial port (`hw/basic/serial.cpp`) | 16550 registers, receive FIFO | register accesses, `CanReceive`, `Receive`, breaks, timers | host driver, i8259 | two threads without a lock; the interrupt must match the registers; flow control |
| host serial driver (`hw/basic/win32/mt_serial.cpp`) | write queue, events, overlapped operations, settings | `Write`, `ApplySettings`, `Stop`, two loops | serial port, Windows | three threads, failed operations, a stop nobody waits for |
| NV2A command FIFO (`hw/pci/nv2a.cpp`) | CACHE1, two command queues, PGRAPH's context and traps, interrupt bits | pusher, puller, context switch, `UpdateIRQ`, vertical blank | guest's driver, i8259 | three threads, three locks, waits that end by an action of the guest |
| NV2A graphics engine (same file) | registers, objects bound to subchannels, matrices, video memory | the methods of four classes, the blit | command FIFO | some 150 settings that share registers; overlapping copies |
| OHCI controller (`hw/ohci/ohci.cpp`, `common/openxbox/cxbxtimer.cpp`) | operational registers, done queue, frame timers | frame worker, ED and TD processing, register writes | guest memory, timer threads, USB devices | the frame worker against register writes and against a second timer |
| USB core, hub, gamepad (`hw/pci/usb_pci.cpp`, `hw/ohci/ohci_hub.cpp`, `hw/xid/xid_gamepad.cpp`) | ports, addresses, stage and buffer of the control transfer | attach, detach, reset, wake, control and data packets | OHCI | plugs, resets and suspends that interrupt an enumeration; transfers spread over packets |
| I/O mapper, PCI bus, LPC bridge (`common/openxbox/io.cpp`, `hw/bus/pcibus.cpp`, `hw/pci/pci.cpp`, `hw/pci/lpc.cpp`) | ranges, configuration spaces, routing | dispatch, configure, route an interrupt | every device | windows that are being placed; routing that changes |
| SMBus, SMC, EEPROM, TV encoder (`hw/bus/smbus.cpp`, `hw/sm`) | transaction registers, block buffer | byte, word and block transactions | LPC, lifecycle | the status bits the guest acknowledges; an index that outlives a transaction |
| ATA (`hw/ata`) | per channel registers, a PIO buffer per drive, command state | register accesses, device selection, three commands | i8259 | two drives behind one task file |
| Super I/O (`hw/basic/superio.cpp`) | selected register, registers | configuration | serial ports | registers of several devices behind one pair of ports |
| GDB server (`gdbserver.cpp`) | packet buffer, copy of the registers | receive, acknowledge, reply, step, continue | CPU before it runs | acknowledgements; a failed reply; writes that must reach the CPU |
| containers, XBE loader, module loader, network, audio, debug dumps, command line | none, or plain register files | read, print, store | | sequential, or without behaviour |

`PROJECT.json` has one entry for every part, the ones not modelled included, with
its files and the reason.

## 2. The modules

Each component has a module with its state, one action per operation or step, its
specification and its properties; `MC...` gives the constants of the runs.

**InterruptDelivery** is what `Cpu::Interrupt` promises: vectors are handled one at a
time, in the order raised, each once, and none waits for ever.

**InterruptQueue** refines it. `InterruptLock/Push/Notify` are the steps of
`Cpu::Interrupt`, in any thread and in the CPU thread's own I/O handlers;
`CpuStep` is the loop of `RunCpu` (`test`, `afford`, `lock`, `inject`, run, exit).
`size()` is tested without the mutex, as in the code. The backend is a variable
chosen in `Init`: the tunnel contract of KVM and HAXM (window requested, `ready`
sampled at the exit) or WHVP (cancel, pending event register). Credits are kept
modulo 256. `popped`, `taken`, `burst` and the like only record what happened.

**Lifecycle** follows `Xbox::Run`, `RunCpu` and `~Xbox` with the i8254's thread, from the
guest's write to the join: each assignment of `m_should_run` and `m_running` is a step
of its own, so that the late `m_running = true` of `i8254::Run` can override the
destructor's `false`.

**I8259** has the two controllers, every port command and `HandleIRQ`. The recursion of
`UpdateIRQ` through the acknowledgement is executed step by step (`work`, `stack`),
because the inner call sends its vector before the outer one. **PicCommands** puts it
under a guest that writes any command at any time; **PicHandlers** under a guest
with handlers, EOIs and masking, with the queue in its abstract form.

**InvokeLater** has each step of the timer thread and of `Set`, `Cancel` and `Stop`; a
notification reaches the thread only while it waits.

**Serial** has every register access, `CanReceive`, `Receive`, breaks and the two
timers. A call is one step, but any call of the guest may come between `CanReceive`
and the `Receive` that relies on it.

**SerialComm** has the two loops of the host driver with their overlapped
operations, the write queue with its condition variable, the settings and the
stop. Windows may complete an operation at once, later, or fail it.
`WaitForMultipleObjects` reports the first event set, so a failed operation, whose
event nobody resets, hides the ones after it, as in the code.

**Pfifo** has the pusher (on the CPU thread, one word per step), both queues, the
puller with its locks and waits, PGRAPH's context switch and FIFO access, the traps, and
`UpdateIRQ` in steps on the CPU, puller and vertical blank threads. The guest's driver
is external: it submits push buffers, switches channels, pauses the units and
handles interrupts.

**Pgraph** has what the methods do. A row of a table says which bits of a parameter a
method copies to which bits of a register, an object, a variable or an element of a
matrix (`GET_MASK`, `SET_MASK`); a choice is a `switch` that codes the parameter. The
blit copies row by row, with the addresses the code computes. The dirty flags and the
cached write enables are left out: nothing in the program reads them.

**Ohci** has the frame worker one transfer descriptor at a time, with each load and
store of `HcInterruptStatus`, the three kinds of lists, isochronous descriptors, the done
queue and its delay counter, and the timers of `cxbxtimer.cpp` with the test and the set of
`m_bFrameTime` as two steps. Register writes come between any two of them. A timer that
was stopped expires once more before its thread looks at the exit flag; the model
assumes that it does so within a frame. A packet that moves only a part of a descriptor's
buffer leaves the descriptor as it was and is not a step.

**UsbDescriptors**, **UsbTree**, **UsbControl** and **Usb** have the devices on the root
ports. An operator takes the state of the tree and gives the one it leaves, so that
calls nest as in the code (a hub's reset announces its ports, a gamepad's wake goes
through the hub to the controller). Nothing in the program calls `Hub::Init` or
`XidGamepad::Init` yet: this is what they do when they are called. A packet is one step;
assertions on what the guest asks are left out, as a release build does.
`Finish` drops what an endpoint holds when a device leaves. Only the port power and remote
wakeup bits of writes to `HcRhStatus` are modelled.

**PlainCpu** is what the interface of class `Cpu` promises: one register file, one memory,
virtual addresses defined byte by byte from the page tables. **CpuRegs** refines it: the
copies that KVM and HAXM keep with their two flags, WHVP's direct accesses, batches that
fail half-way, a hypervisor that refuses, and the loops of `cpu.cpp` over pages.
**GdbServer** puts a debugger's session on top: packets and acknowledgements on an ordered
link, the copy of the registers, and its write-back. A register is `RegisterBytes` bytes of two
digits below `Digit` each, which `P` and `G` decode in place as `dbg_dec_hex` does: a command
that is refused for a junk digit has written what was before it. `driver` says whether the
emulator's own operations or the debugger use the processor in a behaviour.

**IOMapper**, **PciBus**, **SMBus**, **Ata** and **SuperIO** have the devices behind port
I/O; **Chipset** composes them and **Pgraph** with a guest that runs one routine of a driver
after another. Registers are sets of bit numbers (**RegisterBits**), so that a masked write is
set algebra; every register access of the code is one action, and goes through
the mapper's ranges and the windows of the PCI bus. These devices have no threads and
share nothing but the CPU's thread: a behaviour picks one of them (`focus`).

## 3. What the runs check

| run | properties | instance, and why it is enough |
|---|---|---|
| `iq_backends` | `PopFindsVector`, `BoundedBurst`, `DeliverySound` (types, `TunnelKeepsEvent`, `DeliveredOnlyIfEnabled`, `WhvpLeavesForVector`); `DeliversAll` (refinement with liveness) | one device thread and the CPU thread, two vectors, three interrupts, credits 8/4/1: both raisers hold and want the mutex, two vectors can be affordable and the third not |
| `pic_commands` | `UpdateServes` (types, `RecursionEnds`, `NoRequestStranded`) | three lines per controller (line 2 is the cascade), a device on each; a guest with initialization, automatic EOI, special mask mode and reads, and one with rotation, polling and level triggering |
| `pic_handlers` | `HandledOnce` (`NoDuplicateVector`, `OutstandingInService`), `RequestServed` | two master lines and one slave line, edge and level, two requests each, two nested handlers: the smallest instance where a slave request arrives inside a master handler and again before its EOI |
| `life_stop` | `TimerEndsCleanly` (`DevicesOutliveTimer`, `TimerLeavesLineLow`), `StopsOnFatalError`, `DestructorEnds` | two writes to the timer (the second replaces a running thread), two error codes, one bug check |
| `later_stop` | `OneLateInvocation`, `StopEndsThread` | two callers, three calls, spurious wakeups |
| `serial_port` | `InterruptMatchesState`, `OverrunKeepsContents`, `ReaderResumes` | FIFO of three, trigger levels 1 and 2 (below, at and above the level, and full), every register access in any state |
| `comm_port` | `RequestsKept` (types, `WritesInOrder`, `OnlyOldestDropped`, `ReadsWhatIsThere`), `OnePassAfterStop`, `ThreadsEnd`, `WorkIsDone` | queue of three (two requests fit), four writes, or two and a failure; two bytes and a break; two changes of the settings. The two threads share only the stop, so a behaviour is busy with one of them |
| `pfifo` | `InOrder`, `RightContext`, `OneLateMethod`, `AllFinished` | two channels and a switch; one binds an object and runs into a bad word at once, so that two threads raise and lower the line together, the other calls a subroutine that binds and uses an object; each submits once more, one pause of the puller or of PGRAPH |
| `ohci_frames` | `FrameSerialised`, `WritebackInTime` | two timers, three frames, three descriptors with delays 1, 3 and 7 in one endpoint, isochronous or not, on the periodic or the control list, a device that answers, fails or is not ready, five register writes: a stop, a start and a stop within the frame of the first timer |
| `debugger` | `Coherent`, `RepliesMatch`; `PlainProcessor` (refinement), `WritesReachProcessor`, `CommandAnswered` | the three backends; 16 addresses, pages of 4 and large pages of 8, 12 bytes of RAM with an alias, a hole and a frame past the end; three requests, or three commands of a client: each kind, and `P` and `G` with junk in the first or second byte of a register of two |
| `chipset` | `WindowsAnswer`, `LinesJustified`, `IdentifyInOrder`, `PortsAsConfigured`, `SettingsKeep`; `BlockArrives`, `BlitMoves` | routines of a driver in any order, without a bound on their number but for the graphics settings: windows of four devices at two places, by pieces of 1, 2 and 4 bytes; every protocol of the SMBus; all task file registers with an identity of two words; both serial ports; each pair of graphics settings at their extreme parameters with the corners of each matrix; blits over 80 bytes of memory with two pitches, formats and overlaps |
| `usb` | `PacketsFind` (`AddressNamesItsDevice`, `OneUnaddressed`, `NoSharedAddress`), `ConnectionsNoticed`, `TransfersFaithful` | two root ports, two hubs, a gamepad behind the first, two addresses; plugged three times (two with a suspend or a stop) while the guest resets, disables, suspends or stops; or one enumerated tree and a group of requests with lengths shorter, equal and longer than the answer, in packets of 0, 8 and 20 bytes |

`TypeOK` is a conjunct where it relates variables to each other. Deadlock is not
checked where the bounds, or a stop, end the behaviour by design; `pic_commands` and
`chipset` have no such end and are checked for it. Every property has a mutation of
the code's definitions in `PROJECT.json` that violates it, a property that is a
conjunction one or more.

Bounds are constants named in the modules' CONSTANTS (`MaxRaised`, `MaxQueue`,
`MaxNesting`, `MaxRaises`, `MaxCalls`, `MaxTime`, `Budgets`, `MaxSubmits`, `MaxSwitches`,
`MaxPauses`, `MaxTimers`, `MaxFrames`, `MaxWrites`, `MaxRequests`, `MaxCommands`,
`MaxTimeouts`, `Most`, `Last`, the `plugs` of `Foci`).

What the guests of the newer runs do not do, because the code then fails in the way
section 5 tells:

- `ohci_frames`: go from operational to resume (`MCTransitions`);
- `debugger`: ask again before an answer came (`MaxTimeouts = 0`), or send an empty packet, which
  is acknowledged and never answered (`gdbserver.cpp:1022-1025`);
- `chipset`: access a device while a window is being placed, place two windows over each
  other, change the routing while a line is high, or pass values the graphics methods'
  `switch` does not accept; the firmware's setup (`Setup`) comes first;
- `usb`: reset two ports at once; lengths of a report other than its own (6).

### Fairness

- Threads run: weak fairness of each thread's steps. A mutex that is free again and
  again is acquired in the end (strong fairness of `LockQueue`): the device threads
  hold it for a push only.
- Hypervisors keep their contracts (a requested window or a cancel leads to an exit);
  Windows completes what it can. These are weak fairness of the external actions.
- The guest: in InterruptQueue it performs I/O and does not keep interrupts
  disabled for ever; in PicHandlers it ends its handlers; in Pfifo its handler serves each
  unit and it turns on again what it turned off. In Serial the guest settles in the end:
  it keeps the receiver's interrupts and only handles interrupts, after any use
  of the registers. The code cannot promise more than that: a guest may hang.
- The debugger: the server's thread runs and the client reads what arrives; it need not
  send anything.
- Nothing else is fair: errors, breaks, spurious wakeups and failures may never happen.
  Ohci, Usb and Chipset state safety only.

## 4. What is proved

Eight modules (`..._proofs`) hold theorems that TLAPS checks for every value of the
constants that satisfies the modules' assumptions: any number of threads, timers,
descriptors, requests, lines or commands, and any bounds. No invariant of the runs is
inductive by itself; each entry says what had to be added, which is where the argument lies.

**`InterruptQueue_proofs`** (`CreditAssumption`, which both sets of constants of `cpu.h`
satisfy; `BackendAssumption`; `NameAssumption`, that names differ):

- `TypeCorrect`, with the `uint8_t` of the credits never wrapping;
- `PopIsSafe`: `front()` is never called on an empty queue;
- `BurstIsBounded`: the number of consecutive passes that inject a vector is bounded;
- `DeliveryIsSound`: KVM and HAXM lose no event and get one only while the guest enables
  interrupts; WHVP leaves the guest for a vector that waits;
- `QueueOrder`: raised = popped followed by pending;
- `ImplementsDelivery`: every step is one of InterruptDelivery, or a stutter.

`IInv` adds who owns the mutex (`MutexInv`); that a passed test of `size()` means the
queue holds a vector or a thread is about to push one (`WorkInv`: only the CPU thread
pops, so the test cannot become false); and what the credits still pay for (`CreditInv`:
credits plus the burst times its net cost never exceed the maximum, but for the increment
of the current pass). `TunnelInv` says that `ready`, sampled at the last exit, stays true
of the guest until the next entry, `WaitingInv` that a pass which entered with a vector
waiting, no call in progress and no cancel has injected one or cannot pay. The
order of the queue follows from the push and pop steps (`FifoInv`), and the refinement from
the order: a pop takes `raised[Len(popped) + 1]`.

**`I8259_proofs`** (`LineAssumption`; `HandlerAssumption`: the guest gives the lines
distinct vectors; `CommandAssumption` of PicCommands):

- `OneHandlerPerRequest` (PicHandlers): no vector is sent again before its handler has ended,
  and each on its way has its line in service, so that no handler of a spurious interrupt runs;
- `AnyCommandIsServed` (PicCommands): after every command of a guest that writes any of
  them at any time, `UpdateIRQ` has returned, at a depth bounded by the lines, and left no
  request that the modes allow to be served.

The first turns on the recursion of `UpdateIRQ`. `CascadeInv`: it never acknowledges line
2 of the master, so that the request there is the slave's output as soon as the slave
has been updated; hence an acknowledgement always finds a line. `VectorsInv` puts each vector
in one place (the calls in progress, the CPU's queue, the handlers) with its line in service;
`EOIsInv` keeps the line of an EOI still to be sent in service and its vector away. The second
bounds that recursion by a measure, the number of requests that wait (`DepthInv`): each call
goes down after an acknowledgement that took one, so that what is waiting and the calls in
progress never exceed the lines. `ServedInv` says what each call that is still to return has
established. A guest that combines automatic EOI with level triggering is outside
(`GuestModes`): there the acknowledged request is waiting again at once (section 5).

**`Pfifo_proofs`** (`PfifoAssumption`, the shape of the push buffers):

- `LateMethod`: at most one method after FIFO access was turned off (`LateInv`: the
  puller is past its test for one method only);
- `BindInContext`: a bind is executed on its channel's context, for any
  number of channels. `ContextInv` ties the pending interrupt to the puller's wait
  and to the stages of the guest's handler, which loads the trapped channel;
- `CommandsInOrder`: commands are finished in order, each once. `OrderInv` says that
  the commands between `done` and `pushed` are the puller's, those of the working queue
  and those of the cache, in this order.

**`Ohci_proofs`** (`OhciAssumption`):

- `TypeCorrect`: the worker follows links to descriptors only, and `m_DoneCount` stays in
  its three bits;
- `DoneQueueInTime`: a finished descriptor is handed over within its DelayInterrupt unless
  an earlier interrupt is unacknowledged. `QueueInv`: the age of each descriptor in the
  queue and the frames left to `doneCount` add up to no more than its delay, which the
  minimum taken in `ServiceTD` keeps true of all when one is added;
- `FramesSerialised`: frames of different timers never overlap. `SerialInv`: timers
  are created in order and all but the bus's have been told to end (`InOrder`, `BusTimer`),
  so that only one thread at a time waits for `m_bFrameTime` (`OneContender`), which makes
  its test and its store, two steps in the code, one (`FlagHeld`). The theorem's hypothesis is
  that the driver never writes HCFS from operational to resume: that keeps the timer
  running, and the next start makes a second contender (section 5).
- `PacketsReachTheirDevice` (`UsbAssumption`, `EnumeratedAssumption`): for up to four root ports
  and any devices, addresses, plugs and requests, a packet to an address finds the device the
  guest gave it to or nobody, one to address 0 the device the guest has just reset, and no
  two devices listen to one address. `EnumeratedAssumption` is about the tree focus
  "control" starts from: it is one an enumeration leaves.
  `PlacedInv` is the core of `UsbInv`: a device that listens, so that every port above it is
  enabled, has the address the guest gave it, or address 0 and then it is the pending one. It
  survives because every operation of the tree is one of two kinds: it lets no device in
  (`Quiet`: plugs, unplugs, suspends, disabled ports, most requests), or it lets one in and
  that device has address 0 (a reset: `Lets`). A reset of the controller resets its ports by
  a recursion over at most four of them, which is written out. `AddressesInv`: each
  address is given to one device. `TransferInv` and `ControlInv`: the device that took a
  `SET_ADDRESS` still holds it when its status stage comes, so that the guest's note and the
  device's address change in the same step.
- `TransfersAreFaithful` (the same assumptions): a control read gives the answer to the request
  of its last SETUP, in order, without a gap and all of it; a control write takes effect once,
  after the last byte of its data, on the device that took its SETUP. The requests, the sizes of
  the packets and what is plugged, pulled or reset between them are arbitrary. `EndpointInv`: if
  a device hears the address of an open transfer, it holds the guest's request, has counted no
  effect of it, and its `index` is what the guest has read or written (`Serves`). It is one
  device (`PacketsReachTheirDevice`), so that each packet moves both ends by the same number of
  bytes (`Rest`), and a step that is no packet leaves the devices that still listen as they were
  (`Quiet`) or comes between two transfers. A reply is a number of bytes or a refusal for
  every request (`DescriptorLength`, through the readers of the descriptors, which are at
  most two parts long) and stays the same during the transfer, since it depends on the
  configuration only.
- `ConnectionsAreNoticed` (the same assumptions): whatever is plugged, pulled, reset, suspended or
  disabled and in whatever order, the guest's belief about a port is right, or the change is
  announced and not acknowledged, or the guest is about to read the port; and a gamepad plugged
  into a hub that may wake the host resumes a suspended bus. `ConnInv` stands on `UsbInv` and
  `EndpointInv`. `PortsTell`: a port's connect bit is set exactly when a device is on it, on the
  root ports and, while the hub is on the bus, on its ports, though a reset of the controller
  clears the bits and sets them again one port after another. `RootsKnown` and `PadsKnown`: the
  guest's note of a port is right unless the change is announced, or the port is in the part of
  the scan still to come (`ScanInv`) or on the hub the guest reads next. The hard case is the
  acknowledgement of a hub's change, several packets before the status is read: `AskInv`
  says that from then on the guest either has the port still to read, or holds an answer, in the
  device (`data`) or already received (`answer`), that is right unless the port has changed and
  announced it since (`Reading`). It needs `EndpointInv` for the answer to be the device's own and to go over in
  one piece, and `PlacedInv` for the hub that answers to be the hub that was asked. Each
  operation of the tree is shown to announce what it changes (`Tells`) or to change no
  connection (`SamePorts`).

**`SerialComm_proofs`** (`SerialCommAssumption`):

- `RequestsAreKept`: writes in order and none twice, a full queue loses its oldest
  request only, and a read is not started for bytes that have not come. `OwnerInv` and
  `QueueInv`: the queue is a segment of the requests' numbers that ends with the newest, and
  only the pill, pushed when nobody requests any more, goes in front; `SentInv`: what was sent
  is older than what is being sent, and that is older than the queue;
- `OnePass`: after the stop the reader calls into the port for one delivery and one break
  at most. `LateInv`: once it has, no operation is left whose completion could bring it
  back there before it tests `m_running`.

**`Lifecycle_proofs`** (`LifecycleAssumption`):

- `TimerIsGone`: the timer's thread ends before the i8254 and i8259 are freed and leaves its
  line low;
- `TimerIsUnique`: until the program is ended by `std::terminate` one thread at most runs
  `i8254::Run`. That is the lemma the first needs (`OneTimer`: a thread that was created is the
  one `handle` refers to, so the destructor's join waits for it).

**`Devices_proofs`**, for the delayed invocation, the serial port and the chipset:

- `OneInvocationAfterStop` (`InvokeLaterAssumption`): after `m_running` was cleared the
  callback runs once at most (`LateInv`: the invocation leads to the loop test, where no
  notification can move it);
- `LineFollowsRegisters` and `ArrivalsKeepTheFifo` (`SerialAssumption`): the interrupt of the
  port is the one its registers call for after every call of the guest, the host's driver and
  the timers, for a FIFO of any size and any trigger levels; and bytes in the FIFO are neither
  replaced nor reordered by those that arrive. `PortInv` adds to the types that the FIFO holds
  no more than its size, which a `Receive` respects because a grant of `CanReceive` is not
  lost in between (`GrantFits`);
- `IdentityInOrder`: each drive gives the words of its identity in order, for an identity of any
  size, any routine of the driver and any selections in between. `AtaInv`: while a buffer is
  filled its index counts what was read, and a command touches the selected drive only;
- `LinesHaveReasons`: the SMBus' line is high only while its status says why, and a channel
  of the ATA whose interrupts are masked holds its line low. The hypothesis `CarefulDriver` is
  a driver that does not write the SMBus' status directly (it acknowledges what it
  read) and leaves the routing alone while a line is high; without each of them the
  property fails in the way section 5 tells. `LineInv` ties the line to the routing too.

**`GdbServer_proofs`**:

- `EveryReplyMatches`: a client never takes one command's reply for another's, although
  `dbg_recv_ack` reads an acknowledgement late. `OnePlace`: a command is on its way, being
  carried out or answered; `Numbers`: it is the last one sent; `GreetingInv`: the signal sent
  at the connection is read before anything else. The hypothesis is `MaxTimeouts = 0`, a
  client that awaits each answer; with one timeout TLC finds the property violated
  (section 5);
- `CopiesCoherent`: the copies of KVM and HAXM are never stale and changed together, and
  one that is fetched and unchanged is the hypervisor's. `CpuOk` has the flags by
  backend. The hypotheses: the backends are the three; the processor starts with a register
  file; no batch names an unknown register after a known one. The last holds of the program,
  whose only batch of writes (`gdbserver.cpp:294`) names known registers; for other batches it
  is needed, since the copy is then changed and no flag says so;
- `WritesReach` (`WritesReachProcessor`): if the write-back at the end of the session
  succeeded, the processor starts with EIP and ESP as the client was last told they were
  written, unless it sent a later write of the register that was refused for a junk digit
  (`Spoiled`; section 5). A write passes the stream, the server's copy and the backend's, and the client may
  go at any moment. `CopyInv`: the server's copy has what the client was told last, or
  a write was refused half-way since (`SpoiledSince`), or it has the write the client
  has not been told of; then the command was the last in the stream (`StreamInv`: a
  command is acknowledged once and answered later, and from the second on nothing else is on its
  way), and the server waits for an acknowledgement only a client that was told sends, so that
  it cannot write back before. `RestoredInv`: what was written back is what
  `UpdateRegisters` gives the hypervisor, on each backend. The hypotheses are `MaxTimeouts = 0`
  and the first two of `CopiesCoherent`; the steps of a batch reuse its lemmas.

### Only model-checked

- Liveness in all modules, under fairness, which the prover cannot reach. The refinement
  theorem is of the safety part of InterruptDelivery.
- `PlainProcessor`, the refinement of PlainCpu by CpuRegs: operators that go through data of any
  length are recursive functions, whose values TLC computes and induction over data would be
  needed to reason about. The descriptors of UsbDescriptors are fixed: that a reader of them
  gives a number or a refusal is proved, the numbers are what TLC computes.
- `WindowsAnswer`, `PortsAsConfigured`, `SettingsKeep` and `BlitMoves` of Chipset: they are about
  the routines of one driver, fixed tables and fixed register maps, which a theorem could not
  generalise; the sums over rows of the blit and the list of fixed I/O ranges are computed
  by recursion. `BlockArrives` goes through the bytes of a block in the same way.

## 5. Where code and documentation disagree

The first three are in `PROJECT.json` with the lines they quote; earlier versions of the
modules had runs that show them.

- WHVP's `CanInjectInterrupt` always answers true, so a vector whose `Interrupt` returned
  `INTR_SUCCESS` ("successfully delivered", `cpu.h:139`) may be overwritten.
- The callbacks of the FIFO timer and of the modem poll are swapped in the
  constructor (`serial.cpp:134`): the character timeout never comes.
- CACHE1_STATUS reports empty while the puller holds commands: the `assert` of
  `nv2a.cpp:2358` fails for a guest that trusts it.

Interrupts, threads and serial ports:

- `cpu.h:222` says that `Interrupt` stops CPU emulation; KVM and HAXM only ask for a
  window at the next pass, so the vector waits for the guest's next exit. The result of
  `InjectInterrupt` is ignored (`cpu.cpp:456`).
- InvokeLater: a `Stop()` between the thread's test of `m_running` and its wait is lost
  and the destructor's join never returns (`invoke_later.h:29`: "Stops the timer
  thread"); `StopEndsThread` names that window. A `Set()` may be lost in the same way,
  a callback may be invoked after `Cancel()`, and earlier than the time set.
- `settings.h:24` promises a stop on a kernel bug check; `xbox.cpp:654` prints it and
  goes on.
- i8254: `~i8254` waits for ever if the thread has not reached its `m_running = true`
  (`DestructorEnds` excludes that window); a second 0x34 assigns to a joinable thread
  (`i8254.cpp:83`). An `Xbox` whose `Initialize` failed is destroyed with uninitialised
  members (`xbox.cpp:77`).
- i8259: the command port returns ISR where `i8259.cpp:63` selects IRR after reset
  (`:216`). Leaving special mask mode does not call `UpdateIRQ`: a request
  waits for the next command. A slave vector is never in service in the master (`:351`).
  With automatic EOI and level triggering a line that stays high is acknowledged and
  requested again within one `UpdateIRQ`, which never returns (`:393-408`).
- Serial: LSR.DR stays set after FCR has emptied the FIFO. Bytes after a change of FIFO
  mode between `CanReceive` and `Receive` are dropped without LSR.OE (`char_serial.cpp:21`).
- SerialComm: settings changed between the copy `Start()` configures the port with
  (`mt_serial.cpp:100`) and the one the reader thread takes (`:261`, "to avoid
  concurrency issues") never reach the port. `SuperIO` deletes the emulated port
  after a stop that does not wait (`superio.cpp:53`) while the reader may still call
  into it. `ReaderFunc` spins for ever when nobody makes room. Buffers of outstanding
  operations are freed (`:552`, `:686`). A request whose `WriteFile` fails at once is
  forgotten (`:615`); after a failed overlapped operation the operations behind it are
  never looked at again. Bytes counted while a read is pending wait for the next
  character, since the read resets the count.

NV2A:

- Without a vertical blank thread `AllFinished` fails after a push-buffer error:
  two racing updates of the line leave it low. `dma_push_suspended` is overwritten by
  DMA_PUSH writes. `Init` starts the puller before it sets `m_running` (`nv2a.cpp:131`);
  `~NV2ADevice` notifies waits it may miss (`:73`); a jump to itself never ends (`:2260`);
  PUSH0 does not run the pusher (`:409`); clearing a PGRAPH interrupt does not update the
  line (`:734`).
- `SET_CONTROL0` clears STENCIL_WRITE_ENABLE without the cached flag of the surface
  (`:1605-1617`). The object of a subchannel is looked up by its instance in all of them, so
  that an object bound twice is the first one's (`:1185`), and `SET_OBJECT` keeps the data of
  the object bound before (`:1368`).
- `PVIDEOWrite` stores the address instead of the value (`:519`); several reads `|=` into
  a value nobody has set; `UpdateIRQ` tests `pending && enabled`, not their bits;
  NV_PGRAPH_INCREMENT divides by a field that may be 0.

CPU and debugger:

- A memory write the debugger was told is done goes nowhere before paging is on
  (comment `xbox.cpp:496`). Writes of segment registers are acknowledged and never
  written back. After a reply that could not be sent `Debug` returns without the
  write-back (`gdbserver.cpp:1217`) and the processor runs all the same; a write-back
  the hypervisor refuses is not noticed. A packet with a bad checksum ends the session
  instead of being repeated (`:678`), and acknowledgements run one behind.
- `P` and `G` are decoded straight into the server's registers (`dbg_dec_hex`, `:722-753`). At a
  digit that is none a release build stops there and answers E00 (`:1224`; a build with assertions
  aborts), with the bytes before the junk and the high digit of its byte overwritten; the
  session goes on, and these registers are written back. So after an OK for EIP and a refused
  second write of it the processor starts with neither value: `WritesReachProcessor` leaves out
  registers that a refused command named after the last OK, and TLC finds it violated
  without that condition.
- A refresh that fails inside `VMemRead` leaves the CR3 of the walk unset; the model takes it to succeed there.
- A large page's directory entry is accepted without its present bit (`cpu.cpp:114`,
  comment "If the PDE is not valid"). Flags of KvmCpu start uninitialised
  (`cpu-module-kvm/cpu_kvm.cpp:17`). Failures to write registers back clear the flags.
  An exit KVM does not know leaves the last reason. `GetGDTEntry` and its like
  read the physical address of a linear base; the bound of the IDT is off by one.
  HAXM's breakpoints copy the first to all, and DR7 accumulates.

USB:

- The controller of IRQ 9 starts its ports at offset 4 of an array of four
  (`hw/ohci/ohci.cpp:237-243`), and looks for names "5" to "8" while the hub asks for "3" and
  "4" (`hw/ohci/ohci_hub.cpp:187`); claiming a taken port uses an iterator nobody set (`:173`).
- The comments at `ohci.cpp:909` and `:1095` say the Xbox cannot switch port power, the code
  does: without a change bit, and without the connection when power comes back.
  `OHCI_Wakeup` replaces RHSC by RD when both are due (`:1504-1524`). The interrupt line is
  never raised (`UpdateInterrupt`).
- Operational, Resume, Operational starts a second timer (`:974-987`) and two threads run the
  frame worker. `OHCI_FatalError` leaves HcControl operational without a timer, so that a
  read of HcFmRemaining dereferences null (`:350`, `:1288`). `OHCI_WriteED` writes HeadP from
  past the descriptor (`:401`), which the model takes for a choice. The worker clears CLF and
  BLF by read and write while the guest sets them (`:1557`). `TimerList` is changed by several
  threads (`common/openxbox/cxbxtimer.cpp:78`).
- `SET_CONFIGURATION` of an unknown value succeeds and changes nothing
  (`hw/pci/usb_pci.cpp:762-773`, comment `:892`); a missing string is an empty success; a
  refused SETUP leaves the last stage (`:386`); the length a gamepad's report is copied with
  comes from the report itself (`hw/xid/xid_gamepad.cpp:500`); a control read with length 0
  stalls at its status stage.
- A port write on the CPU thread and a plug on another change HcRhPortStatus without a lock.

Chipset:

- `common/openxbox/io.cpp:39` speaks of overlaps with existing ranges; the test looks at the
  ends of the new range only and skips the first of the map; a range with the same base
  replaces the old one. The ranges the emulator maps do not overlap.
- `hw/ata/drvs/drv_null.h:28` says that the drive that "represents the absence of a device" is
  attached. Reads of the secondary channel subtract the base of the primary (`hw/ata/ata.cpp:53`)
  and answer 0. A command that succeeds keeps an older ERR. The mode
  `kMaximumUltraDMATransferMode` is 4 where the comment says 0 to 2.
- The cases of `LPCDevice::PCIIORead` never match and the value is not set, as in the AC97.
  `LPCDevice::HandleIRQ` uses the routing of the moment: a line that is high when it changes
  stays high. Windows that were never placed decode from 0, whatever PCI_COMMAND says.
  `WriteConfig` past 0xFF reads behind its masks (`hw/pci/pci.cpp:263`).
- SMBus: a write of status bits that are not set raises an interrupt.
- Super I/O: m_inConfigMode is never tested; a device has 255 registers, so that its last is
  the next one's first; an interrupt that is changed after the activation is ignored. The
  serial ports map seven ports, without the scratch register.

## 6. What is not modelled

- Loaders (modules, XBE), dumps, logging, the command line: sequential, without state.
- Register files without behaviour: network, audio, CMOS, and the NV2A's PBUS, PVIDEO,
  PTIMER, PRMCIO, PRAMDAC and PRAMIN.
- The i8259 port handlers do not take `m_handleIRQMutex` (`hw/basic/i8259.cpp:201`); I8259
  makes each call one step, so a port access in the middle of a device's `HandleIRQ` is
  not covered. Serial's `UpdateIRQ`, which two threads call (`serial.cpp:600`), is one step
  too. Data races on plain bools are read and written as atomic steps in any order.
- FPU, MSR and debug registers of the backends; initialization of the hypervisors.
- The bus master registers of the IDE function, the PCI interrupt pins and the I/O APIC,
  which nothing uses; asynchronous USB packets, which no device answers with.
- Construction and destruction of the NV2A; `Init` of the devices is their initial state.
- Baud rates, the values of the vertex arrays and textures, the time of anything but a delay.
- The contents of `util/fifo.h` and `queue.h`: a sequence stands for them.

## 7. Plan

1. Done: the interrupt path, the serial port, the NV2A's FIFO and engine, OHCI with its
   devices, the processor's registers with the debugger, the devices behind port I/O.
2. PicThreads: the i8259 at the grain of its fields with device threads, and a composition of
   PicHandlers with InterruptQueue instead of the abstract queue; Serial's `UpdateIRQ` in
   two steps.
3. A usb run where the frame worker and register writes interleave inside a packet, composing
   Ohci's worker with UsbControl.
4. Proofs: the register part of PlainProcessor, operation by operation.
5. Fifo: the ring refines a sequence.
