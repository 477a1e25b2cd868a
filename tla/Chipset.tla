------------------------------- MODULE Chipset -------------------------------
(* The devices the guest reaches through port I/O, behind the I/O mapper    *)
(* and the PCI bus, and the graphics engine behind its command FIFO, with a *)
(* guest that runs one driver routine after another.  Every access is one   *)
(* exit of the processor: the handlers run on the CPU's thread and none of  *)
(* these devices has a thread of its own.  The methods of the graphics      *)
(* engine are executed in the order they were pushed, one at a time, under  *)
(* the engine's mutex (see Pfifo).                                          *)
EXTENDS SMBus, Ata, SuperIO, Pgraph

CONSTANTS
    Setup,   \* what the firmware does first, for each part of the chipset
    Tasks,   \* the routines of the driver of each part: sequences of accesses
    Most     \* bound: how many settings of the graphics engine the guest uses in each part

VARIABLES
    focus,     \* which part the guest drives in this run
    plan,      \* the accesses the current routine has still to make
    assigned,  \* the windows the guest has placed, with their bases
    filled,    \* bytes of the block buffer the driver wrote for the next transfer
    taken,     \* words of each drive the guest has read since it asked for its identity
    asked,     \* serial ports the guest has activated, with the interrupt it gave them
    latest     \* the last parameter of each method the guest used on each subchannel
chipVars == <<pciVars, smbVars, ataVars, sioVars, graphVars>>
history == <<assigned, filled, taken, asked, latest>>
chipsetVars == <<chipVars, focus, plan, history>>

Parts == DOMAIN Tasks
Empty == [i \in {} |-> 0]

ChipInit ==
    /\ PciInit /\ SmbInit /\ AtaInit /\ SioInit /\ GraphInit
    /\ focus \in Parts /\ plan = Setup[focus]
    /\ assigned = {} /\ filled = <<>> /\ asked = Empty /\ latest = Empty
    /\ taken = [ch \in Channels |-> [n \in 0..1 |-> 0]]

\* An access: the port, the size in bytes and the value written as a set of bits; writes of the
\* configuration address name the device and its register.
Access == Head(plan)
Made == plan # <<>> /\ plan' = Tail(plan) /\ UNCHANGED focus
Route(port) == LookupDevice(IOMap, port)
SMBusWindow == BAR("SMBus", 1, 4, "io")
\* The access is to the window of the SMBus: the second window answers nothing.
ToSMBus ==
    /\ Route(Access.port) = "none"
    /\ Decode("io", BitsOf(Access.port)) = {SMBusWindow}
Offset == Number(BitsOf(Access.port) \ Base(SMBusWindow))

----------------------------------------------------------------------------
(* The guest.  Placing a window makes it answer nowhere until it is placed. *)

Settings(accesses) ==
    {<<accesses[i].subchannel, accesses[i].method>> :
        i \in {j \in DOMAIN accesses : accesses[j].op = "method"}}
NewTask ==
    /\ plan = <<>>
    /\ \E t \in Tasks[focus] :
        /\ Cardinality(DOMAIN latest \cup Settings(t.accesses)) <= Most[focus]
        /\ plan' = t.accesses
        /\ assigned' = {w \in assigned : w.bar \notin {x.bar : x \in t.places}}
        /\ asked' = [i \in DOMAIN asked \cup DOMAIN t.activates |->
                        IF i \in DOMAIN asked THEN asked[i] ELSE t.activates[i]]
    /\ filled' = <<>>
    /\ UNCHANGED <<chipVars, focus, taken, latest>>

\* The last access of a routine that places windows.
Placed ==
    /\ plan # <<>> /\ Access.op = "placed"
    /\ assigned' = assigned \cup {Access.window}
    /\ Made /\ UNCHANGED <<chipVars, filled, taken, asked, latest>>

ConfigAddress ==
    /\ plan # <<>> /\ Access.op = "address"
    /\ WriteConfigAddress(Access.device, Access.reg)
    /\ Made /\ UNCHANGED <<smbVars, ataVars, sioVars, graphVars, history>>
ConfigWrite ==
    /\ plan # <<>> /\ Access.op = "out" /\ Access.port \in 3324..3327 /\ Route(Access.port) = "PCIBus"
    /\ WriteConfigData(Access.port - 3324, Access.value, Access.size)
    /\ Made /\ UNCHANGED <<smbVars, ataVars, sioVars, graphVars, history>>
\* Reading a configuration register changes nothing.
ConfigRead ==
    /\ plan # <<>> /\ Access.op = "in" /\ Access.port \in 3324..3327 /\ Route(Access.port) = "PCIBus"
    /\ Made /\ UNCHANGED <<chipVars, history>>

SMBusOut ==
    /\ plan # <<>> /\ Access.op = "out" /\ ToSMBus
    /\ SmbWrite(Offset, Access.value, Access.size)
    /\ filled' = IF Offset = 9 THEN Append(filled, Access.value) ELSE filled
    /\ Made /\ UNCHANGED <<ataVars, sioVars, graphVars, assigned, taken, asked, latest>>
SMBusIn ==
    /\ plan # <<>> /\ Access.op = "in" /\ ToSMBus
    /\ SmbRead(Offset)
    /\ Made /\ UNCHANGED <<ataVars, sioVars, graphVars, history>>
\* The driver reads the status and writes back the bits it found, if there are any.
SMBusAcknowledge ==
    /\ plan # <<>> /\ Access.op = "acknowledge"
    /\ IF SmbValue(0, 1) # {} THEN SmbWrite(0, SmbValue(0, 1), 1) ELSE UNCHANGED <<pciVars, smbVars>>
    /\ Made /\ UNCHANGED <<ataVars, sioVars, graphVars, history>>

AtaOut ==
    /\ plan # <<>> /\ Access.op = "out" /\ Route(Access.port) = "ATA"
    /\ AtaWrite(Access.port, Access.value)
    /\ LET w == WritesAt(Access.port)   ch == w[1]
       IN  taken' = IF w[2] = "status" /\ Access.value = CmdIdentify
                    THEN [taken EXCEPT ![ch][Selected(ata[ch])] = 0] ELSE taken
    /\ Made /\ UNCHANGED <<pciVars, smbVars, sioVars, graphVars, assigned, filled, asked, latest>>
AtaIn ==
    /\ plan # <<>> /\ Access.op = "in" /\ Route(Access.port) = "ATA"
    /\ AtaRead(Access.port, Access.size)
    /\ LET w == ReadsAt(Access.port)   ch == w[1]
       IN  taken' = IF w[2] = "data"
                    THEN [taken EXCEPT ![ch][Selected(ata[ch])] =
                            IF @ + Access.size \div 2 > IdentifySize THEN IdentifySize
                            ELSE @ + Access.size \div 2]
                    ELSE taken
    /\ Made /\ UNCHANGED <<pciVars, smbVars, sioVars, graphVars, assigned, filled, asked, latest>>

SuperIOOut ==
    /\ plan # <<>> /\ Access.op = "out" /\ Route(Access.port) = "SuperIO"
    /\ SioWrite(Access.port, Number(Access.value))
    /\ Made /\ UNCHANGED <<pciVars, smbVars, ataVars, graphVars, history>>

\* An object that is bound replaces another: the guest has to set it up again.
GraphBind ==
    /\ plan # <<>> /\ Access.op = "bind"
    /\ SetObject(Access.subchannel, Access.instance)
    /\ latest' = [k \in {x \in DOMAIN latest : x[1] # Access.subchannel} |-> latest[k]]
    /\ Made /\ UNCHANGED <<pciVars, smbVars, ataVars, sioVars, assigned, filled, taken, asked>>
GraphMethod ==
    /\ plan # <<>> /\ Access.op = "method"
    /\ Method(Access.subchannel, Access.method, Access.value)
    /\ LET k == <<Access.subchannel, Access.method>>
       IN  latest' = [x \in DOMAIN latest \cup {k} |-> IF x = k THEN Access.value ELSE latest[x]]
    /\ Made /\ UNCHANGED <<pciVars, smbVars, ataVars, sioVars, assigned, filled, taken, asked>>
GraphDraw ==
    /\ plan # <<>> /\ Access.op = "draw"
    /\ WriteFrameBuffer(Access.image)
    /\ Made /\ UNCHANGED <<pciVars, smbVars, ataVars, sioVars, history>>

ChipNext ==
    \/ NewTask \/ Placed \/ ConfigAddress \/ ConfigWrite \/ ConfigRead
    \/ SMBusOut \/ SMBusIn \/ SMBusAcknowledge
    \/ AtaOut \/ AtaIn \/ SuperIOOut
    \/ GraphBind \/ GraphMethod \/ GraphDraw
ChipSpec == ChipInit /\ [][ChipNext]_chipsetVars

----------------------------------------------------------------------------
(* Properties. *)

\* A window answers where the guest placed it, from its first byte to its last, and no other
\* device takes the access: neither a window that was never placed and still decodes from zero,
\* nor one that is being sized, in whatever pieces the registers were written.
WindowsAnswer ==
    \A w \in assigned :
        \A offset \in {{}, 0..(w.bar.log - 1)} : Decode(w.bar.kind, w.base \cup offset) = {w.bar}

\* The interrupt line of the SMBus is high only while its status says why: a driver that
\* acknowledges the bits it read is not called again for nothing.
LineMeansStatus == (\E irq \in DOMAIN gsi : gsi[irq]) => smb.status # {}

\* A block the driver wrote into the buffer after it acknowledged the last transfer reaches the
\* device as it was written.
BlockArrives ==
    [][ LET s == smb'
        IN  /\ smb.control # s.control /\ Protocol(s) = 5 /\ Start \in s.control /\ ~Reads(s)
            /\ Target(s) = EEPROM
            => \A i \in DOMAIN filled :
                slaves'.reg[EEPROM][BitsOf(Number(s.command) + i - 1)] = filled[i] ]_chipsetVars

\* A channel whose interrupts the guest has disabled holds its line low: no line asks for
\* attention for which there is no reason left.
MaskedIsLow == \A ch \in Channels : nIEN \in ata[ch].control => ~ataLine[ch]
LinesJustified == LineMeansStatus /\ MaskedIsLow

\* Each drive gives the words of its identity in order, whichever drive the guest selects in
\* between.
IdentifyInOrder ==
    \A ch \in Channels : \A n \in 0..1 :
        LET d == ata[ch].dev[n] IN d.filled => d.at = taken[ch][n]

\* After configuration mode the serial ports that are active are those the guest activated, with
\* the interrupts it first gave them.
PortsAsConfigured ==
    plan = <<>> =>
        \A i \in 1..2 : /\ sio.port[i].active <=> i \in DOMAIN asked
                        /\ i \in DOMAIN asked => sio.port[i].irq = asked[i]

\* Every setting of an object that draws keeps the value the guest gave it last, whatever else
\* it sets: no two methods share a bit of a register, or an element of a matrix.  Two choices
\* of one setting differ in the register too.
SettingsKeep ==
    \A k \in DOMAIN latest :
        /\ \A w \in Writes(k[1], ClassOf(k[1]), k[2], latest[k]) : Cell(w.cell) \cap w.mask = w.bits
        /\ \A c \in Choices(ClassOf(k[1])) : c.method = k[2] =>
              \A x \in c.codes : BitsOf(x[2]) = Shifted(Cell(PG(c.reg)) \cap (c.lo..c.hi), -c.lo)
                                 => x[1] = Number(latest[k])

\* A blit moves the rectangle the guest described to where the guest said, and nothing else, if
\* the place it writes does not overlap a row it has still to read.
BlitMoves ==
    [][ LET blit == CHOOSE sub \in 0..7 : ClassOf(sub) = ImageBlit
            given(sub, m) == latest[<<sub, m>>]
            low(p) == Number(p)   high(p) == Number(Shifted(p \cap (16..31), -16))
            surfaces == CHOOSE sub \in 0..7 : bound[sub] = Number(given(blit, \h19C))
            bytes == BytesPerPixel(Number(given(surfaces, \h300)))
            size == Access.value
            Byte(origin, pitch, at, x, y) == origin + (high(at) + y) * pitch + low(at) * bytes + x
            Source(x, y) == Byte(DmaAddress[Number(given(surfaces, \h184))] + low(given(surfaces, \h308)),
                                 low(given(surfaces, \h304)), given(blit, \h300), x, y)
            Dest(x, y) == Byte(DmaAddress[Number(given(surfaces, \h188))] + low(given(surfaces, \h30C)),
                               high(given(surfaces, \h304)), given(blit, \h304), x, y)
            width == low(size) * bytes   rows == 0..(high(size) - 1)   columns == 0..(width - 1)
            late == {yz \in rows \X rows : yz[1] < yz[2]}
            clean == \A yz \in late : \A x, u \in columns :
                        Dest(x, yz[1]) \notin {Source(u, yz[2]), Dest(u, yz[2])}
            dest == {Dest(x, y) : x \in columns, y \in rows}
        IN  plan # <<>> /\ Access.op = "method" /\ Access.method = \h308 /\ ClassOf(Access.subchannel) = ImageBlit
            /\ clean
            => /\ \A x \in columns, y \in rows : vram'[Dest(x, y)] = vram[Source(x, y)]
               /\ \A a \in DOMAIN vram \ dest : vram'[a] = vram[a] ]_chipsetVars
=============================================================================
