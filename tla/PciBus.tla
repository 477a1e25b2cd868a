------------------------------- MODULE PciBus -------------------------------
(* The PCI bus, the configuration space of its devices, the windows their   *)
(* base address registers decode, and the LPC bridge: its routing of the    *)
(* ACPI interrupts to the lines of the i8259 and the boot ROM it overlays.  *)
(* A register, a value on the bus and an address are sets of bit numbers; a *)
(* configuration space is the set of the bits that are one, numbered from   *)
(* its first byte.                                                          *)
EXTENDS IOMapper, RegisterBits

VARIABLES
    pci,   \* the latched configuration address, the configuration spaces, the overlay of the ROM
    gsi    \* the level of each line of the i8259, as the LPC bridge last set it
pciVars == <<pci, gsi>>

\* m_Devices, in the order of their ids: the order in which windows are tried.
Slots == <<"HostBridge", "MCPXRAM", "LPC", "SMBus", "USB2", "USB1", "NVNet", "NVAPU", "AC97",
           "PCIBridge", "IDE", "AGPBridge", "NV2A">>
Devices == {Slots[i] : i \in DOMAIN Slots}
Bridges == {"HostBridge", "LPC", "PCIBridge", "AGPBridge"}

\* RegisterBAR: the windows of the devices, with the logarithm of their size.
BAR(d, i, log, kind) == [device |-> d, index |-> i, log |-> log, kind |-> kind]
BARs == {BAR("HostBridge", 0, 30, "memory"), BAR("LPC", 0, 8, "io"), BAR("SMBus", 1, 4, "io"),
         BAR("SMBus", 2, 5, "io"), BAR("USB1", 0, 12, "memory"), BAR("USB2", 0, 12, "memory"),
         BAR("NVNet", 0, 10, "memory"), BAR("NVNet", 1, 3, "io"), BAR("NVAPU", 0, 19, "memory"),
         BAR("AC97", 0, 8, "io"), BAR("AC97", 1, 7, "io"), BAR("AC97", 2, 12, "memory"),
         BAR("IDE", 4, 4, "io"), BAR("NV2A", 0, 24, "memory"), BAR("NV2A", 1, 27, "memory"),
         BAR("NV2A", 2, 26, "memory")}

Register(bar) == 16 + 4 * bar.index

BridgeWritable(byte, bit) ==
    \/ byte \in (24..27) \cup (40..47)                  \* bus numbers, upper halves of the base
    \/ byte \in {28, 29, 32, 34, 36, 38} /\ bit >= 4    \* low bytes of the bases and limits
    \/ byte \in {33, 35, 37, 39}
    \/ byte = 62                                        \* bridge control
    \/ byte = 63 /\ bit \in {0, 1, 3}
\* m_writeMask.
Writable(d, b) ==
    LET byte == b \div 8   bit == b % 8
    IN  \/ byte \in {12, 60} \cup (64..255)             \* cache line, interrupt line, the rest
        \/ byte = 4 /\ bit \in 0..2                     \* I/O, memory, master
        \/ byte = 5 /\ bit \in {0, 2}                   \* SERR, INTX disable
        \/ d \in Bridges /\ BridgeWritable(byte, bit)
        \/ \E r \in BARs : /\ r.device = d /\ b \in Lanes(Register(r), 4)
                           /\ b - 8 * Register(r) >= r.log
\* m_write1ToClearMask: the error bits of the status.
ClearedByOne(b) == b \in {56, 59, 60, 61, 62, 63}

\* What the constructors leave: a window starts at zero, with its type.
PowerOn(d) ==
    {8 * Register(r) : r \in {x \in BARs : x.device = d /\ x.kind = "io"}}
        \cup (IF d = "PCIBridge" THEN {53, 55, 245, 247} ELSE {})   \* 66 MHz, fast back to back
        \cup (IF d \in Bridges THEN {288, 304} ELSE {})            \* 64-bit prefetchable ranges

PciInit ==
    /\ pci = [address |-> [device |-> "none", reg |-> 0],
              config |-> [d \in Devices |-> PowerOn(d)], overlay |-> TRUE]
    /\ gsi = [irq \in 1..15 |-> FALSE]

----------------------------------------------------------------------------
(* Configuration. *)

\* PCIDevice::WriteConfig, a byte at a time: bits that are not writable keep their value.
\* Mutant of Written: the value is not shifted from byte to byte.
FirstByteOnly(d, config, reg, value, size) ==
    LET put == UNION {Place({b \in value : b < 8}, reg + i) : i \in 0..(size - 1)}
        lanes == Lanes(reg, size)
    IN  {b \in config : ~(b \in lanes /\ Writable(d, b))} \cup {b \in put : Writable(d, b)}
Written(d, config, reg, value, size) ==
    LET lanes == Lanes(reg, size)
        put == Place(value, reg) \cap lanes
        merged == {b \in config : ~(b \in lanes /\ Writable(d, b))} \cup {b \in put : Writable(d, b)}
    IN  merged \ {b \in put : ClearedByOne(b)}

ReadConfig(d, reg, size) == Take(pci.config[d], reg, size)

WriteConfigAddress(d, reg) ==
    /\ pci' = [pci EXCEPT !.address = [device |-> d, reg |-> reg]]
    /\ UNCHANGED gsi

\* The LPC bridge ends the overlay of the MCPX ROM when bit 1 of the word at 0x80 is written.
EndsOverlay(d, reg, value) == d = "LPC" /\ reg = 128 /\ 1 \in value
\* Writes to a slot that is empty are dropped.
WriteConfigData(offset, value, size) ==
    LET d == pci.address.device   reg == pci.address.reg + offset
    IN  /\ IF d \in Devices
           THEN pci' = [pci EXCEPT !.config[d] = Written(d, @, reg, value, size),
                                   !.overlay = @ /\ ~EndsOverlay(d, reg, value)]
           ELSE UNCHANGED pci
        /\ UNCHANGED gsi

\* An empty slot reads as all ones.
ReadConfigData(offset, size) ==
    IF pci.address.device \in Devices
    THEN ReadConfig(pci.address.device, pci.address.reg + offset, size)
    ELSE 0..31

----------------------------------------------------------------------------
(* Windows. *)

Base(r) == Take(pci.config[r.device], Register(r), 4) \ (IF r.kind = "io" THEN 0..1 ELSE 0..3)

\* GetIOBar, GetMMIOBar.  The end of a window is computed in 32 bits: the last window of the
\* space ends at zero and holds nothing.
Holds(r, addr) == {b \in addr : b >= r.log} = Base(r) /\ Base(r) # r.log..31

Position(d) == CHOOSE i \in DOMAIN Slots : Slots[i] = d
Before(r, s) ==
    \/ Position(r.device) < Position(s.device)
    \/ r.device = s.device /\ r.index < s.index
\* PCIBus::IORead and its like: the first window that holds the address, in a set, if any does.
Decode(kind, addr) ==
    LET able == {r \in BARs : r.kind = kind /\ Holds(r, addr)}
    IN  {r \in able : \A s \in able : s = r \/ Before(r, s)}

----------------------------------------------------------------------------
(* LPCDevice::HandleIRQ: byte n of the routing register names the line. *)

Routing(n) == Number(ReadConfig("LPC", 100 + n, 1))
HandleIRQ(n, level) ==
    gsi' = IF Routing(n) \in 1..15 THEN [gsi EXCEPT ![Routing(n)] = level] ELSE gsi
=============================================================================
