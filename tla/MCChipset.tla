------------------------------ MODULE MCChipset ------------------------------
EXTENDS Chipset

Out(port, value, size) == [op |-> "out", port |-> port, value |-> value, size |-> size]
In(port, size) == [op |-> "in", port |-> port, size |-> size]
Address(d, r) == [op |-> "address", device |-> d, reg |-> r]
Task(accesses) == [accesses |-> accesses, places |-> {}, activates |-> Empty]

(* PCI: windows are sized with all ones and placed in pieces of one, two or four bytes. *)
Pieces(value, size) == [i \in 1..(4 \div size) |-> Out(3324 + (i - 1) * size, Take(value, (i - 1) * size, size), size)]
Sized(r) == <<Address(r.device, Register(r)), Out(3324, 0..31, 4), In(3324, 4)>>
Place1(r, base, size) ==
    [accesses |-> Sized(r) \o Pieces(base, size)
                    \o <<[op |-> "placed", window |-> [bar |-> r, base |-> base]]>>,
     places |-> {[bar |-> r, base |-> base]}, activates |-> Empty]
Bar(d, i) == CHOOSE r \in BARs : r.device = d /\ r.index = i
PciTasks ==
    {Place1(Bar("SMBus", 1), b, n) : b \in {{14, 15}, {4, 14, 15}}, n \in {1, 2, 4}}
    \cup {Place1(Bar("IDE", 4), b, n) : b \in {{5, 14, 15}, 5..15}, n \in {2, 4}}
    \cup {Place1(Bar("USB1", 0), b, 4) : b \in {{12, 31}, {13, 31}}}
    \cup {Place1(Bar("NV2A", 0), b, n) : b \in {{24, 31}, {25, 31}}, n \in {1, 4}}
    \cup {Task(<<Address("LPC", 128), Out(3324, {1}, 4)>>)}

(* SMBus: the window at 0xC000, its interrupt routed to line 11. *)
SmbPort(offset) == 49152 + offset
SmbSetup == <<Address("SMBus", 20), Out(3324, {14, 15}, 4), Address("LPC", 100), Out(3325, {0, 1, 3}, 1)>>
Go(protocol, on) == Out(SmbPort(2), BitsOf(protocol) \cup {Start} \cup (IF on THEN {EnableHCYC} ELSE {}), 1)
Transfer(before, address, command, protocol, on) ==
    Task(<<[op |-> "acknowledge"]>> \o before
         \o <<Out(SmbPort(4), address, 1), Out(SmbPort(8), command, 1), Go(protocol, on)>>)
Data(v) == <<Out(SmbPort(6), v, 1)>>
SmcTasks ==
    {Transfer(Data({0}), a, ErrorCode, 2, TRUE) : a \in {SMC, {6}}}
    \cup {Transfer(Data({}), SMC, Version, 2, TRUE)}
    \cup {Transfer(<<>>, SMC \cup {0}, c, 2, on) : c \in {Version, ReadErrorCode, {2, 3, 4}}, on \in BOOLEAN}
    \cup {Transfer(<<>>, SMC \cup r, {}, p, FALSE) : r \in {{}, {0}}, p \in {0, 1, 3}}
    \cup {Task(<<[op |-> "acknowledge"], Out(SmbPort(2), {Abort}, 1)>>)}
EepromTasks ==
    {Transfer(<<Out(SmbPort(9), v, 1), Out(SmbPort(9), w, 1)>> \o Data({1}), EEPROM, {5}, 5, FALSE) :
        v \in {{0}, {1}}, w \in {{0}, {1}}}
    \cup {Transfer(<<>>, EEPROM \cup {0}, {0, 5}, p, TRUE) : p \in {2, 3, 4}}
    \cup {Transfer(<<Out(SmbPort(6), {1, 9}, 2), Out(SmbPort(7), {2}, 1)>>, TVEncoder, {6}, 3, TRUE)}
    \cup {Task(Transfer(<<>>, EEPROM \cup {0}, {5}, 5, TRUE).accesses \o <<In(SmbPort(9), 1)>>)}

(* ATA: the accesses of one channel in any order; SET FEATURES with its parameters. *)
Single(a) == Task(<<a>>)
AtaTasks(base, control) ==
    {Single(Out(base + 7, c, 1)) : c \in {CmdIdentify, CmdUnlock, {}}}
    \cup {Single(Out(base + 6, v, 1)) : v \in {{}, {DEV}}}
    \cup {Task(<<Out(base + 1, f, 1), Out(base + 2, v, 1), Out(base + 7, CmdSetFeatures, 1),
                Out(base + 1, {}, 1), Out(base + 2, {}, 1)>>) :
            f \in {SetTransferMode}, v \in {{3}, {0, 2, 3}, {0, 5}, {7}}}
    \cup {Single(Out(control, v, 1)) : v \in {{}, {nIEN}}}
    \cup {Single(In(p, 1)) : p \in {base + 7, base + 1, control}}
    \cup {Single(In(base, n)) : n \in {2, 4}}

(* Super I/O: the two serial ports, and a device without one. *)
Select(r) == Out(46, BitsOf(r), 1)
Put(v) == Out(47, BitsOf(v), 1)
Configure(device, irq) == <<Select(Enter), Select(DeviceNumber), Put(device), Select(Interrupt), Put(irq),
                            Select(Activate), Put(1), Select(Exit)>>
SioTasks ==
    {[accesses |-> Configure(SerialDevice(i), q), places |-> {}, activates |-> [j \in {i} |-> q]] :
        i \in 1..2, q \in {3, 4}}
    \cup {Task(Configure(7, 1)), Task(<<Select(Enter), Select(Exit)>>)}

(* PGRAPH: a Kelvin object whose settings are made in any order, two of them at a time; of each
   matrix the corners.  A parameter is all zeros or all ones, or one of two choices. *)
KelvinObject == 16   Surfaces == 17   OtherSurfaces == 18   BlitObject == 19
MCClass == [i \in KelvinObject..BlitObject |->
               CASE i = KelvinObject -> Kelvin [] i = BlitObject -> ImageBlit [] OTHER -> Surfaces2D]
Bind(sub, instance) == [op |-> "bind", subchannel |-> sub, instance |-> instance]
Send(sub, m, p) == [op |-> "method", subchannel |-> sub, method |-> m, value |-> p]
Corners(m) == m < \h440 \/ m > \h93C \/ (m - \h440) % 64 \in {0, 20, 60}
KelvinTasks ==
    {Single(Send(0, m, p)) : m \in {r.method : r \in {x \in KelvinRows : Corners(x.method)}}
                                      \cup {\h420, \h42C}, p \in {{}, 0..31}}
    \cup UNION {{Single(Send(0, c.method, BitsOf(x[1]))) :
                    x \in {y \in c.codes : \/ \A z \in c.codes : z[1] <= y[1]
                                            \/ \A w \in c.codes : w[1] >= y[1]}} : c \in KelvinChoices}

(* Blits between two surfaces, one over the other or apart; the guest draws the picture again. *)
Pair(low, high) == BitsOf(low) \cup Shifted(BitsOf(high), 16)
Image == [a \in 0..Last |-> a]
MCDmaAddress == [i \in {1, 2} |-> IF i = 1 THEN 0 ELSE 40]
Surface(sub, source, dest, format, pitches, from, to) ==
    <<Send(sub, \h184, BitsOf(source)), Send(sub, \h188, BitsOf(dest)), Send(sub, \h300, BitsOf(format)),
      Send(sub, \h304, pitches), Send(sub, \h308, BitsOf(from)), Send(sub, \h30C, BitsOf(to))>>
BlitSetup ==
    <<Bind(2, BlitObject), Bind(1, Surfaces), Bind(3, OtherSurfaces)>>
    \o Surface(1, 1, 1, 1, Pair(6, 6), 0, 0) \o Surface(3, 2, 1, 4, Pair(8, 4), 0, 4)
    \o <<Send(2, \h19C, BitsOf(Surfaces)), Send(2, \h2FC, SRCCOPY), Send(2, \h300, {}), Send(2, \h304, {})>>
BlitTasks ==
    {Task(Surface(1, 1, d, f, Pair(6, q), from, 2)) : d \in {1, 2}, f \in {1, 4}, q \in {6, 8}, from \in {0, 3}}
    \cup {Single(Send(2, \h19C, BitsOf(i))) : i \in {Surfaces, OtherSurfaces}}
    \cup {Single(Send(2, \h300, p)) : p \in {Pair(0, 0), Pair(1, 1)}}
    \cup {Single(Send(2, \h304, p)) : p \in {Pair(0, 0), Pair(1, 2)}}
    \cup {Task(<<Send(2, \h308, p), [op |-> "draw", image |-> Image]>>) : p \in {Pair(2, 2), Pair(1, 3)}}
    \cup {Task(<<Bind(3, OtherSurfaces)>> \o Surface(3, 1, 2, 10, Pair(8, 8), 0, 0))}

MCTasks == [pci |-> PciTasks, smc |-> SmcTasks, eeprom |-> EepromTasks, superio |-> SioTasks,
            primary |-> AtaTasks(PrimaryBase, PrimaryControl),
            secondary |-> AtaTasks(SecondaryBase, SecondaryControl),
            kelvin |-> KelvinTasks, blit |-> BlitTasks]
MCSetup == [f \in DOMAIN MCTasks |-> CASE f \in {"smc", "eeprom"} -> SmbSetup
                                       [] f = "kelvin" -> <<Bind(0, KelvinObject)>>
                                       [] f = "blit" -> BlitSetup
                                       [] OTHER -> <<>>]
MCMost == [f \in DOMAIN MCTasks |-> IF f = "kelvin" THEN 2 ELSE 20]
=============================================================================
