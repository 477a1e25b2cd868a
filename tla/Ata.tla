--------------------------------- MODULE Ata ---------------------------------
(* The two ATA channels: the task file the two devices of a channel share,  *)
(* the commands, which are over when the write of the command register      *)
(* returns, the data buffer of each device and the interrupt line.  A byte  *)
(* is the set of its bits that are one.                                     *)
EXTENDS RegisterBits, Sequences

CONSTANT IdentifySize   \* words of the data IDENTIFY DEVICE returns (256)

VARIABLES
    ata,       \* the channels: task file, devices, interrupt
    ataLine    \* the level of the line of each channel at the i8259, last given
ataVars == <<ata, ataLine>>

Channels == {"primary", "secondary"}
\* The register a command port of a channel is, when it is read and when it is written.
Names == <<"data", "error", "sectorCount", "sectorNumber", "cylinderLow", "cylinderHigh",
           "deviceHead", "status">>
\* The registers that are written and read as they are.
TaskFile == {"sectorCount", "sectorNumber", "cylinderLow", "cylinderHigh", "deviceHead"}
PrimaryBase == 496   SecondaryBase == 368
PrimaryControl == 1014   SecondaryControl == 886

ERR == 0   DRQ == 3   BIT5 == 5   DRDY == 6
nIEN == 1   ABRTBit == 2   DEV == 4

\* IsAttached: the driver that stands for no device says it is attached too.
Attached(ch, n) == TRUE

Device0 == [size |-> 0, at |-> 0, filled |-> FALSE, pio |-> <<0, 0>>, dma |-> <<4, 0>>]
AtaInit ==
    /\ ata = [ch \in Channels |->
                [error |-> {}, features |-> {}, sectorCount |-> {}, sectorNumber |-> {},
                 cylinderLow |-> {}, cylinderHigh |-> {}, deviceHead |-> {}, status |-> {DRDY},
                 control |-> {}, interrupt |-> FALSE, dev |-> [n \in 0..1 |-> Device0]]]
    /\ ataLine = [ch \in Channels |-> FALSE]

Selected(c) == IF DEV \in c.deviceHead THEN 1 ELSE 0
InterruptsEnabled(c) == nIEN \notin c.control
\* SetInterrupt does nothing while interrupts are disabled.
SetInterrupt(c, asserted) == IF InterruptsEnabled(c) THEN [c EXCEPT !.interrupt = asserted] ELSE c
\* The new state of a channel; the line follows the channel's interrupt when that changes.
Becomes(ch, c) ==
    /\ ata' = [ata EXCEPT ![ch] = c]
    /\ ataLine' = IF c.interrupt # ata[ch].interrupt
                  THEN [ataLine EXCEPT ![ch] = c.interrupt] ELSE ataLine

----------------------------------------------------------------------------
(* Commands. *)

\* InitDataBuffer and the driver's answer; IDENTIFY succeeds when the device is ready.
\* Mutant of Filled: the buffer keeps its position.
KeepsPosition(d) == [d EXCEPT !.size = IdentifySize, !.filled = TRUE]
Filled(d) == [d EXCEPT !.size = IdentifySize, !.at = 0, !.filled = TRUE]
\* The bits of the task file a finished command sets: the device that answered.
Names2(c, n) == [c EXCEPT !.deviceHead = IF n = 1 THEN @ \cup {DEV} ELSE @ \ {DEV}]
Identify(c) ==
    LET n == Selected(c)
    IN  IF DRDY \notin c.status THEN [c EXCEPT !.status = @ \cup {ERR}]
        ELSE LET r == [Names2(c, n) EXCEPT !.dev[n] = Filled(@)]
             IN  [r EXCEPT !.status = ((@ \cup {DRDY}) \ {BIT5, ERR}) \cup {DRQ}]

\* SET FEATURES knows one subcommand: the transfer mode in the sector count, five bits of type
\* and three of mode.
Type(c) == Number({b - 3 : b \in c.sectorCount \cap 3..7})
Mode(c) == Number(c.sectorCount \cap 0..2)
Maximum(type) == CASE type = 0 -> 1 [] type = 1 -> 4 [] type = 4 -> 2 [] type = 8 -> 4
KnownType(c) == Type(c) \in {0, 1, 4, 8}
ModeFits(c) == KnownType(c) /\ Mode(c) <= Maximum(Type(c))
SetTransferMode == {0, 1}
SetsMode(c, n) == IF Type(c) \in {0, 1} THEN [c EXCEPT !.dev[n].pio = <<Type(c), Mode(c)>>]
                  ELSE [c EXCEPT !.dev[n].dma = <<Type(c), Mode(c)>>]
\* Only a mode beyond the maximum is an error in the error register; a failure never clears it.
Aborts(c) == c.features = SetTransferMode /\ KnownType(c) /\ ~ModeFits(c)
SetFeatures(c) ==
    LET n == Selected(c)
    IN  IF c.features = SetTransferMode /\ ModeFits(c) THEN SetsMode(c, n)
        ELSE [Names2(c, n) EXCEPT !.error = IF Aborts(c) THEN @ \cup {ABRTBit} ELSE @,
                                  !.status = ((@ \cup {DRDY}) \ {DRQ}) \cup {ERR}]

\* A command without a protocol fails without an interrupt; any other raises one.
CmdIdentify == {2, 3, 5, 6, 7}   CmdSetFeatures == {0, 1, 2, 3, 5, 6, 7}   CmdUnlock == {1, 4, 5, 6, 7}
WriteCommand(c, value) ==
    CASE value = CmdIdentify -> SetInterrupt(Identify(c), TRUE)
      [] value = CmdSetFeatures -> SetInterrupt(SetFeatures(c), TRUE)
      [] value = CmdUnlock -> SetInterrupt([c EXCEPT !.status = @ \cup {ERR}], TRUE)
      [] OTHER -> [c EXCEPT !.status = @ \cup {ERR}]

----------------------------------------------------------------------------
(* Ports. *)

\* ATADevice::ReadBuffer, in words; DRQ goes with the first.
ReadData(c, words) ==
    LET n == Selected(c)   d == c.dev[n]
    IN  [c EXCEPT !.dev[n].at = IF @ + words > d.size THEN d.size ELSE @ + words,
                  !.status = @ \ {DRQ}]

\* Reading the status, or its copy at the control port, clears the interrupt.
ReadStatus(c) == SetInterrupt(c, FALSE)

\* Which channel and register a port is.  A secondary command port is taken relative to the
\* primary base when it is read: the register is none.
RegisterAt(port, base) == IF port - base \in 0..7 THEN Names[port - base + 1] ELSE "none"
ReadsAt(port) ==
    CASE port \in PrimaryBase..(PrimaryBase + 7) -> <<"primary", RegisterAt(port, PrimaryBase)>>
      [] port = PrimaryControl -> <<"primary", "alternate">>
      [] port \in SecondaryBase..(SecondaryBase + 7) -> <<"secondary", RegisterAt(port, PrimaryBase)>>
      [] port = SecondaryControl -> <<"secondary", "alternate">>
WritesAt(port) ==
    CASE port \in PrimaryBase..(PrimaryBase + 7) -> <<"primary", RegisterAt(port, PrimaryBase)>>
      [] port = PrimaryControl -> <<"primary", "control">>
      [] port \in SecondaryBase..(SecondaryBase + 7) -> <<"secondary", RegisterAt(port, SecondaryBase)>>
      [] port = SecondaryControl -> <<"secondary", "control">>

\* What a read returns.  Without a drive every register but the status reads as zero.
AtaValue(port) ==
    LET ch == ReadsAt(port)[1]   r == ReadsAt(port)[2]   c == ata[ch]
    IN  CASE r = "none" -> {}
          [] r \in {"status", "alternate"} -> c.status
          [] r = "data" \/ ~Attached(ch, Selected(c)) -> {}
          [] OTHER -> c[r]
AtaRead(port, size) ==
    LET ch == ReadsAt(port)[1]   r == ReadsAt(port)[2]   c == ata[ch]
    IN  CASE r \in {"status", "alternate"} -> Becomes(ch, ReadStatus(c))
          [] r = "data" /\ Attached(ch, Selected(c)) -> Becomes(ch, ReadData(c, size \div 2))
          [] OTHER -> UNCHANGED ataVars

\* The control register: the line is lowered before interrupts are disabled.
\* Mutant of WriteControl: after.
Late(c, value) ==
    LET d == [c EXCEPT !.control = value]
    IN  IF nIEN \in value THEN SetInterrupt(d, FALSE) ELSE d
WriteControl(c, value) ==
    [(IF nIEN \in value THEN SetInterrupt(c, FALSE) ELSE c) EXCEPT !.control = value]

AtaWrite(port, value) ==
    LET ch == WritesAt(port)[1]   r == WritesAt(port)[2]   c == ata[ch]
    IN  CASE r = "control" -> Becomes(ch, WriteControl(c, value))
          [] r = "status" -> Becomes(ch, WriteCommand(c, value))
          [] r = "error" -> Becomes(ch, [c EXCEPT !.features = value])
          [] r \in TaskFile -> Becomes(ch, [c EXCEPT ![r] = value])
          [] OTHER -> UNCHANGED ataVars
=============================================================================
