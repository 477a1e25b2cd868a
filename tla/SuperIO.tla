------------------------------- MODULE SuperIO -------------------------------
(* The Super I/O chip: one pair of ports selects and accesses the global    *)
(* registers and those of one logical device, and leaving configuration     *)
(* mode activates the serial ports.                                         *)
EXTENDS Integers

VARIABLE sio   \* selected register, registers, the serial ports
sioVars == <<sio>>

Enter == 85   Exit == 170
DeviceNumber == 7   MaxConfigReg == 48   MaxDevice == 12   MaxDeviceRegs == 255
Activate == 48   Interrupt == 112
SerialDevice(i) == 3 + i   \* logical devices 4 and 5

SioInit ==
    sio = [configMode |-> FALSE, selected |-> 0,
           config |-> [r \in 0..(MaxConfigReg - 1) |->
                        CASE r = 38 -> 46 [] r = 39 -> 0 [] OTHER -> 0],
           device |-> [i \in {} |-> 0],
           port |-> [i \in 1..2 |-> [active |-> FALSE, irq |-> 0]]]

\* The registers of the devices are one array: a device has 255 of them, so that register 255
\* of a device is register 0 of the next.
Slot(device, r) == device * MaxDeviceRegs + r
Stored(s, i) == IF i \in DOMAIN s.device THEN s.device[i] ELSE 0

\* UpdateDevices: a port is activated once, with the interrupt its device has then.
\* Mutant of UpdateDevices: both ports look at the first device.
FirstDevice(s) ==
    [s EXCEPT !.port = [i \in 1..2 |->
        IF Stored(s, Slot(SerialDevice(1), Activate)) # 0 /\ ~s.port[i].active
        THEN [active |-> TRUE, irq |-> Stored(s, Slot(SerialDevice(1), Interrupt))] ELSE s.port[i]]]
UpdateDevices(s) ==
    [s EXCEPT !.port = [i \in 1..2 |->
        IF Stored(s, Slot(SerialDevice(i), Activate)) # 0 /\ ~s.port[i].active
        THEN [active |-> TRUE, irq |-> Stored(s, Slot(SerialDevice(i), Interrupt))] ELSE s.port[i]]]

\* The configuration port: two keys, and everything else selects a register, in either mode.
WriteSelector(value) ==
    sio' = CASE value = Enter -> [sio EXCEPT !.configMode = TRUE]
             [] value = Exit -> UpdateDevices([sio EXCEPT !.configMode = FALSE])
             [] OTHER -> [sio EXCEPT !.selected = value]

\* The data port.  The guest's device numbers and registers are within the arrays: only a debug
\* build refuses others.
InRange == sio.selected < MaxConfigReg \/ (sio.config[DeviceNumber] < MaxDevice /\ sio.selected < 256)
WriteData(value) ==
    /\ InRange
    /\ sio' = IF sio.selected < MaxConfigReg THEN [sio EXCEPT !.config[sio.selected] = value]
              ELSE LET s == Slot(sio.config[DeviceNumber], sio.selected)
                   IN  [sio EXCEPT !.device = [i \in DOMAIN @ \cup {s} |-> IF i = s THEN value ELSE @[i]]]

SioWrite(port, value) == IF port = 46 THEN WriteSelector(value) ELSE WriteData(value)
\* The configuration port reads as zero, a device number out of range too.
SioValue(port) ==
    IF port = 46 THEN 0
    ELSE IF sio.selected < MaxConfigReg THEN sio.config[sio.selected]
    ELSE IF sio.config[DeviceNumber] >= MaxDevice THEN 0
    ELSE Stored(sio, Slot(sio.config[DeviceNumber], sio.selected))
=============================================================================
