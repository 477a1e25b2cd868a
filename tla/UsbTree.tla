------------------------------ MODULE UsbTree ------------------------------
(* The devices on the ports of a USB host controller: the ports of its root *)
(* hub (hw/ohci/ohci.cpp), the life of a device (hw/pci/usb_pci.cpp), and   *)
(* the hub that carries a gamepad on its second port (hw/ohci/ohci_hub.cpp, *)
(* hw/xid/xid_gamepad.cpp).  An operator takes the state of the tree and    *)
(* gives the state it leaves, so that the calls nest as they do in the code.*)
(*                                                                          *)
(* Nothing in the program calls Hub::Init or XidGamepad::Init yet, so that  *)
(* the ports stay empty: this is what the two do when they are called, with *)
(* m_UsbDev set to the first of the two controllers.                        *)
EXTENDS UsbDescriptors, FiniteSets

CONSTANT RootPorts   \* root ports that are used, 1 .. 4 in the code

ASSUME RootPortsAssumption == RootPorts \in 1..4

Roots == 1..RootPorts
GamepadPort == 2     \* a gamepad claims the port "<root>.2"
Hubs == {<<p>> : p \in Roots}
Gamepads == {<<p, GamepadPort>> : p \in Roots}
Devices == Hubs \cup Gamepads

NoRequest == [name |-> "none", value |-> 0, index |-> 0, length |-> 0]
\* XboxDeviceState.  data says what DataBuffer holds: the request it answers or belongs to, and
\* what a GetPortStatus found; ran counts the control writes since the last SETUP.
NewDevice == [plugged |-> FALSE, attached |-> FALSE, state |-> "notattached", addr |-> 0,
              configuration |-> 0, wakeup |-> FALSE, request |-> NoRequest, setup |-> "idle",
              length |-> 0, index |-> 0, data |-> [of |-> NoRequest, connected |-> FALSE], ran |-> 0]

ChangeBits == {"CSC", "PESC", "PSSC", "OCIC", "PRSC"}    \* OHCI_PORT_WTC
NoPort == [status |-> {"POWER"}, change |-> {}]

\* root: HcRhPortStatus; rhs: HcRhStatus; hub: wPortStatus and wPortChange; hcfs: the state in
\* HcControl; intr: HcInterruptStatus.
EmptyTree == [dev |-> [d \in Devices |-> NewDevice],
              root |-> [p \in Roots |-> {}], rhs |-> {},
              hub |-> [p \in Roots |-> [i \in 1..HubPorts |-> NoPort]],
              hcfs |-> "reset", intr |-> {}]

SetInterrupt(w, event) == [w EXCEPT !.intr = @ \cup {event}]
\* The new status of a root port, announced if it is not the old one.
SetRoot(w, p, status) ==
    IF status = w.root[p] THEN w ELSE SetInterrupt([w EXCEPT !.root[p] = status], "RHSC")

----------------------------------------------------------------------------
(* Callbacks of the ports. *)

OhciAttach(w, p) ==
    LET v == IF w.hcfs = "suspend" THEN SetInterrupt(w, "RD") ELSE w
    IN  SetRoot(v, p, (v.root[p] \cup {"CCS", "CSC"}) \ {"LSDA"})

OhciDetach(w, p) ==
    LET s == IF "CCS" \in w.root[p] THEN (w.root[p] \ {"CCS"}) \cup {"CSC"} ELSE w.root[p]
    IN  SetRoot(w, p, IF "PES" \in s THEN (s \ {"PES"}) \cup {"PESC"} ELSE s)

\* A wakeup of a port that is not suspended while the controller is not either sets nothing.
OhciWakeup(w, p) ==
    LET v == IF "PSS" \in w.root[p] THEN SetRoot(w, p, (w.root[p] \ {"PSS"}) \cup {"PSSC"}) ELSE w
    IN  IF w.hcfs = "suspend"
        THEN SetInterrupt([w EXCEPT !.root = v.root, !.hcfs = "resume"], "RD") ELSE v

\* USB_Wakeup, for the interrupt endpoint of the hub on p.
Wakeup(w, p) ==
    IF w.dev[<<p>>].wakeup /\ w.dev[<<p>>].plugged THEN OhciWakeup(w, p) ELSE w

\* Mutant of HubAttach: the host is not woken.
QuietAttach(w, p, i) ==
    [w EXCEPT !.hub[p][i] = [status |-> (@.status \cup {"CONNECTION"}) \ {"LOW_SPEED"},
                             change |-> @.change \cup {"CONNECTION"}]]
\* UsbHub_Attach
HubAttach(w, p, i) ==
    Wakeup([w EXCEPT !.hub[p][i] = [status |-> (@.status \cup {"CONNECTION"}) \ {"LOW_SPEED"},
                                    change |-> @.change \cup {"CONNECTION"}]], p)

\* Mutant of HubReset: what is attached is not announced again.
Forgets(w, p) ==
    [w EXCEPT !.hub[p] = [i \in 1..HubPorts |->
        IF i = GamepadPort /\ w.dev[<<p, i>>].attached
        THEN [NoPort EXCEPT !.status = @ \cup {"CONNECTION"}] ELSE NoPort]]
\* UsbHub_HandleReset: what is attached is announced again.
HubReset(w, p) ==
    [w EXCEPT !.hub[p] = [i \in 1..HubPorts |->
        IF i = GamepadPort /\ w.dev[<<p, i>>].attached
        THEN [status |-> {"POWER", "CONNECTION"}, change |-> {"CONNECTION"}]
        ELSE NoPort]]

----------------------------------------------------------------------------
(* The life of a device. *)

\* Mutant of DeviceReset: the device keeps its address.
KeepAddress(w, d) ==
    IF ~w.dev[d].attached THEN w
    ELSE LET v == [w EXCEPT !.dev[d].wakeup = FALSE, !.dev[d].state = "default"]
         IN  IF IsHub(d) THEN HubReset(v, d[1]) ELSE v
\* USB_DeviceReset: the configuration and a transfer under way stay as they are.
DeviceReset(w, d) ==
    IF ~w.dev[d].attached THEN w
    ELSE LET v == [w EXCEPT !.dev[d].wakeup = FALSE, !.dev[d].addr = 0, !.dev[d].state = "default"]
         IN  IF IsHub(d) THEN HubReset(v, d[1]) ELSE v

\* USB_Attach, after which a gamepad takes its default configuration.
Attach(w, d) ==
    IF IsHub(d)
    THEN [OhciAttach(w, d[1]) EXCEPT !.dev[d].state = "attached"]
    ELSE [HubAttach(w, d[1], d[2]) EXCEPT !.dev[d].state = "attached", !.dev[d].configuration = 0]

\* USB_DeviceAttach
DeviceAttach(w, d) == Attach([w EXCEPT !.dev[d].attached = TRUE], d)

\* USB_Detach and USB_PortReset, which only hubs meet.
Detach(w, d) == [OhciDetach(w, d[1]) EXCEPT !.dev[d].state = "notattached"]
PortReset(w, d) == DeviceReset(Attach(Detach(w, d), d), d)

\* Hub::Init and XidGamepad::Init, from the claim of the port to USB_DeviceAttach.
CanPlug(w, d) == ~w.dev[d].plugged /\ (~IsHub(d) => w.dev[<<d[1]>>].plugged)
Plug(w, d) ==
    LET v == [w EXCEPT !.dev[d] = [NewDevice EXCEPT !.plugged = TRUE],
                       !.hub[d[1]] = IF IsHub(d) THEN [i \in 1..HubPorts |-> NoPort] ELSE @]
    IN  DeviceAttach(v, d)

\* UsbHub_HandleDestroy: the gamepad goes with its hub.
HandleDestroy(w, p) ==
    LET v == Detach(w, <<p>>)
    IN  [v EXCEPT !.dev = [d \in Devices |-> IF d[1] = p THEN NewDevice ELSE @[d]]]

\* Mutant of HubFindDevice: a disabled port is searched too.
AnyPort(w, p, addr) ==
    {d \in Gamepads : d[1] = p /\ w.dev[d].attached /\ w.dev[d].state = "default" /\ w.dev[d].addr = addr}
\* UsbHub_FindDevice and USB_FindDevice, below a hub and below the root.
HubFindDevice(w, p, addr) ==
    {d \in Gamepads : /\ d[1] = p /\ "ENABLE" \in w.hub[p][d[2]].status
                      /\ w.dev[d].attached /\ w.dev[d].state = "default" /\ w.dev[d].addr = addr}
PortFindDevice(w, p, addr) ==
    LET h == w.dev[<<p>>]
    IN  IF ~h.attached \/ h.state # "default" THEN {}
        ELSE IF h.addr = addr THEN {<<p>>} ELSE HubFindDevice(w, p, addr)
\* OHCI_FindDevice: the device on the first enabled port that has one, in a set, or {}.
FindDevice(w, addr) ==
    LET hits == {p \in Roots : "PES" \in w.root[p] /\ PortFindDevice(w, p, addr) # {}}
    IN  IF hits = {} THEN {}
        ELSE PortFindDevice(w, CHOOSE p \in hits : \A q \in hits : p <= q, addr)

----------------------------------------------------------------------------
(* Registers of the root hub. *)

\* OHCI_StateReset, for the root hub.
ResetHost(w) ==
    LET cleared == [w EXCEPT !.root = [p \in Roots |-> {}], !.rhs = {}, !.hcfs = "reset", !.intr = {}]
        after[p \in 0..RootPorts] ==
            IF p = 0 THEN cleared
            ELSE IF cleared.dev[<<p>>].attached THEN PortReset(after[p - 1], <<p>>) ELSE after[p - 1]
    IN  after[RootPorts]

\* OHCI_ChangeState
ChangeHcfs(w, hcfs) ==
    IF hcfs = w.hcfs THEN w
    ELSE IF hcfs = "reset" THEN ResetHost(w) ELSE [w EXCEPT !.hcfs = hcfs]

\* OHCI_PortPower
PortPower(status, on) == IF on THEN status \cup {"PPS"} ELSE status \ {"PPS", "CCS", "PSS", "PRS"}

\* OHCI_PortSetIfConnected
SetIfConnected(status, value, bit) ==
    IF bit \notin value THEN status
    ELSE IF "CCS" \in status THEN status \cup {bit} ELSE status \cup {"CSC"}

\* OHCI_PortSetStatus: the bits in their order, and one announcement at the end.
PortSetStatus(w, p, value) ==
    LET cleared == (w.root[p] \ (value \cap ChangeBits)) \ (IF "CCS" \in value THEN {"PES"} ELSE {})
        set     == SetIfConnected(SetIfConnected(cleared, value, "PES"), value, "PSS")
        resets  == "PRS" \in value /\ "CCS" \in set /\ "PRS" \notin set
        reset   == IF resets THEN set \cup {"PES", "PRSC"} ELSE SetIfConnected(set, value, "PRS")
        off     == IF "LSDA" \in value THEN PortPower(reset, FALSE) ELSE reset
        on      == IF "PPS" \in value THEN PortPower(off, TRUE) ELSE off
    IN  SetRoot(IF resets THEN DeviceReset(w, <<p>>) ELSE w, p, on)

\* OHCI_SetHubStatus: only a change of HcRhStatus itself is announced.
SetHubStatus(w, value) ==
    LET down == [p \in Roots |-> IF "LPS" \in value THEN PortPower(w.root[p], FALSE) ELSE w.root[p]]
        up   == [p \in Roots |-> IF "LPSC" \in value THEN PortPower(down[p], TRUE) ELSE down[p]]
        rhs  == ((w.rhs \ (value \cap {"OCIC"})) \cup (value \cap {"DRWE"}))
                    \ (IF "CRWE" \in value THEN {"DRWE"} ELSE {})
        v    == [w EXCEPT !.root = up, !.rhs = rhs]
    IN  IF rhs = w.rhs THEN v ELSE SetInterrupt(v, "RHSC")
=============================================================================
