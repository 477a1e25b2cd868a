-------------------------------- MODULE Usb --------------------------------
(* A USB host controller with its devices, a user who plugs hubs and        *)
(* gamepads in and out, and a guest.  In focus "tree" the guest enumerates: *)
(* it scans the root ports after an interrupt, resets the port of a device, *)
(* gives it an address, and does the same behind a hub; the user interferes *)
(* between any two packets.  In focus "control" the guest sends packets to  *)
(* one device in whatever order it likes, and begins a new transfer after a *)
(* stall, on which OHCI_ServiceTD halts the endpoint.                       *)
(*                                                                          *)
(* A packet, a write to a register of a root port and a plug are one step   *)
(* each: the frame worker and Hub::Init exclude each other by m_bFrameTime  *)
(* (FrameSerialised in Ohci), the thread of the processor does not.         *)
EXTENDS UsbControl

CONSTANTS
    Addresses,   \* the addresses the guest gives, without 0
    Owned,       \* the devices the user has, by the port he plugs them into
    Enumerated,  \* the tree in focus "control", and the addresses of its devices
    Sizes,       \* the sizes of its packets
    Foci         \* what happens in a behaviour: the guest enumerates and does the acts "acts" while
                 \* the user plugs "plugs" times, or it sends packets with the requests "asks" to
                 \* the address "to"

ASSUME UsbAssumption ==
    /\ Owned \subseteq Devices /\ Addresses \subseteq 1..127 /\ Sizes \subseteq Nat
    /\ \A f \in Foci : f.part \in {"tree", "control"} /\ f.to \in Addresses /\ f.plugs \in Nat
          /\ f.acts \subseteq {"stop", "reset", "suspend", "disable"}
          /\ \A r \in f.asks : r.name # "SetAddress" /\ r.value \in Nat /\ r.length \in Nat

VARIABLES
    usb,       \* the controller and its devices
    focus, plugs,
    transfer,  \* the control transfer of the guest: where to, the request, what has gone over
    answer,    \* what the last packet brought
    known,     \* the ports on which the guest believes a device to be
    given,     \* the device the guest gave each address to
    pending,   \* the device that answers at address 0, or NoDevice
    scan,      \* the root ports the guest has still to look at, and the one it looks at
    rescan     \* the hub whose gamepad port the guest has acknowledged and reads again, or NoDevice

guest == <<transfer, answer, known, given, pending, scan, rescan>>
usbVars == <<usb, focus, plugs, guest>>

NoDevice == <<>>
NoTransfer == [to |-> 0, request |-> NoRequest, stage |-> "none", got |-> 0, sent |-> 0]
NoAnswer == [from |-> 0, data |-> NewDevice.data]
NoScan == [left |-> {}, at |-> 0, step |-> "none", seen |-> {}]

Enumerates == focus.part = "tree"
UsbInit ==
    /\ focus \in Foci /\ plugs = 0
    /\ usb = IF Enumerates THEN EmptyTree ELSE Enumerated.tree
    /\ given = IF Enumerates THEN [a \in Addresses |-> NoDevice] ELSE Enumerated.given
    /\ known = {} /\ pending = NoDevice /\ scan = NoScan /\ rescan = NoDevice
    /\ transfer = NoTransfer /\ answer = NoAnswer

----------------------------------------------------------------------------
(* Packets of a control transfer. *)

Packet(pid, to, request, size) == [pid |-> pid, to |-> to, ep |-> 0, request |-> request, size |-> size]

\* What the guest sees of a packet, and of its transfer once that is over.
Answer(r) == IF r.count = 0 THEN NoAnswer ELSE [from |-> r.from, data |-> r.data]
Kept(t) == IF t.stage = "open" THEN t ELSE [NoTransfer EXCEPT !.to = t.to, !.stage = t.stage]
Handle(r, next) ==
    /\ usb.hcfs = "operational"
    /\ usb' = r.tree /\ answer' = Answer(r) /\ transfer' = Kept(next)

Opened(to, request, r) ==
    [NoTransfer EXCEPT !.to = to, !.request = request,
                       !.stage = IF r.status = "ok" THEN "open" ELSE "stalled"]
Stage(r, over) == IF r.status # "ok" THEN "stalled" ELSE IF over THEN "over" ELSE transfer.stage

SendSetup(to, request, size) ==
    LET r == HandlePacket(usb, Packet("setup", to, request, size))
    IN  Handle(r, Opened(to, request, r))
SendIn(size) ==
    LET r == HandlePacket(usb, Packet("in", transfer.to, NoRequest, size))
    IN  Handle(r, [transfer EXCEPT !.got = @ + r.count, !.stage = Stage(r, ~IsRead(transfer.request))])
SendOut(size) ==
    LET r == HandlePacket(usb, Packet("out", transfer.to, NoRequest, size))
        sent == IF IsRead(transfer.request) THEN transfer.sent
                ELSE Min2(transfer.sent + size, transfer.request.length)
    IN  Handle(r, [transfer EXCEPT !.sent = sent, !.stage = Stage(r, IsRead(transfer.request))])

----------------------------------------------------------------------------
(* Focus "control". *)

Setup ==
    /\ ~Enumerates
    /\ \E r \in focus.asks, n \in {8, 7} : SendSetup(focus.to, r, n)
    /\ UNCHANGED <<focus, plugs, known, given, pending, scan, rescan>>
InToken ==
    /\ ~Enumerates /\ transfer.stage \in {"open", "over"}
    /\ \E n \in Sizes : SendIn(n)
    /\ UNCHANGED <<focus, plugs, known, given, pending, scan, rescan>>
OutToken ==
    /\ ~Enumerates /\ transfer.stage \in {"open", "over"}
    /\ \E n \in Sizes : SendOut(n)
    /\ UNCHANGED <<focus, plugs, known, given, pending, scan, rescan>>
\* The interrupt endpoints: the hub's status changes, the gamepad's reports.
Poll ==
    /\ ~Enumerates /\ usb.hcfs = "operational"
    /\ \E n \in {0, 1, 2}, pid \in {"in", "out"} :
          LET ep == IF given[focus.to] \in Hubs THEN 1 ELSE 2
              r  == HandlePacket(usb, [Packet(pid, focus.to, NoRequest, n) EXCEPT !.ep = ep])
          IN  usb' = r.tree
    /\ UNCHANGED <<focus, plugs, transfer, answer, known, given, pending, scan, rescan>>

----------------------------------------------------------------------------
(* Focus "tree": the user and the registers of the controller. *)

Calm == transfer.stage \in {"none", "over", "stalled"}
Withdrawn(p) == [a \in Addresses |-> IF given[a] # NoDevice /\ given[a][1] = p THEN NoDevice ELSE given[a]]
Forget(p) ==
    /\ given' = Withdrawn(p)
    /\ pending' = IF pending # NoDevice /\ pending[1] = p THEN NoDevice ELSE pending
    /\ rescan' = IF rescan = <<p>> THEN NoDevice ELSE rescan
OnPort(p) == IF transfer.to = 0 THEN pending # NoDevice /\ pending[1] = p
             ELSE given[transfer.to] # NoDevice /\ given[transfer.to][1] = p

PlugIn ==
    /\ Enumerates /\ plugs < focus.plugs /\ plugs' = plugs + 1
    /\ \E d \in Owned : CanPlug(usb, d) /\ usb' = Plug(usb, d)
    /\ UNCHANGED <<focus, guest>>
Unplug ==
    /\ Enumerates /\ plugs < focus.plugs /\ plugs' = plugs + 1
    /\ \E p \in Roots : usb.dev[<<p>>].plugged /\ usb' = HandleDestroy(usb, p)
    /\ UNCHANGED <<focus, guest>>

\* The guest stops the bus, starts it with its ports powered, or resets the controller and forgets what it knew.
ChangeState ==
    /\ Enumerates /\ Calm
    /\ \E s \in {"operational", "suspend", "reset"} :
          /\ s # usb.hcfs /\ (s = "suspend" => usb.hcfs = "operational" /\ "stop" \in focus.acts)
          /\ s = "reset" => "reset" \in focus.acts
          /\ usb' = ChangeHcfs(IF s = "operational" THEN SetHubStatus(usb, {"LPSC", "DRWE"}) ELSE usb, s)
          /\ IF s = "reset"
             THEN /\ known' = {} /\ given' = [a \in Addresses |-> NoDevice] /\ pending' = NoDevice
                  /\ scan' = NoScan /\ rescan' = NoDevice /\ transfer' = NoTransfer
             ELSE UNCHANGED <<known, given, pending, scan, rescan, transfer>>
    /\ UNCHANGED <<focus, plugs, answer>>

\* The interrupt: acknowledge it, then look at every root port: read its status, write back the
\* change bits, read it again.  A port whose connection changed is disabled.
Interrupted ==
    /\ Enumerates /\ "RHSC" \in usb.intr /\ scan.left = {}
    /\ usb' = [usb EXCEPT !.intr = {}]
    /\ scan' = [NoScan EXCEPT !.left = Roots]
    /\ UNCHANGED <<focus, plugs, transfer, answer, known, given, pending, rescan>>
Look ==
    /\ Enumerates /\ scan.step = "none"
    /\ \E p \in scan.left :
          /\ \A q \in scan.left : p <= q
          /\ scan' = [scan EXCEPT !.at = p, !.step = "clear", !.seen = usb.root[p] \cap ChangeBits]
    /\ UNCHANGED <<usb, focus, plugs, transfer, answer, known, given, pending, rescan>>
Clear ==
    /\ Enumerates /\ scan.step = "clear" /\ scan' = [scan EXCEPT !.step = "read"]
    /\ LET p == scan.at
       IN  IF "CSC" \in scan.seen
           THEN /\ usb' = PortSetStatus(usb, p, scan.seen \cup {"CCS"}) /\ Forget(p)
                /\ known' = {d \in known : d[1] # p}
                /\ transfer' = IF OnPort(p) THEN NoTransfer ELSE transfer
           ELSE /\ usb' = PortSetStatus(usb, p, scan.seen)
                /\ UNCHANGED <<known, given, pending, rescan, transfer>>
    /\ UNCHANGED <<focus, plugs, answer>>
Read ==
    /\ Enumerates /\ scan.step = "read"
    /\ scan' = [NoScan EXCEPT !.left = scan.left \ {scan.at}]
    /\ known' = IF "CCS" \in usb.root[scan.at] THEN known \cup {<<scan.at>>} ELSE known \ {<<scan.at>>}
    /\ UNCHANGED <<usb, focus, plugs, transfer, answer, given, pending, rescan>>

\* One device at a time answers at address 0.
ResetPort ==
    /\ Enumerates /\ Calm /\ pending = NoDevice /\ scan = NoScan
    /\ \E p \in Roots :
          /\ <<p>> \in known
          /\ usb' = PortSetStatus(usb, p, {"PRS"})
          /\ given' = Withdrawn(p)
          /\ pending' = <<p>>
          /\ known' = known \ {<<p, GamepadPort>>}
          /\ rescan' = IF rescan = <<p>> THEN NoDevice ELSE rescan
    /\ UNCHANGED <<focus, plugs, transfer, answer, scan>>
Suspend ==
    /\ Enumerates /\ "suspend" \in focus.acts /\ Calm /\ usb.hcfs = "operational"
    /\ \E p \in Roots : <<p>> \in known /\ usb' = PortSetStatus(usb, p, {"PSS"})
    /\ UNCHANGED <<focus, plugs, guest>>
Disable ==
    /\ Enumerates /\ "disable" \in focus.acts /\ Calm /\ Len(pending) = 1
    /\ usb' = PortSetStatus(usb, pending[1], {"CCS"})
    /\ pending' = NoDevice
    /\ UNCHANGED <<focus, plugs, transfer, answer, known, given, scan, rescan>>

----------------------------------------------------------------------------
(* Focus "tree": transfers. *)

Simple(name, value, index) == [name |-> name, value |-> value, index |-> index, length |-> 0]
PortStatus == [name |-> "GetPortStatus", value |-> 0, index |-> GamepadPort, length |-> 4]
\* What the guest may ask for next, and of which address.
Next0 ==
    {[to |-> 0, request |-> Simple("SetAddress", a, 0)] : a \in {a \in Addresses : pending # NoDevice /\ given[a] = NoDevice}}
    \cup UNION {LET h == given[a]   pad == <<h[1], GamepadPort>>
                IN  {[to |-> a, request |-> r] : r \in
                        (CASE rescan = h -> {PortStatus}
                           [] rescan = NoDevice -> {Simple("ClearPortFeature", 16, GamepadPort)}
                           [] OTHER -> {})
                        \cup (IF pad \in known /\ pending = NoDevice THEN {Simple("SetPortFeature", 4, GamepadPort)} ELSE {})
                        \cup (IF pending = pad /\ "disable" \in focus.acts THEN {Simple("ClearPortFeature", 1, GamepadPort)} ELSE {})
                        \cup (IF "stop" \in focus.acts THEN {Simple("SetFeature", 1, 0)} ELSE {})}
                : a \in {a \in Addresses : given[a] \in Hubs}}
Begin ==
    /\ Enumerates /\ Calm
    /\ \E n \in Next0 : SendSetup(n.to, n.request, 8)
    /\ UNCHANGED <<focus, plugs, known, given, pending, scan, rescan>>
Data ==
    /\ Enumerates /\ transfer.stage = "open" /\ IsRead(transfer.request) /\ transfer.got = 0
    /\ SendIn(8)
    /\ UNCHANGED <<focus, plugs, known, given, pending, scan, rescan>>

\* The status stage of a read: what GetPortStatus said becomes known.
StatusOut ==
    /\ Enumerates /\ transfer.stage = "open" /\ IsRead(transfer.request) /\ transfer.got > 0
    /\ SendOut(0)
    /\ LET h == given[transfer.to]   pad == <<h[1], GamepadPort>>
       IN  known' = IF transfer'.stage # "over" THEN known
                    ELSE IF answer.data.connected THEN known \cup {pad} ELSE known \ {pad}
    /\ rescan' = NoDevice
    /\ UNCHANGED <<focus, plugs, given, pending, scan>>

\* The status stage of a write, and what the guest makes of it.
StatusIn ==
    /\ Enumerates /\ transfer.stage = "open" /\ ~IsRead(transfer.request)
    /\ SendIn(0)
    /\ LET q == transfer.request   ok == transfer'.stage = "over"
       IN  CASE q.name = "SetAddress" ->
                    /\ given' = IF ok THEN [given EXCEPT ![q.value] = pending] ELSE given
                    /\ pending' = IF ok THEN NoDevice ELSE pending
                    /\ UNCHANGED rescan
             [] q.name = "SetPortFeature" ->
                    LET pad == <<given[transfer.to][1], GamepadPort>>
                    IN  /\ given' = [a \in Addresses |-> IF given[a] = pad THEN NoDevice ELSE given[a]]
                        /\ pending' = IF ok THEN pad ELSE NoDevice
                        /\ UNCHANGED rescan
             [] q.name = "ClearPortFeature" /\ q.value = 1 ->
                    pending' = NoDevice /\ UNCHANGED <<given, rescan>>
             [] q.name = "ClearPortFeature" /\ q.value = 16 ->
                    rescan' = (IF ok THEN given[transfer.to] ELSE NoDevice) /\ UNCHANGED <<given, pending>>
             [] OTHER -> UNCHANGED <<given, pending, rescan>>
    /\ UNCHANGED <<focus, plugs, known, scan>>

UsbNext ==
    \/ Setup \/ InToken \/ OutToken \/ Poll
    \/ PlugIn \/ Unplug \/ ChangeState
    \/ Interrupted \/ Look \/ Clear \/ Read \/ ResetPort \/ Suspend \/ Disable
    \/ Begin \/ Data \/ StatusOut \/ StatusIn
UsbSpec == UsbInit /\ [][UsbNext]_usbVars

----------------------------------------------------------------------------
(* Properties. *)

\* A device packets can reach: it was reset, and the ports above it are enabled.
Listens(w, d) ==
    /\ "PES" \in w.root[d[1]]
    /\ w.dev[<<d[1]>>].attached /\ w.dev[<<d[1]>>].state = "default"
    /\ ~IsHub(d) => /\ "ENABLE" \in w.hub[d[1]][d[2]].status
                    /\ w.dev[d].attached /\ w.dev[d].state = "default"

\* The tree of focus "control" is one that an enumeration leaves: its devices have the addresses
\* that were given to them.
ASSUME EnumeratedAssumption ==
    LET w == Enumerated.tree
    IN  /\ DOMAIN Enumerated.given = Addresses
        /\ \A a \in Addresses : Enumerated.given[a] \in Devices \cup {NoDevice}
        /\ DOMAIN w = DOMAIN EmptyTree /\ DOMAIN w.dev = Devices /\ DOMAIN w.root = Roots /\ DOMAIN w.hub = Roots
        /\ \A d \in Devices :
              /\ DOMAIN w.dev[d] = DOMAIN NewDevice /\ w.dev[d].request = NoRequest /\ w.dev[d].ran \in Nat
              /\ Listens(w, d) => w.dev[d].addr \in Addresses /\ Enumerated.given[w.dev[d].addr] = d
        /\ \A p \in Roots :
              /\ DOMAIN w.hub[p] = 1..HubPorts
              /\ \A i \in 1..HubPorts : DOMAIN w.hub[p][i] = DOMAIN NoPort
              /\ "PES" \in w.root[p] => "CCS" \in w.root[p]
              /\ "PRS" \notin w.root[p]

\* A packet sent to an address reaches the device the guest gave it to, or none: no other device
\* that once had the address, or was moved, reset or plugged in since, ever answers there.
AddressNamesItsDevice == \A a \in Addresses : FindDevice(usb, a) \subseteq {given[a]}
\* ... and a device at address 0 is the one the guest has just reset.
OneUnaddressed == Enumerates => FindDevice(usb, 0) \subseteq {pending}
\* Nor do two devices listen to the same address, of which the search would find the first only.
NoSharedAddress ==
    \A d, e \in Devices :
        /\ Listens(usb, d) /\ Listens(usb, e) /\ usb.dev[d].addr = usb.dev[e].addr
        /\ Enumerates \/ usb.dev[d].addr # 0
        => d = e

\* Every packet finds the device it is meant for or nobody.
PacketsFind == AddressNamesItsDevice /\ OneUnaddressed /\ NoSharedAddress

\* No connection or disconnection is missed: as long as the guest believes something else of a
\* port than what is plugged into it, the change is announced, by the interrupt for a root port
\* and by the port's change bit for a port of a hub, or the guest is about to read the port.
NoConnectMissed ==
    Enumerates =>
        /\ \A p \in Roots :
              (<<p>> \in known) # usb.dev[<<p>>].attached
              => "RHSC" \in usb.intr \/ p \in scan.left
        /\ \A a \in Addresses :
              LET h == given[a]
              IN  h \in Hubs /\ FindDevice(usb, a) = {h} /\ rescan # h
                  => \/ "CONNECTION" \in usb.hub[h[1]][GamepadPort].change
                     \/ (<<h[1], GamepadPort>> \in known) = usb.dev[<<h[1], GamepadPort>>].attached

\* A device plugged into a hub that was allowed to wake the host resumes a suspended bus.
ConnectWakes ==
    [][ \A p \in Roots :
          LET pad == <<p, GamepadPort>>
          IN  /\ ~usb.dev[pad].attached /\ usb'.dev[pad].attached
              /\ usb.dev[<<p>>].wakeup /\ usb.hcfs = "suspend"
              => usb'.hcfs = "resume" /\ "RD" \in usb'.intr ]_usbVars

\* Whatever is plugged in or out, the guest comes to know of it, asleep or awake.
ConnectionsNoticed == []NoConnectMissed /\ ConnectWakes

\* What a control read gives is the answer to the request of its last SETUP, in order and without
\* a gap, and a read that ends well has given all of it that was asked for.
Expected == LET d == CHOOSE x \in FindDevice(usb, transfer.to) : TRUE
            IN  Min2(Reply(usb, d, transfer.request), transfer.request.length)
ReadsInOrder ==
    [][ /\ transfer'.got > transfer.got
           => /\ answer'.data.of = transfer.request /\ answer'.from = transfer.got
              /\ transfer'.got <= Expected
        /\ /\ transfer.stage = "open" /\ transfer'.stage = "over" /\ IsRead(transfer.request)
           => transfer.got = Expected ]_usbVars

\* A control write takes effect once, on the device that took its SETUP, and after the last byte
\* of its data.
WritesOnce ==
    [][ \A d \in Devices :
          usb'.dev[d].ran > usb.dev[d].ran
          => /\ usb.dev[d].ran = 0 /\ usb.dev[d].request = transfer.request
             /\ transfer.sent = transfer.request.length ]_usbVars

\* A control transfer gives what it was asked for and does what it was told, once.
TransfersFaithful == ReadsInOrder /\ WritesOnce
=============================================================================
