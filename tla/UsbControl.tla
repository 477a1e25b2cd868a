----------------------------- MODULE UsbControl -----------------------------
(* Packets to the devices of the tree (hw/pci/usb_pci.cpp): the control     *)
(* endpoint with its setup, data and status stages, the standard requests,  *)
(* and those of the hub and the gamepad classes.  A packet is handled in    *)
(* one call on the frame worker's thread; no device of the program defers   *)
(* its answer, so that the queues of packets are always empty.              *)
EXTENDS UsbTree

DataSize == 4096    \* sizeof DataBuffer

Min2(a, b) == IF a < b THEN a ELSE b

\* What a packet leaves: the tree, the status and the bytes that went to the host: how many, from
\* where in DataBuffer, and what they are a piece of.
Done(w, status) == [tree |-> w, status |-> status, count |-> 0, from |-> 0, data |-> NewDevice.data]
Sent(w, d, count, from) ==
    [tree |-> w, status |-> "ok", count |-> count, from |-> from, data |-> w.dev[d].data]

ReadRequests == {"GetStatus", "GetDescriptor", "GetConfiguration", "GetInterface", "GetHubStatus",
                 "GetPortStatus", "GetHubDescriptor", "GetReport", "GetXidDescriptor", "GetCapabilities"}
IsRead(req) == req.name \in ReadRequests    \* USB_DIR_IN in bmRequestType

----------------------------------------------------------------------------
(* Control reads: USBDesc_HandleControl, then the class.  None changes the  *)
(* device; the answer is the number of bytes.                               *)

StandardRead(w, d, req) ==
    CASE req.name = "GetStatus" -> 2
      [] req.name = "GetConfiguration" -> 1
      [] req.name = "GetDescriptor" -> GetDescriptor(d, req.value \div 256, req.value % 256, req.length)
      [] req.name = "GetInterface" /\ req.index < NumInterfaces(d, w.dev[d].configuration) -> 1
      [] OTHER -> Refused
HubRead(req) ==
    CASE req.name = "GetHubStatus" -> 4
      [] req.name = "GetPortStatus" /\ req.index \in 1..HubPorts -> 4
      [] req.name = "GetHubDescriptor" -> 10
      [] OTHER -> Refused
\* As in a release build: branches that end in an assertion stall, and GetXidDescriptor gives
\* all of its 16 bytes whatever the length is (xid_gamepad.cpp:404).
GamepadRead(req) ==
    CASE req.name = "GetReport" /\ req.value = 256 /\ req.length <= 20 -> req.length
      [] req.name = "GetXidDescriptor" /\ req.value = 16896 -> 16
      [] req.name = "GetCapabilities" /\ req.value = 256 -> Min2(req.length, 20)
      [] req.name = "GetCapabilities" /\ req.value = 512 -> Min2(req.length, 6)
      [] OTHER -> Refused
Reply(w, d, req) ==
    IF StandardRead(w, d, req) # Refused THEN StandardRead(w, d, req)
    ELSE IF IsHub(d) THEN HubRead(req) ELSE GamepadRead(req)

Filled(w, d, req) ==
    [of |-> req,
     connected |-> /\ req.name = "GetPortStatus"
                   /\ "CONNECTION" \in w.hub[d[1]][req.index].status]

----------------------------------------------------------------------------
(* Control writes: what the device answers, and what changes.               *)

SetAddress(w, d, req) == Done([w EXCEPT !.dev[d].addr = req.value % 256], "ok")
\* USBDesc_SetConfig: a value no configuration has leaves the old one and succeeds.
SetConfiguration(w, d, req) ==
    Done(IF req.value \in {0, Class(d).config.value}
         THEN [w EXCEPT !.dev[d].configuration = req.value] ELSE w, "ok")
SetInterface(w, d, req) ==
    Done(w, IF FindInterface(d, w.dev[d].configuration, req.index, req.value) THEN "ok" ELSE "stall")
RemoteWakeup(w, d, req) ==
    IF req.value = 1 THEN Done([w EXCEPT !.dev[d].wakeup = (req.name = "SetFeature")], "ok")
    ELSE Done(w, "stall")

HubFeature(w, req) == Done(w, IF req.value \in {0, 1} THEN "ok" ELSE "stall")
ClearEndpointFeature(w, d, req) ==
    Done(w, IF IsHub(d) /\ ~(req.value = 0 /\ req.index # In + 1) THEN "ok" ELSE "stall")

\* SetPortFeature(PORT_RESET)
ResetHubPort(w, p, i) ==
    IF i # GamepadPort \/ ~w.dev[<<p, i>>].attached THEN w
    ELSE Wakeup([DeviceReset(w, <<p, i>>) EXCEPT !.hub[p][i] =
                    [status |-> @.status \cup {"ENABLE"}, change |-> @.change \cup {"RESET"}]], p)

SetPortFeature(w, p, req) ==
    IF req.index \notin 1..HubPorts THEN Done(w, "stall")
    ELSE CASE req.value = 2 -> Done([w EXCEPT !.hub[p][req.index].status = @ \cup {"SUSPEND"}], "ok")
           [] req.value = 4 -> Done(ResetHubPort(w, p, req.index), "ok")
           [] req.value = 8 -> Done(w, "ok")
           [] OTHER -> Done(w, "stall")

ClearedStatus == [feature \in 1..2 |-> <<"ENABLE", "SUSPEND">>[feature]]
ClearedChange ==
    [feature \in 16..20 |-> <<"CONNECTION", "ENABLE", "SUSPEND", "OVERCURRENT", "RESET">>[feature - 15]]
ClearPortFeature(w, p, req) ==
    IF req.index \notin 1..HubPorts THEN Done(w, "stall")
    ELSE IF req.value \in DOMAIN ClearedStatus
    THEN Done([w EXCEPT !.hub[p][req.index].status = @ \ {ClearedStatus[req.value]}], "ok")
    ELSE IF req.value \in DOMAIN ClearedChange
    THEN Done([w EXCEPT !.hub[p][req.index].change = @ \ {ClearedChange[req.value]}], "ok")
    ELSE Done(w, "stall")

\* HID_SET_REPORT: the report has the length of XIDGamepadOutputReport.
SetReport(w, req) == Done(w, IF req.value = 512 /\ req.length = 6 THEN "ok" ELSE "stall")

\* USB_DeviceHandleControl for a control write.
HandleWrite(w, d, req) ==
    LET v == [w EXCEPT !.dev[d].ran = @ + 1]
    IN  CASE req.name = "SetAddress" -> SetAddress(v, d, req)
          [] req.name = "SetConfiguration" -> SetConfiguration(v, d, req)
          [] req.name \in {"SetFeature", "ClearFeature"} -> RemoteWakeup(v, d, req)
          [] req.name = "SetInterface" -> SetInterface(v, d, req)
          [] req.name = "ClearEndpoint" -> ClearEndpointFeature(v, d, req)
          [] req.name \in {"SetHubFeature", "ClearHubFeature"} /\ IsHub(d) -> HubFeature(v, req)
          [] req.name = "SetPortFeature" /\ IsHub(d) -> SetPortFeature(v, d[1], req)
          [] req.name = "ClearPortFeature" /\ IsHub(d) -> ClearPortFeature(v, d[1], req)
          [] req.name = "SetReport" /\ ~IsHub(d) -> SetReport(v, req)
          [] OTHER -> Done(v, "stall")

----------------------------------------------------------------------------
(* The control endpoint. *)

\* USB_DoTokenSetup: eight bytes start a transfer whatever came before; a read is answered into
\* DataBuffer now, a write waits for its data.  A refusal leaves the stage as it was.
DoTokenSetup(w, d, req, size) ==
    LET v == [w EXCEPT !.dev[d].request = req, !.dev[d].length = req.length, !.dev[d].index = 0,
                       !.dev[d].ran = 0]
        n == Reply(w, d, req)
    IN  IF size # 8 THEN Done(w, "stall")
        ELSE IF IsRead(req)
        THEN IF n = Refused THEN Done(v, "stall")
             ELSE Done([v EXCEPT !.dev[d].data = Filled(w, d, req), !.dev[d].setup = "data",
                                 !.dev[d].length = Min2(n, req.length)], "ok")
        ELSE IF req.length > DataSize THEN Done(v, "stall")
        ELSE Done([v EXCEPT !.dev[d].setup = IF req.length = 0 THEN "ack" ELSE "data"], "ok")

\* A piece of n bytes of the data stage has gone over.
Piece(w, d, n) ==
    [w EXCEPT !.dev[d].index = @ + n,
              !.dev[d].setup = IF w.dev[d].index + n >= w.dev[d].length THEN "ack" ELSE @]
\* Mutant of Rest: what has gone over already is not taken off.
FromStart(s, size) == Min2(s.length, size)
Rest(s, size) == Min2(s.length - s.index, size)

\* Mutant of Finish: the endpoint stays ready for the status stage.
StayReady(w, d) == w
\* The transfer is over; what the endpoint still holds of it is not looked at again.
Finish(w, d) ==
    [w EXCEPT !.dev[d].setup = "idle", !.dev[d].request = NoRequest, !.dev[d].length = 0,
              !.dev[d].index = 0, !.dev[d].data = NewDevice.data]

\* DoTokenIn: in the status stage a write takes effect, in the data stage a read goes on; what
\* the host reads past the end is empty.
DoTokenIn(w, d, size) ==
    LET s == w.dev[d]
    IN  CASE s.setup = "ack" /\ ~IsRead(s.request) ->
                LET r == HandleWrite(w, d, s.request) IN Done(Finish(r.tree, d), r.status)
          [] s.setup = "ack" /\ IsRead(s.request) -> Done(w, "ok")
          [] s.setup = "data" /\ IsRead(s.request) ->
                Sent(Piece(w, d, Rest(s, size)), d, Rest(s, size), s.index)
          [] s.setup = "data" /\ ~IsRead(s.request) -> Done(Finish(w, d), "stall")
          [] OTHER -> Done(w, "stall")

\* DoTokenOut: more data than the request has is taken and forgotten.
DoTokenOut(w, d, size) ==
    LET s == w.dev[d]
    IN  CASE s.setup = "ack" /\ IsRead(s.request) -> Done(Finish(w, d), "ok")
          [] s.setup = "ack" /\ ~IsRead(s.request) -> Done(w, "ok")
          [] s.setup = "data" /\ ~IsRead(s.request) ->
                LET n == Rest(s, size)
                IN  Done([Piece(w, d, n) EXCEPT !.dev[d].data = [of |-> s.request, connected |-> FALSE]], "ok")
          [] s.setup = "data" /\ IsRead(s.request) -> Done(Finish(w, d), "stall")
          [] OTHER -> Done(w, "stall")

\* HandleData: a hub answers with the ports that changed, a gamepad has nothing to say yet and
\* takes a report without looking at it.  Endpoints a gamepad has not are only asserted not to
\* be used, and the packet keeps its status.
Changed(w, p) == {i \in 1..HubPorts : w.hub[p][i].change # {}}
HandleData(w, d, pid, ep, size) ==
    IF IsHub(d) /\ pid = "in" /\ ep = 1
    THEN IF Changed(w, d[1]) = {} THEN Done(w, "nak")
         ELSE IF size = 0 THEN Done(w, "babble")
         ELSE [Done(w, "ok") EXCEPT !.count = Min2(size, (HubPorts + 8) \div 8)]
    ELSE IF ~IsHub(d) /\ pid \in {"in", "out"}
    THEN Done(w, IF pid = "in" /\ ep = 2 THEN "nak" ELSE "ok")
    ELSE Done(w, "stall")

\* USB_HandlePacket for the device that has the address, by its endpoint and token.
HandlePacket(w, packet) ==
    LET hit == FindDevice(w, packet.to)
        d   == CHOOSE x \in hit : TRUE
    IN  IF hit = {} THEN Done(w, "nodev")
        ELSE IF packet.ep # 0 THEN HandleData(w, d, packet.pid, packet.ep, packet.size)
        ELSE CASE packet.pid = "setup" -> DoTokenSetup(w, d, packet.request, packet.size)
               [] packet.pid = "in" -> DoTokenIn(w, d, packet.size)
               [] packet.pid = "out" -> DoTokenOut(w, d, packet.size)
=============================================================================
