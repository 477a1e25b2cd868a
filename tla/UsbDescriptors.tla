--------------------------- MODULE UsbDescriptors ---------------------------
(* The descriptors of the two USB device classes (hw/ohci/ohci_hub.cpp and  *)
(* hw/xid/xid_gamepad.cpp) and how many bytes the readers of usb_pci.cpp    *)
(* make of them.  The answer to a request is its length, or Refused; what   *)
(* the bytes say is left out.                                               *)
EXTENDS Integers, Sequences

Refused == -1
BufferSize == 256    \* buf of USBDesc_HandleStandardGetDescriptor
In  == 128           \* USB_DIR_IN
HubPorts == 8        \* NUM_PORTS

Endpoint(address) == [address |-> address]
Interface(endpoints) == [number |-> 0, alternate |-> 0, others |-> <<>>, endpoints |-> endpoints]

HubClass == [config |-> [value |-> 1,
                         interfaces |-> <<Interface(<<Endpoint(In + 1)>>)>>],
             product |-> 21, serial |-> 6]
GamepadClass == [config |-> [value |-> 1,
                             interfaces |-> <<Interface(<<Endpoint(In + 2), Endpoint(2)>>)>>],
                 product |-> 17, serial |-> 1]

\* The devices: a hub is named by the root port it is on, a gamepad by that port and the
\* hub's port it is on.
Class(d) == IF Len(d) = 1 THEN HubClass ELSE GamepadClass
IsHub(d) == Len(d) = 1
Configurations(d) == <<Class(d).config>>
NumInterfaces(d, configuration) ==
    IF configuration = 0 THEN 0 ELSE Len(Class(d).config.interfaces)

----------------------------------------------------------------------------
\* A reader that runs out of room fails; a reader of several parts fails if one of them does.
Room(bytes, len) == IF len < bytes THEN Refused ELSE bytes
Follow(Read(_, _), parts, start, len) ==
    LET after[i \in 0..Len(parts)] ==
            IF i = 0 THEN start
            ELSE IF after[i - 1] = Refused \/ Read(parts[i], len - after[i - 1]) = Refused THEN Refused
            ELSE after[i - 1] + Read(parts[i], len - after[i - 1])
    IN  after[Len(parts)]

ReadDeviceDesc(len) == Room(18, len)
ReadEndpointDesc(ep, len) == Room(7, len)
ReadOtherDesc(desc, len) == Room(desc, len)
ReadInterfaceDesc(iface, len) ==
    IF len < 9 THEN Refused
    ELSE Follow(ReadEndpointDesc, iface.endpoints, Follow(ReadOtherDesc, iface.others, 9, len), len)
ReadConfigurationDesc(conf, len) ==
    IF len < 9 THEN Refused ELSE Follow(ReadInterfaceDesc, conf.interfaces, 9, len)

\* USB_CreateSerial: the prefix, the path of the controller "pci.0:02.0" and that of the port,
\* between dashes.
SerialLength(d) == Class(d).serial + 12 + (2 * Len(d) - 1)
StringLength(d, index) ==
    CASE index = 1 -> 13 [] index = 2 -> Class(d).product [] index = 3 -> SerialLength(d)
      [] OTHER -> Refused
\* A string that does not exist gives an empty answer; a string too long is cut at the buffer.
ReadStringDesc(d, index, len) ==
    IF len < 4 THEN Refused
    ELSE IF index = 0 THEN 4
    ELSE LET n == 2 * StringLength(d, index) + 2
         IN  IF StringLength(d, index) = Refused THEN 0
             ELSE IF n <= len THEN n ELSE 2 * (len \div 2)

\* USBDesc_HandleStandardGetDescriptor
GetDescriptor(d, type, index, len) ==
    LET n == CASE type = 1 -> ReadDeviceDesc(BufferSize)
               [] type = 2 /\ index < Len(Configurations(d)) ->
                    ReadConfigurationDesc(Configurations(d)[index + 1], BufferSize)
               [] type = 3 -> ReadStringDesc(d, index, BufferSize)
               [] OTHER -> Refused
    IN  IF n > len THEN len ELSE n

\* USBDesc_FindInterface
FindInterface(d, configuration, number, alternate) ==
    /\ configuration # 0
    /\ \E i \in DOMAIN Class(d).config.interfaces :
          LET iface == Class(d).config.interfaces[i]
          IN  iface.number = number /\ iface.alternate = alternate
=============================================================================
