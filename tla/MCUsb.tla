------------------------------- MODULE MCUsb -------------------------------
EXTENDS Usb

\* A hub at address 1 and a gamepad behind it at address 2, as an enumeration leaves them.
Addressed(w, d, a) == [w EXCEPT !.dev[d].addr = a]
Hub1 == Addressed(PortSetStatus(ChangeHcfs(Plug(EmptyTree, <<1>>), "operational"), 1, {"PRS"}), <<1>>, 1)
MCEnumerated ==
    [tree |-> Addressed(ResetHubPort(Plug(Hub1, <<1, 2>>), 1, 2), <<1, 2>>, 2),
     given |-> [a \in Addresses |-> <<<<1>>, <<1, 2>>>>[a]]]

MCOwned == {<<1>>, <<2>>, <<1, 2>>}

Ask(name, value, index, length) == [name |-> name, value |-> value, index |-> index, length |-> length]
Descriptors(v, lengths) == {Ask("GetDescriptor", v, 0, n) : n \in lengths}
\* Requests that every device gets, in groups that meet in one behaviour.
Common ==
    { Descriptors(256, {0, 8, 18, 64}) \cup {Ask("SetConfiguration", 1, 0, 0)},
      Descriptors(512, {8, 64}) \cup {Ask("SetConfiguration", v, 0, 0) : v \in {0, 2}}
          \cup {Ask("GetConfiguration", 0, 0, 1)},
      Descriptors(768, {8}) \cup Descriptors(771, {20, 64}) \cup {Ask("SetFeature", v, 0, 0) : v \in {0, 1}},
      Descriptors(513, {64}) \cup Descriptors(772, {64}) \cup Descriptors(1536, {64})
          \cup {Ask("ClearFeature", 1, 0, 0), Ask("GetStatus", 0, 0, 2)},
      {Ask("SetConfiguration", 1, 0, 0)} \cup {Ask("GetInterface", 0, i, 1) : i \in {0, 1}}
          \cup {Ask("SetInterface", 0, i, 0) : i \in {0, 1}} \cup {Ask("ClearEndpoint", 0, i, 0) : i \in {129, 1}} }
HubRequests ==
    { {Ask("GetHubDescriptor", 0, 0, n) : n \in {8, 64}} \cup {Ask("GetHubStatus", 0, 0, 4)}
          \cup {Ask("SetHubFeature", v, 0, 0) : v \in {0, 2}} \cup {Ask("ClearHubFeature", 1, 0, 0)},
      {Ask("GetPortStatus", 0, i, 4) : i \in {0, 2, 9}} \cup {Ask("ClearPortFeature", v, 2, 0) : v \in {16, 5}}
          \cup {Ask("SetPortFeature", 4, 9, 0)},
      {Ask("SetPortFeature", v, 2, 0) : v \in {2, 4, 8}} \cup {Ask("ClearPortFeature", v, 2, 0) : v \in {2, 20}}
          \cup {Ask("SetPortFeature", 4, 1, 0)},
      {Ask("ClearPortFeature", v, 2, 0) : v \in {1, 17, 18, 19}} \cup {Ask("GetPortStatus", 0, 2, 4)} }
GamepadRequests ==
    { {Ask("SetReport", 512, 0, n) : n \in {0, 6, 12, 5000}} \cup {Ask("GetReport", 256, 0, 20)},
      {Ask("SetReport", 256, 0, 6)} \cup {Ask("GetReport", v, 0, n) : v \in {256, 512}, n \in {8, 32}},
      {Ask("GetXidDescriptor", 16896, 0, n) : n \in {8, 16}}
          \cup {Ask("GetCapabilities", v, 0, 64) : v \in {256, 512, 768}} }
Tree(acts, times) == [part |-> "tree", to |-> 1, asks |-> {}, acts |-> acts, plugs |-> times]
Control(to, asks) == [part |-> "control", to |-> to, asks |-> asks, acts |-> {}, plugs |-> 0]
MCFoci ==
    {Tree({"reset"}, 3), Tree({"disable"}, 3), Tree({"stop"}, 2), Tree({"suspend"}, 2)}
    \cup {Control(1, s) : s \in Common \cup HubRequests}
    \cup {Control(2, s) : s \in Common \cup GamepadRequests}
=============================================================================
