------------------------------ MODULE IOMapper ------------------------------
(* The map from port numbers to devices that the processor's I/O exits go   *)
(* through.  A map is a function from the first port of each range to its   *)
(* last port and its device, as the std::map of the code is; devices that   *)
(* move their ranges at run time are asked one after the other when no      *)
(* fixed range holds the port.                                              *)
EXTENDS Integers, FiniteSets

Nothing == [b \in {} |-> b]
Greatest(S) == CHOOSE x \in S : \A y \in S : y <= x

\* upper_bound(addr) and the step back from it: the last range that starts at or before addr.
Predecessor(map, addr) == {b \in DOMAIN map : b <= addr}

\* LookupDevice: the device of the range that holds the address, or "none".
LookupDevice(map, addr) ==
    IF Predecessor(map, addr) = {} THEN "none"
    ELSE LET p == map[Greatest(Predecessor(map, addr))]
         IN  IF addr <= p.last THEN p.device ELSE "none"

Inside(x, b, map) == b <= x /\ x <= map[b].last

\* The neighbours MapDevice compares a new range with: the first range above its base, and the
\* one before the first range at or above its end - unless that is the first of the map, which
\* the code takes for "no such range".
Above(map, base) ==
    {b \in DOMAIN map : b > base /\ \A c \in DOMAIN map : c > base => b <= c}
Below(map, last) ==
    LET before == {b \in DOMAIN map : b < last}
    IN  {b \in before : (\A c \in before : c <= b) /\ \E c \in DOMAIN map : c < b}

\* MapDevice refuses a range one of whose two ends lies in such a neighbour.
Refused(map, base, last) ==
    \E b \in Above(map, base) \cup Below(map, last) :
        Inside(base, b, map) \/ Inside(last, b, map)

\* Anything else is mapped, in the place of a range with the same base.
MapDevice(map, base, size, device) ==
    LET last == base + size - 1
    IN  IF Refused(map, base, last) THEN map
        ELSE [b \in DOMAIN map \cup {base} |->
                IF b = base THEN [last |-> last, device |-> device] ELSE map[b]]

----------------------------------------------------------------------------
(* The fixed ranges, in the order the devices are mapped. *)

Ranges == <<
    <<32, 2, "i8259">>, <<160, 2, "i8259">>, <<1232, 2, "i8259">>,
    <<64, 4, "i8254">>, <<112, 3, "CMOS">>,
    <<496, 8, "ATA">>, <<1014, 1, "ATA">>, <<368, 8, "ATA">>, <<886, 1, "ATA">>,
    <<3320, 1, "PCIBus">>, <<3324, 4, "PCIBus">>,
    <<46, 2, "SuperIO">>, <<1016, 7, "Serial1">>, <<760, 7, "Serial2">> >>

NumRanges == 14
IOMap ==
    LET m[i \in 0..NumRanges] == IF i = 0 THEN Nothing
                            ELSE MapDevice(m[i - 1], Ranges[i][1], Ranges[i][2], Ranges[i][3])
    IN  m[NumRanges]
=============================================================================
