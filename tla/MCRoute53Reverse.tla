--------------------------- MODULE MCRoute53Reverse ---------------------------
(* Two hosts and endpoints without a name; an IPv4 zone with two stale     *)
(* PTRs behind a page of others; hosted zones that are as they should be,  *)
(* lie below an address, or are no reverse zones.                          *)
EXTENDS Route53Reverse

CONSTANTS h1, h2, old

V4(d) == [kind |-> "ipv4", mapped |-> FALSE, labels |-> <<192, 168, 1, d>>]
Other4 == [kind |-> "ipv4", mapped |-> FALSE, labels |-> <<10, 0, 0, 1>>]
V6(n) == [kind |-> "ipv6", mapped |-> FALSE,
          labels |-> [i \in 1..32 |-> IF i = 1 THEN 2 ELSE IF i = 32 THEN n ELSE 0]]
Invalid == [kind |-> "invalid", mapped |-> FALSE, labels |-> <<>>]
MCLabel == 0..255
MCAddress == {V4(1), V4(2), V4(3), V4(4), Other4, V6(1), V6(2), Invalid}
MCHost == {h1, h2}
MCFullName == [n \in Hostname |-> <<n, "suffix">>]

ZoneOf(kind, labels) == [kind |-> kind, labels |-> labels, dotted |-> TRUE]
Good4 == ZoneOf("ipv4", <<1, 168, 192>>)
Deep4 == ZoneOf("ipv4", <<0, 1, 1, 168, 192>>)
Good6 == ZoneOf("ipv6", <<0, 2>>)
NoReverse == ZoneOf("none", <<>>)
MCZone == {Good4, Deep4, Good6, NoReverse}
Modes(v4, v6) == [f \in Kind |-> IF f = "ipv4" THEN v4 ELSE v6]
MCHostedModes == {Modes(Good4, Good6), Modes(Deep4, NoReverse)}
MCEnabledModes == {Modes(TRUE, TRUE), Modes(FALSE, TRUE)}
MCNameModes == {Modes(TRUE, FALSE), Modes(FALSE, TRUE)}
MCCleanModes == {Modes(TRUE, TRUE), Modes(FALSE, FALSE)}

EP(h, v4, v6) == [host |-> h, v4 |-> v4, v6 |-> v6, ttl |-> 60]
MCBatches == {
    <<EP(h1, <<V4(1), Other4>>, <<V6(1)>>), EP(h2, <<V4(1), V4(2)>>, <<V6(1), V6(2)>>)>>,
    <<EP(NoHost, <<V4(2), V4(1)>>, <<V6(2)>>), EP(h1, <<V4(1)>>, <<>>)>>,
    <<EP(h1, <<V4(1)>>, <<V6(1)>>), EP(NoHost, <<>>, <<V6(2)>>)>>,
    <<EP(h2, <<V4(1), Invalid, V4(2)>>, <<V6(2)>>)>>,
    <<EP(h2, <<Other4>>, <<V6(2), Invalid>>), EP(NoHost, <<>>, <<V6(1)>>)>>}

PTRTo(a, value) == [name |-> ReverseAddr(a), type |-> "PTR", value |-> value, ttl |-> 60]
NS(z) == [name |-> [kind |-> z.kind, labels |-> z.labels], type |-> "NS", value |-> old, ttl |-> 60]
MCInitialZones == {
    Modes({}, {}),
    Modes({NS(Good4)}, {NS(Good6), PTRTo(V6(2), old)}),
    Modes({NS(Good4), PTRTo(V4(1), old), PTRTo(V4(3), old), PTRTo(V4(4), old)}, {NS(Good6)})}

(* The apex first, then by the last label of an address. *)
MCPosition == [k \in {<<NS(z).name, "NS">> : z \in {Good4, Good6}}
                     \cup {<<n, "PTR">> : n \in RecordName} |->
    IF k[2] = "NS" THEN 0 ELSE 1 + k[1].labels[1]]
===============================================================================
