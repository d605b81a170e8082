----------------------------- MODULE MCPTRRecords -----------------------------
(* Six addresses, one of them reported in three forms; zones from the top  *)
(* level to beyond an address; lists of up to two endpoints.             *)
EXTENDS PTRRecords

CONSTANTS h1, h2

V4(d) == [kind |-> "ipv4", mapped |-> FALSE, labels |-> <<192, 168, 1, d>>]
Mapped(d) == [V4(d) EXCEPT !.mapped = TRUE]
V6(n) == [kind |-> "ipv6", mapped |-> FALSE,
          labels |-> [i \in 1..32 |-> IF i = 1 THEN 2 ELSE IF i = 32 THEN n ELSE 0]]
Other4 == [kind |-> "ipv4", mapped |-> FALSE, labels |-> <<10, 0, 0, 1>>]
Invalid == [kind |-> "invalid", mapped |-> FALSE, labels |-> <<>>]
MCAddress == {V4(1), V4(2), Mapped(1), Other4, V6(1), V6(2), Invalid}

MCLabel == 0..255
Zone4(labels) == [kind |-> "ipv4", labels |-> labels, dotted |-> TRUE]
MCZone == {
    Zone4(<<>>), Zone4(<<168, 192>>), Zone4(<<1, 1, 168, 192>>), Zone4(<<0, 1, 1, 168, 192>>),
    [Zone4(<<168, 192>>) EXCEPT !.dotted = FALSE],
    [kind |-> "ipv6", labels |-> <<>>, dotted |-> TRUE],
    [kind |-> "ipv6", labels |-> <<0, 2>>, dotted |-> TRUE],
    [kind |-> "none", labels |-> <<>>, dotted |-> TRUE]}

MCHost == {h1, h2}
EP(h, v4, v6) == [host |-> h, v4 |-> v4, v6 |-> v6]
MCEndpoint == {
    EP(h1, <<V4(1), Other4>>, <<V6(1)>>),
    EP(h2, <<Mapped(1), V4(2)>>, <<V6(2), V6(1)>>),
    EP(NoHost, <<V4(2), V4(1)>>, <<V6(1), V6(2)>>),
    EP(NoHost, <<>>, <<V6(2), V6(1)>>),
    EP(h2, <<V4(2), Invalid, V4(1)>>, <<>>)}
MCBatches == UNION {[1..n -> MCEndpoint] : n \in 0..2}
===============================================================================
