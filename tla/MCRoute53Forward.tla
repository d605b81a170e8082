--------------------------- MODULE MCRoute53Forward ---------------------------
(* Three hosts: two share a record name, and one is spelt like a record    *)
(* name, final dot and all (cleanup compares the two); zones of up to five *)
(* records listed in pages of two, one or two of them not ZonePop's.       *)
EXTENDS Route53Forward

CONSTANTS h1, h2, n1, n2, n3, a1, a2, b1, b2, txt

MCHost == {h1, h2, n3}
MCName == {n1, n2, n3}
MCFqdn == [h \in MCHost |-> IF h = h1 THEN n1 ELSE n2]
MCV4 == {a1, a2}
MCV6 == {b1, b2}

EP(h, v4, v6) == [host |-> h, v4 |-> v4, v6 |-> v6, ttl |-> 60]
MCBatches == {
    <<EP(h1, {a1}, {b1})>>,
    <<EP(h1, {a1}, {}), EP(h1, {a1, a2}, {b1, b2}), EP(NoHost, {a1}, {})>>,
    <<EP(h1, {a2}, {}), EP(h2, {a1}, {})>>,
    <<EP(h2, {a2}, {b1}), EP(n3, {a1}, {})>>}

RR(n, type, values) == [name |-> n, type |-> type, values |-> values, ttl |-> 60]
MCInitialZones == {
    {RR(n1, "TXT", {txt})},
    {RR(n1, "TXT", {txt}), RR(n3, "A", {a1}), RR(n3, "AAAA", {b1})},
    {RR(n1, "TXT", {txt}), RR(n2, "TXT", {txt}), RR(n1, "A", {a1, a2}), RR(n3, "A", {a2})}}

MCPosition == [k \in MCName \X RRType |->
    10 * (CASE k[1] = n1 -> 1 [] k[1] = n2 -> 2 [] OTHER -> 3)
       + (CASE k[2] = "A" -> 1 [] k[2] = "AAAA" -> 2 [] OTHER -> 3)]
===============================================================================
