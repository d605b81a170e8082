------------------------------ MODULE ReverseDNS ------------------------------
(***************************************************************************)
(* pkg/rdns/rdns.go: reverse names of addresses, and which zone they are   *)
(* in.  An address is the labels of its reverse name, most significant     *)
(* first: four octets, or thirty-two nibbles.  A zone is its labels in the *)
(* order of writing, without in-addr.arpa or ip6.arpa.                     *)
(***************************************************************************)
EXTENDS Integers, Sequences

CONSTANTS
    Label,     \* octets and nibbles
    Address,   \* the addresses a source may report
    Zone,      \* the zones a provider may be configured with
    Prefix,    \* what stands before the first dot of an IPv4-mapped address
    At         \* "@"

Kind == {"ipv4", "ipv6"}
Width(kind) == IF kind = "ipv4" THEN 4 ELSE 32

(* net.ParseIP decides the kind; "::ffff:10.0.0.1" is of kind ipv4, mapped. *)
AddressType(a) ==
    /\ a.kind \in Kind \cup {"invalid"}
    /\ a.mapped \in BOOLEAN
    /\ a.labels \in Seq(Label)
    /\ a.kind \in Kind => Len(a.labels) = Width(a.kind)

(* dotted: the name is written with its final dot. *)
ZoneType(z) ==
    /\ z.kind \in Kind \cup {"none"}
    /\ z.labels \in Seq(Label)
    /\ z.dotted \in BOOLEAN

ASSUME AddressAssumption == \A a \in Address : AddressType(a)
ASSUME ZoneAssumption == \A z \in Zone : ZoneType(z)
ASSUME PrefixAssumption == Prefix \notin Label /\ At \notin Label

Reversed(source) == [i \in 1..Len(source) |-> source[Len(source) + 1 - i]]

ReverseAddr(a) == [kind |-> a.kind, labels |-> Reversed(a.labels)]

(* What FitsInReverseZone compares with the zone: the octets as written, or *)
(* the nibbles of the reverse name.                                         *)
Written(a) ==
    IF a.kind = "ipv4" /\ a.mapped THEN <<Prefix>> \o Tail(a.labels) ELSE a.labels

(* A label of the zone beyond the address is an index out of range, unless *)
(* a label before it differs.                                              *)
PanicsAtFullLength(address, zone) ==  \* mutant of Compare
    IF \E i \in 1..Len(zone) : i < Len(address) /\ zone[i] # address[i] THEN "no"
    ELSE IF Len(zone) >= Len(address) THEN "panic"
    ELSE "yes"
Compare(address, zone) ==
    IF \E i \in 1..Len(zone) : i <= Len(address) /\ zone[i] # address[i] THEN "no"
    ELSE IF Len(zone) > Len(address) THEN "panic"
    ELSE "yes"

(* A zone without its final dot is of a kind, and nothing fits in it. *)
FitsInReverseZone(a, z) ==
    IF a.kind = "invalid" \/ z.kind = "none" THEN "error"
    ELSE IF a.kind # z.kind \/ ~z.dotted THEN "no"
    ELSE Compare(Written(a), Reversed(z.labels))

(* Reference: the name is the zone's or one below it. *)
Below(name, z) ==
    /\ name.kind = z.kind
    /\ Len(z.labels) <= Len(name.labels)
    /\ \A i \in 1..Len(z.labels) :
          z.labels[i] = name.labels[Len(name.labels) - Len(z.labels) + i]

(* The name relative to the zone, "@" for the zone itself. *)
Apex == <<At>>
EmptyAtApex(name, z) ==  \* mutant of RFC1035DomainName
    IF Below(name, z)
    THEN SubSeq(name.labels, 1, Len(name.labels) - Len(z.labels))
    ELSE name.labels
RFC1035DomainName(name, z) ==
    IF ~Below(name, z) THEN name.labels
    ELSE IF Len(name.labels) = Len(z.labels) THEN Apex
    ELSE SubSeq(name.labels, 1, Len(name.labels) - Len(z.labels))

(* The order in which the planners look at the addresses of a list: by     *)
(* endpoint, then by place in it.                                          *)
Earlier(c, d) == c[1] < d[1] \/ (c[1] = d[1] /\ c[2] < d[2])
===============================================================================
