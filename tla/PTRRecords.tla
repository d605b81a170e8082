------------------------------ MODULE PTRRecords ------------------------------
(***************************************************************************)
(* pkg/rdns/ptr.go: PTRsForEndpoints, one step per address.  The http      *)
(* provider calls it with the zones in-addr.arpa. and ip6.arpa., the file  *)
(* provider with the zone of a file or with none.                          *)
(***************************************************************************)
EXTENDS ReverseDNS

CONSTANTS
    Host,      \* hostnames of endpoints
    NoHost,    \* the empty hostname
    Batches,   \* the lists of endpoints it may be called with
    NoZone     \* Config.Zone is ""

Endpoint == [host : Host \cup {NoHost}, v4 : Seq(Address), v6 : Seq(Address)]

ASSUME HostAssumption == NoHost \notin Host
ASSUME NoZoneAssumption == NoZone \notin Zone
ASSUME BatchesAssumption == Batches \subseteq Seq(Endpoint)

VARIABLES
    endpoints,   \* the arguments
    zone,
    at,          \* the endpoint and the address of it to look at next
    seen,        \* the keys of seenHostnames
    records,     \* ptrRecords, each with the place of the address it is for
    result       \* "none", "running", "ok", "error" or "panic"

arguments == <<endpoints, zone>>
ptrVars == <<arguments, at, seen, records, result>>

Addresses(ep) == ep.v4 \o ep.v6
Claim(b) == UNION {{e} \X (1..Len(Addresses(b[e]))) : e \in 1..Len(b)}
AddressAt(b, c) == Addresses(b[c[1]])[c[2]]
NameAt(b, c) == ReverseAddr(AddressAt(b, c))

Fit(a, z) ==
    IF z # NoZone THEN FitsInReverseZone(a, z)
    ELSE IF a.kind = "invalid" THEN "error" ELSE "yes"
FitAt(c) == Fit(AddressAt(endpoints, c), zone)

(* "ip-" and an address: the endpoint's first IPv4 address if it has one. *)
Generated(a) == <<"ip", a>>
Hostname(ep, k) ==
    IF ep.host # NoHost THEN ep.host
    ELSE Generated(IF ep.v4 # <<>> THEN ep.v4[1] ELSE Addresses(ep)[k])

RecordAt(b, z, c) ==
    [at |-> c,
     hostname |-> Hostname(b[c[1]], c[2]),
     autoGenerated |-> b[c[1]].host = NoHost,
     kind |-> IF c[2] <= Len(b[c[1]].v4) THEN "ipv4" ELSE "ipv6",
     name |-> NameAt(b, c),
     relative |-> IF z = NoZone THEN NameAt(b, c).labels
                  ELSE RFC1035DomainName(NameAt(b, c), z)]

-------------------------------------------------------------------------------
PTRInit ==
    /\ endpoints = <<>>
    /\ zone = NoZone
    /\ at = <<1, 1>>
    /\ seen = {}
    /\ records = {}
    /\ result = "none"

PTRsForEndpoints ==
    /\ result # "running"
    /\ endpoints' \in Batches
    /\ zone' \in Zone \cup {NoZone}
    /\ at' = <<1, 1>>
    /\ seen' = {}
    /\ records' = {}
    /\ result' = "running"

(* The loops look at an address, and it fits as given. *)
Looking(fit) ==
    /\ result = "running"
    /\ at \in Claim(endpoints)
    /\ FitAt(at) = fit

NextAddress == at' = <<at[1], at[2] + 1>>

AddressFails ==
    /\ Looking("error")
    /\ result' = "error"
    /\ UNCHANGED <<arguments, at, seen, records>>

IndexOutOfRange ==
    /\ Looking("panic")
    /\ result' = "panic"
    /\ UNCHANGED <<arguments, at, seen, records>>

DoesNotFit ==
    /\ Looking("no")
    /\ NextAddress
    /\ UNCHANGED <<arguments, seen, records, result>>

AlreadyRegistered ==
    /\ Looking("yes")
    /\ NameAt(endpoints, at) \in seen
    /\ NextAddress
    /\ UNCHANGED <<arguments, seen, records, result>>

NameForgotten ==  \* mutant of AddRecord
    /\ Looking("yes")
    /\ NameAt(endpoints, at) \notin seen
    /\ records' = records \cup {RecordAt(endpoints, zone, at)}
    /\ NextAddress
    /\ UNCHANGED <<arguments, seen, result>>
SkipsTheNext ==  \* mutant of AddRecord
    /\ Looking("yes")
    /\ NameAt(endpoints, at) \notin seen
    /\ seen' = seen \cup {NameAt(endpoints, at)}
    /\ records' = records \cup {RecordAt(endpoints, zone, at)}
    /\ at' = <<at[1], at[2] + 2>>
    /\ UNCHANGED <<arguments, result>>
AddRecord ==
    /\ Looking("yes")
    /\ NameAt(endpoints, at) \notin seen
    /\ seen' = seen \cup {NameAt(endpoints, at)}
    /\ records' = records \cup {RecordAt(endpoints, zone, at)}
    /\ NextAddress
    /\ UNCHANGED <<arguments, result>>

NextEndpoint ==
    /\ result = "running"
    /\ at[1] <= Len(endpoints)
    /\ at \notin Claim(endpoints)
    /\ at' = <<at[1] + 1, 1>>
    /\ UNCHANGED <<arguments, seen, records, result>>

Return ==
    /\ result = "running"
    /\ at[1] > Len(endpoints)
    /\ result' = "ok"
    /\ UNCHANGED <<arguments, at, seen, records>>

PTRNext ==
    \/ PTRsForEndpoints
    \/ AddressFails
    \/ IndexOutOfRange
    \/ DoesNotFit
    \/ AlreadyRegistered
    \/ AddRecord
    \/ NextEndpoint
    \/ Return

PTRSpec == PTRInit /\ [][PTRNext]_ptrVars

-------------------------------------------------------------------------------
(* Every variable has its type. *)
PTRTypeOK ==
    /\ endpoints \in Batches \cup {<<>>}
    /\ zone \in Zone \cup {NoZone}
    /\ at \in (Nat \ {0}) \X (Nat \ {0})
    /\ \A r \in records : r.at \in Claim(endpoints) /\ r = RecordAt(endpoints, zone, r.at)
    /\ seen = {r.name : r \in records}
    /\ result \in {"none", "running", "ok", "error", "panic"}

(* Of the addresses with one reverse name the first in the list has it:    *)
(* each record is for an address that fits, and no address before it that  *)
(* fits has its name.                                                      *)
FirstClaimantWins ==
    \A r \in records :
        /\ FitAt(r.at) = "yes"
        /\ \A c \in Claim(endpoints) :
              Earlier(c, r.at) /\ FitAt(c) = "yes" => NameAt(endpoints, c) # r.name

InZone(a) ==
    zone # NoZone => zone.dotted /\ ~a.mapped /\ Below(ReverseAddr(a), zone)

(* A call that returns no error has a record for the name of every address *)
(* that is in the zone (written with its dot; any name is in no zone), but *)
(* of IPv4-mapped addresses, whose first octet is never found in a zone.   *)
EveryAddressNamed ==
    result = "ok" =>
        \A c \in Claim(endpoints) :
            InZone(AddressAt(endpoints, c)) =>
                \E r \in records : r.name = NameAt(endpoints, c)

(* The name of a record is in the zone, and a zone file that writes its    *)
(* relative name means it; "@" and not nothing stands for the zone.        *)
RecordsInZone ==
    \A r \in records :
        zone # NoZone =>
            /\ Below(r.name, zone)
            /\ r.relative # <<>>
            /\ (IF r.relative = Apex THEN <<>> ELSE r.relative) \o zone.labels = r.name.labels

(* The call fails for an address that does not parse or a zone that is not *)
(* a reverse zone, and panics for a zone with more labels than addresses.  *)
FailuresExplained ==
    /\ result = "error" =>
          AddressAt(endpoints, at).kind = "invalid" \/ (zone # NoZone /\ zone.kind = "none")
    /\ result = "panic" =>
          zone # NoZone /\ Len(zone.labels) > Width(zone.kind)
===============================================================================
