---------------------------- MODULE Route53Forward ----------------------------
(***************************************************************************)
(* The forward half of provider/aws/route53.go: updateForward, its cleanup *)
(* and the 24 h cache of the zone's record sets it plans from.             *)
(*                                                                         *)
(* One step per call to Route53 (GetHostedZone, a page of the cleanup, the *)
(* lookups of a host, the batch of changes); each may fail, a change may   *)
(* also take effect although its answer is lost, and the process may be    *)
(* restarted between any two.  A batch is the list of endpoints after the  *)
(* forward filter.  ZonePop is taken to be the only writer of the zone.    *)
(***************************************************************************)
EXTENDS Integers, Sequences, FiniteSets

CONSTANTS
    Host,           \* hostnames of endpoints
    NoHost,         \* the empty hostname
    Name,           \* record names, fully qualified
    Fqdn,           \* Fqdn[h]: DNSSafeName(h) \o RecordSuffix, with its final dot
    V4, V6,         \* addresses, as they appear in A and in AAAA records
    Text,           \* values of the records ZonePop does not manage
    TTL,
    Batches,        \* lists of endpoints UpdateEndpoints may be called with
    InitialZones,   \* what the zone may hold at first
    NoCache,        \* cachedRecordSets[zone] is nil or expired
    Position,       \* external: Route53 lists records in the order of this rank
    PageSize,       \* external: the records of one page of a listing
    EnabledModes, NameModes, CleanModes  \* values of the configuration to consider

ManagedTypes == {"A", "AAAA"}
RRType == ManagedTypes \cup {"TXT"}
Values(type) == CASE type = "A" -> V4 [] type = "AAAA" -> V6 [] OTHER -> Text
Record ==
    {r \in [name : Name, type : RRType, values : SUBSET (V4 \cup V6 \cup Text), ttl : TTL] :
        r.values # {} /\ r.values \subseteq Values(r.type)}
Endpoint == [host : Host \cup {NoHost}, v4 : SUBSET V4, v6 : SUBSET V6, ttl : TTL]

SameKey(r, s) == r.name = s.name /\ r.type = s.type
UniqueKeys(records) == \A r, s \in records : SameKey(r, s) => r = s

ASSUME HostAssumption == NoHost \notin Host
ASSUME FqdnAssumption == Fqdn \in [Host -> Name]
ASSUME AddressAssumption == V4 \cap V6 = {}
ASSUME BatchesAssumption == Batches \subseteq Seq(Endpoint)
ASSUME ZonesAssumption ==
    \A z \in InitialZones : z \subseteq Record /\ UniqueKeys(z)
ASSUME PageAssumption ==
    PageSize \in Nat \ {0} /\ Position \in [Name \X RRType -> Nat]
ASSUME ModesAssumption ==
    EnabledModes \subseteq BOOLEAN /\ NameModes \subseteq BOOLEAN /\ CleanModes \subseteq BOOLEAN

VARIABLES
    enabled, named, clean,  \* configuration: ForwardZoneID, ForwardZoneName set, CleanForwardZone
    nameKnown,              \* p.config.ForwardZoneName is filled in
    zone,                   \* external: the records of the hosted zone
    cache,                  \* cachedRecordSets of the zone, or NoCache
    pc,                     \* where UpdateEndpoints is
    batch,                  \* the endpoints of the call
    todo,                   \* hostnames not planned yet
    changes,                \* the change batch so far, each change with the host it is for
    outcome                 \* what the last call returned

config == <<enabled, named, clean>>
call == <<pc, batch, todo, changes, outcome>>
vars == <<config, nameKnown, zone, cache, call>>

-------------------------------------------------------------------------------
(* The grouping by hostname. *)
For(b, h) == {k \in DOMAIN b : b[k].host = h}
Hosts(b) == {b[k].host : k \in DOMAIN b} \ {NoHost}
Addresses4(b, h) == UNION {b[k].v4 : k \in For(b, h)}
Addresses6(b, h) == UNION {b[k].v6 : k \in For(b, h)}
Ttl(b, h) == b[CHOOSE k \in For(b, h) : \A j \in For(b, h) : k <= j].ttl
Addresses(b, h, type) == IF type = "A" THEN Addresses4(b, h) ELSE Addresses6(b, h)

Change(b, h, type) ==
    [host |-> h, name |-> Fqdn[h], type |-> type,
     values |-> Addresses(b, h, type), ttl |-> Ttl(b, h)]

(* External: a batch of UPSERTs replaces the record sets it names, all of  *)
(* them or none; two changes of one record set are refused.                *)
RecordOf(c) == [name |-> c.name, type |-> c.type, values |-> c.values, ttl |-> c.ttl]
Upsert(z, cs) ==
    {r \in z : \A c \in cs : ~SameKey(r, c)} \cup {RecordOf(c) : c \in cs}
Acceptable(cs) == \A c, d \in cs : SameKey(c, d) => c = d

(* External: the first page of a listing. *)
Before(r, s) == Position[<<r.name, r.type>>] < Position[<<s.name, s.type>>]
FirstPage(z) == {r \in z : Cardinality({s \in z : Before(s, r)}) < PageSize}
IsTruncated(z) == Cardinality(z) > PageSize

-------------------------------------------------------------------------------
Init ==
    /\ enabled \in EnabledModes
    /\ named \in NameModes
    /\ clean \in CleanModes
    /\ nameKnown = named
    /\ zone \in InitialZones
    /\ cache = NoCache
    /\ pc = "idle"
    /\ batch = <<>>
    /\ todo = {}
    /\ changes = {}
    /\ outcome = "none"

CleanAlways == "clean"  \* mutant of AfterName
AfterName == IF clean THEN "clean" ELSE "plan"

Begin(b) ==
    /\ pc = "idle"
    /\ enabled
    /\ pc' = IF nameKnown THEN AfterName ELSE "name"
    /\ batch' = b
    /\ todo' = Hosts(b)
    /\ changes' = {}
    /\ outcome' = "none"
    /\ UNCHANGED <<config, nameKnown, zone, cache>>

UpdateForward == \E b \in Batches : Begin(b)

ForwardDisabled ==
    /\ pc = "idle"
    /\ ~enabled
    /\ outcome' = "ok"
    /\ UNCHANGED <<config, nameKnown, zone, cache, pc, batch, todo, changes>>

GetZoneName ==
    /\ pc = "name"
    /\ nameKnown' = TRUE
    /\ pc' = AfterName
    /\ UNCHANGED <<config, zone, cache, batch, todo, changes, outcome>>

GetZoneNameFails ==
    /\ pc = "name"
    /\ pc' = "idle"
    /\ outcome' = "error"
    /\ UNCHANGED <<config, nameKnown, zone, cache, batch, todo, changes>>

-------------------------------------------------------------------------------
(* cleanupZone.  A simple record has no identifier, so NextRecordIdentifier *)
(* is nil and every round of its loop lists the FIRST page again.  A record *)
(* stays when its name equals the hostname of an endpoint; updateForward    *)
(* ignores the error cleanupZone returns.                                   *)
AnyType(r) == r.name \notin Hosts(batch)  \* mutant of Cleanable
Cleanable(r) == r.type \in ManagedTypes /\ r.name \notin Hosts(batch)
Doomed == {r \in FirstPage(zone) : Cleanable(r)}

CleanupListFails ==
    /\ pc = "clean"
    /\ pc' = "plan"
    /\ UNCHANGED <<config, nameKnown, zone, cache, batch, todo, changes, outcome>>

AllPagesListed ==  \* mutant of NothingToClean
    /\ pc = "clean"
    /\ Doomed = {}
    /\ pc' = IF IsTruncated(zone) THEN "clean" ELSE "plan"
    /\ UNCHANGED <<config, nameKnown, zone, cache, batch, todo, changes, outcome>>
NothingToClean ==
    /\ pc = "clean"
    /\ Doomed = {}
    /\ pc' = "plan"
    /\ UNCHANGED <<config, nameKnown, zone, cache, batch, todo, changes, outcome>>

CleanPage ==
    /\ pc = "clean"
    /\ Doomed # {}
    /\ zone' = zone \ Doomed
    /\ pc' = IF IsTruncated(zone) THEN "clean" ELSE "plan"
    /\ UNCHANGED <<config, nameKnown, cache, batch, todo, changes, outcome>>

CleanPageFails ==
    /\ pc = "clean"
    /\ Doomed # {}
    /\ zone' \in {zone, zone \ Doomed}
    /\ pc' = "plan"
    /\ UNCHANGED <<config, nameKnown, cache, batch, todo, changes, outcome>>

-------------------------------------------------------------------------------
(* getCachedResourceRecord: the cache, or a new listing that fills it; a   *)
(* listing that fails finds no record and leaves the cache empty.          *)
CacheAfterLookup(c) == IF c = NoCache THEN {zone, NoCache} ELSE {c}
Found(c, name, type) ==
    {r \in IF c = NoCache THEN {} ELSE c : r.name = name /\ r.type = type}

(* Both record types are compared with the IPv4 addresses. *)
ExistsOnly(c, h, type) ==  \* mutant of NeedsUpdate
    Found(c, Fqdn[h], type) = {}
CompareOwnType(c, h, type) ==  \* mutant of NeedsUpdate
    \/ Found(c, Fqdn[h], type) = {}
    \/ \E r \in Found(c, Fqdn[h], type) : ~(r.values \subseteq Addresses(batch, h, type))
NeedsUpdate(c, h, type) ==
    \/ Found(c, Fqdn[h], type) = {}
    \/ \E r \in Found(c, Fqdn[h], type) : ~(r.values \subseteq Addresses4(batch, h))

Planned(c, h, type) ==
    IF Addresses(batch, h, type) # {} /\ NeedsUpdate(c, h, type)
    THEN {Change(batch, h, type)} ELSE {}

PlanHost(h) ==
    /\ pc = "plan"
    /\ h \in todo
    /\ \E c4 \in IF Addresses4(batch, h) # {} THEN CacheAfterLookup(cache) ELSE {cache} :
       \E c6 \in IF Addresses6(batch, h) # {} THEN CacheAfterLookup(c4) ELSE {c4} :
          /\ changes' = changes \cup Planned(c4, h, "A") \cup Planned(c6, h, "AAAA")
          /\ cache' = c6
    /\ todo' = todo \ {h}
    /\ UNCHANGED <<config, nameKnown, zone, pc, batch, outcome>>

NoForwardChanges ==
    /\ pc = "plan"
    /\ todo = {}
    /\ changes = {}
    /\ pc' = "idle"
    /\ outcome' = "ok"
    /\ UNCHANGED <<config, nameKnown, zone, cache, batch, todo, changes>>

(* ChangeResourceRecordSets, then clearCache whatever its result. *)
ApplyChanges(z, result, c) ==
    /\ pc = "plan"
    /\ todo = {}
    /\ changes # {}
    /\ zone' = z
    /\ cache' = c
    /\ pc' = "idle"
    /\ outcome' = result
    /\ UNCHANGED <<config, nameKnown, batch, todo, changes>>

ChangesApplied ==
    Acceptable(changes) /\ ApplyChanges(Upsert(zone, changes), "ok", NoCache)

ChangesRefused == ApplyChanges(zone, "error", NoCache)

CacheKept ==  \* mutant of AnswerLost
    Acceptable(changes) /\ ApplyChanges(Upsert(zone, changes), "error", cache)
AnswerLost ==
    Acceptable(changes) /\ ApplyChanges(Upsert(zone, changes), "error", NoCache)

-------------------------------------------------------------------------------
CacheExpires ==
    /\ cache # NoCache
    /\ cache' = NoCache
    /\ UNCHANGED <<config, nameKnown, zone, call>>

(* The process is killed and started again: the zone is all that remains. *)
Restart ==
    /\ nameKnown' = named
    /\ cache' = NoCache
    /\ pc' = "idle"
    /\ batch' = <<>>
    /\ todo' = {}
    /\ changes' = {}
    /\ outcome' = "none"
    /\ UNCHANGED <<config, zone>>

Apply == ChangesApplied \/ ChangesRefused \/ AnswerLost

Next ==
    \/ UpdateForward
    \/ ForwardDisabled
    \/ GetZoneName
    \/ GetZoneNameFails
    \/ CleanupListFails
    \/ NothingToClean
    \/ CleanPage
    \/ CleanPageFails
    \/ \E h \in Host : PlanHost(h)
    \/ NoForwardChanges
    \/ ChangesApplied
    \/ ChangesRefused
    \/ AnswerLost
    \/ CacheExpires
    \/ Restart

SafeSpec == Init /\ [][Next]_vars

(* Calls to Route53 return, and the goroutine that makes them is scheduled; *)
(* that a cleanup ends must not rest on one of its calls failing.           *)
Fairness ==
    /\ WF_vars(GetZoneName \/ GetZoneNameFails)
    /\ WF_vars(NothingToClean \/ CleanPage)
    /\ WF_vars(\E h \in Host : PlanHost(h))
    /\ WF_vars(NoForwardChanges \/ Apply)

Spec == SafeSpec /\ Fairness

-------------------------------------------------------------------------------
(* Every variable has its type, and a zone holds one record set per name and type. *)
TypeOK ==
    /\ enabled \in BOOLEAN /\ named \in BOOLEAN /\ clean \in BOOLEAN
    /\ nameKnown \in BOOLEAN
    /\ zone \subseteq Record /\ UniqueKeys(zone)
    /\ cache = NoCache \/ cache \subseteq Record
    /\ pc \in {"idle", "name", "clean", "plan"}
    /\ batch \in Seq(Endpoint)
    /\ todo \subseteq Hosts(batch)
    /\ \A c \in changes :
          /\ c.host \in Hosts(batch)
          /\ c.type \in ManagedTypes
          /\ Addresses(batch, c.host, c.type) # {}
          /\ c = Change(batch, c.host, c.type)
    /\ outcome \in {"none", "ok", "error"}

(* The cache never hides a record of the zone, and without cleanup it IS   *)
(* the zone: every change clears it, also one whose answer is an error.    *)
(* With cleanup it may also hold records that the cleanup deleted.         *)
CacheCoherent ==
    cache # NoCache => /\ zone \subseteq cache
                       /\ UniqueKeys(cache)
                       /\ ~clean => cache = zone

(* No hostname of the batch but h has h's record name. *)
Distinct(h) == \A g \in Hosts(batch) : Fqdn[g] = Fqdn[h] => g = h

(* After a call that returned no error, a record of a reported host holds  *)
(* no address it was not reported with (hosts reported without any address *)
(* of the record's type apart, and hosts that share a record name).        *)
NoStaleAddress ==
    pc = "idle" /\ outcome = "ok" /\ enabled =>
        \A h \in Hosts(batch), r \in zone :
            /\ Distinct(h)
            /\ r.name = Fqdn[h]
            /\ r.type \in ManagedTypes
            /\ Addresses(batch, h, r.type) # {}
            => r.values \subseteq Addresses(batch, h, r.type)

(* Without cleanup, a call that returned no error leaves every reported    *)
(* address family of every reported host with a record in the zone.        *)
ReportedHostsHaveRecords ==
    pc = "idle" /\ outcome = "ok" /\ enabled /\ ~clean =>
        \A h \in Hosts(batch), type \in ManagedTypes :
            Addresses(batch, h, type) # {} =>
                \E r \in zone : r.name = Fqdn[h] /\ r.type = type

(* An AAAA record is what the host was reported with, all of it. *)
AAAAIsExact ==
    pc = "idle" /\ outcome = "ok" /\ enabled =>
        \A h \in Hosts(batch), r \in zone :
            Distinct(h) /\ r.name = Fqdn[h] /\ r.type = "AAAA" /\ Addresses6(batch, h) # {}
            => r.values = Addresses6(batch, h)

(* What the plan has established for a host: a change, or an A record of   *)
(* the zone (there is one, without cleanup) with no address to be removed. *)
Settled(h, type) ==
    \/ \E c \in changes : c.host = h /\ c.type = type
    \/ /\ type = "A"
       /\ \A r \in zone :
             r.name = Fqdn[h] /\ r.type = "A" => r.values \subseteq Addresses4(batch, h)
       /\ ~clean => \E r \in zone : r.name = Fqdn[h] /\ r.type = "A"

PlanSettles ==
    pc = "plan" =>
        \A h \in Hosts(batch) \ todo, type \in ManagedTypes :
            Addresses(batch, h, type) # {} => Settled(h, type)

NothingYet == pc \in {"name", "clean"} => todo = Hosts(batch) /\ changes = {}

PhaseMatchesConfig == pc # "idle" => enabled /\ (pc = "clean" => clean)

(* The inductive invariant the theorems of Route53ForwardProofs rest on. *)
ForwardInv ==
    /\ CacheCoherent
    /\ PlanSettles
    /\ NothingYet
    /\ PhaseMatchesConfig
    /\ NoStaleAddress
    /\ ReportedHostsHaveRecords
    /\ AAAAIsExact

(* A record that appears holds exactly the addresses of a reported host;   *)
(* one of another type than ZonePop's never goes away, by cleanup or by    *)
(* changes; and without cleanup none does but for its successor.           *)
WritesOnlyReports ==
    [][/\ \A r \in zone' \ zone : \E h \in Hosts(batch) :
             r.type \in ManagedTypes /\ r = RecordOf(Change(batch, h, r.type))
       /\ \A r \in zone \ zone' : r.type \in ManagedTypes
       /\ ~clean => \A r \in zone \ zone' : \E s \in zone' : SameKey(r, s)]_vars

(* Every call returns: in particular the cleanup, which lists the first    *)
(* page again and again, ends for each zone.                               *)
UpdateReturns == pc # "idle" ~> pc = "idle"

-------------------------------------------------------------------------------
(* What the docs say, and the code does not do. *)

(* "List of IPv4 addresses for A record creation" (endpoint.go:16): after  *)
(* a call that returned no error, the A record of a reported host lists    *)
(* the addresses of the host.                                              *)
ARecordListsAddresses ==
    pc = "idle" /\ outcome = "ok" /\ enabled =>
        \A h \in Hosts(batch), r \in zone :
            Distinct(h) /\ r.name = Fqdn[h] /\ r.type = "A" =>
                Addresses4(batch, h) \subseteq r.values
===============================================================================
