---------------------------- MODULE Route53Reverse ----------------------------
(***************************************************************************)
(* provider/aws/route53.go: UpdateEndpoints with the reverse zones.  The   *)
(* forward zone goes first (module Route53Forward; here it succeeds or     *)
(* fails), then the IPv4 and the IPv6 reverse zone, and the first error    *)
(* returns.  A reverse zone is cleaned of the names no endpoint has, and   *)
(* every name some endpoint has is written, whatever the zone holds.       *)
(*                                                                         *)
(* One step per call to Route53; each may fail, a change may take effect   *)
(* although its answer is lost, and the process may be restarted between   *)
(* any two.                                                                *)
(***************************************************************************)
EXTENDS ReverseDNS, FiniteSets

CONSTANTS
    Host,          \* hostnames of endpoints
    NoHost,        \* the empty hostname
    FullName,      \* FullName[n]: DNSSafeName(n) \o RecordSuffix
    TTL,
    Batches,       \* the lists of endpoints after the reverse filter
    InitialZones,  \* what the reverse zones may hold at first
    Position,      \* external: Route53 lists the records of a zone in this order
    PageSize,      \* external: the records of one page of a listing
    HostedModes, EnabledModes, NameModes, CleanModes  \* configurations to consider

Generated(a) == <<"ip", a>>
Hostname == Host \cup {Generated(a) : a \in Address}
Endpoint == [host : Host \cup {NoHost}, v4 : Seq(Address), v6 : Seq(Address), ttl : TTL]
RecordName == {ReverseAddr(a) : a \in {b \in Address : b.kind \in Kind}}

UniqueKeys(z) == \A r, s \in z : r.name = s.name /\ r.type = s.type => r = s

ASSUME HostAssumption == NoHost \notin Host
ASSUME FullNameAssumption == DOMAIN FullName = Hostname
ASSUME BatchesAssumption == Batches \subseteq Seq(Endpoint)
ASSUME InitialZonesAssumption ==
    \A z \in InitialZones : DOMAIN z = Kind /\ \A f \in Kind : UniqueKeys(z[f])
ASSUME PageAssumption == PageSize \in Nat \ {0}
ASSUME ModesAssumption ==
    /\ HostedModes \subseteq [Kind -> Zone]
    /\ EnabledModes \subseteq [Kind -> BOOLEAN] /\ NameModes \subseteq [Kind -> BOOLEAN]
    /\ CleanModes \subseteq [Kind -> BOOLEAN]

VARIABLES
    hosted,                 \* hosted[f]: the name of the hosted zone
    enabled, named, clean,  \* configuration of each zone
    nameKnown,              \* Ipv4ReverseZoneName, Ipv6ReverseZoneName are filled in
    zones,                  \* external: the records of the two hosted zones
    pc,                     \* where UpdateEndpoints is
    family,                 \* the zone it is at
    batch,                  \* the endpoints of the call
    outcome                 \* what the last call returned

config == <<hosted, enabled, named, clean>>
call == <<pc, family, batch, outcome>>
vars == <<config, nameKnown, zones, call>>

-------------------------------------------------------------------------------
(* The plan of a zone, made without calls to Route53. *)
Addresses(ep, f) == IF f = "ipv4" THEN ep.v4 ELSE ep.v6
Claim(b, f) == UNION {{e} \X (1..Len(Addresses(b[e], f))) : e \in 1..Len(b)}
AddressAt(b, f, c) == Addresses(b[c[1]], f)[c[2]]
NameAt(b, f, c) == ReverseAddr(AddressAt(b, f, c))
FitAt(b, f, c) == FitsInReverseZone(AddressAt(b, f, c), hosted[f])

NameOf(ep) == IF ep.host # NoHost THEN ep.host ELSE Generated(ep.v4[1])

(* An endpoint with no hostname and no IPv4 address ends the IPv6 plan,    *)
(* and its changes are dropped without an error.                           *)
Nameless(b, f) ==
    {<<e, 0>> : e \in {n \in 1..Len(b) : f = "ipv6" /\ b[n].host = NoHost /\ b[n].v4 = <<>>}}

Stops(b, f) == Nameless(b, f) \cup {c \in Claim(b, f) : FitAt(b, f, c) \in {"error", "panic"}}
FirstStop(b, f) == CHOOSE c \in Stops(b, f) : \A d \in Stops(b, f) : ~Earlier(d, c)

PlanResult(b, f) ==
    CASE Stops(b, f) = {} -> "changes"
      [] Stops(b, f) # {} /\ FirstStop(b, f)[2] = 0 -> "dropped"
      [] OTHER -> FitAt(b, f, FirstStop(b, f))

LastClaimant(b, f, c) ==  \* mutant of Registers
    \A d \in Claim(b, f) :
        Earlier(c, d) /\ FitAt(b, f, d) = "yes" => NameAt(b, f, d) # NameAt(b, f, c)
Registers(b, f, c) ==
    \A d \in Claim(b, f) :
        Earlier(d, c) /\ FitAt(b, f, d) = "yes" => NameAt(b, f, d) # NameAt(b, f, c)

PTR(b, f, c) ==
    [name |-> NameAt(b, f, c), type |-> "PTR",
     value |-> FullName[NameOf(b[c[1]])], ttl |-> b[c[1]].ttl]

InAnyZone(b, f) ==  \* mutant of Changes
    {PTR(b, f, c) : c \in {d \in Claim(b, f) : Registers(b, f, d)}}
Changes(b, f) ==
    {PTR(b, f, c) : c \in {d \in Claim(b, f) : FitAt(b, f, d) = "yes" /\ Registers(b, f, d)}}

(* External: a batch of UPSERTs, which must name a record set only once. *)
Upsert(z, cs) == {r \in z : \A c \in cs : r.name # c.name \/ r.type # c.type} \cup cs

(* cleanupZone's foundFunc: some endpoint has the name, for an address     *)
(* before which none of its list fails to parse.                           *)
Kept(b, f) ==
    {NameAt(b, f, c) : c \in
        {d \in Claim(b, f) :
            \A k \in 1..d[2] : AddressAt(b, f, <<d[1], k>>).kind # "invalid"}}

(* External: the first page of a listing. *)
Before(r, s) == Position[<<r.name, r.type>>] < Position[<<s.name, s.type>>]
FirstPage(z) == {r \in z : Cardinality({s \in z : Before(s, r)}) < PageSize}
IsTruncated(z) == Cardinality(z) > PageSize
AnyType(z) == {r \in FirstPage(z) : r.name \notin Kept(batch, family)}  \* mutant of Doomed
Doomed(z) == {r \in FirstPage(z) : r.type = "PTR" /\ r.name \notin Kept(batch, family)}

-------------------------------------------------------------------------------
Init ==
    /\ hosted \in HostedModes
    /\ enabled \in EnabledModes
    /\ named \in NameModes
    /\ clean \in CleanModes
    /\ nameKnown = named
    /\ zones \in {z \in InitialZones : \A f \in Kind : \A r \in z[f] : Below(r.name, hosted[f])}
    /\ pc = "idle"
    /\ family = "ipv4"
    /\ batch = <<>>
    /\ outcome = "none"

UpdateEndpoints ==
    /\ pc = "idle"
    /\ batch' \in Batches
    /\ pc' = "forward"
    /\ family' = "ipv4"
    /\ outcome' = "none"
    /\ UNCHANGED <<config, nameKnown, zones>>

Fail ==
    /\ pc' = "idle"
    /\ outcome' = "error"
    /\ UNCHANGED <<family, batch>>

ForwardFails ==
    /\ pc = "forward"
    /\ Fail
    /\ UNCHANGED <<config, nameKnown, zones>>

ForwardDone ==
    /\ pc = "forward"
    /\ pc' = "start"
    /\ UNCHANGED <<config, nameKnown, zones, family, batch, outcome>>

(* updateIPv4Reverse or updateIPv6Reverse returns nil. *)
NextZone ==
    /\ UNCHANGED batch
    /\ IF family = "ipv4"
       THEN family' = "ipv6" /\ pc' = "start" /\ outcome' = outcome
       ELSE family' = family /\ pc' = "idle" /\ outcome' = "ok"

ZoneDisabled ==
    /\ pc = "start"
    /\ ~enabled[family]
    /\ NextZone
    /\ UNCHANGED <<config, nameKnown, zones>>

AfterName == IF clean[family] THEN "clean" ELSE "plan"

ZoneEnabled ==
    /\ pc = "start"
    /\ enabled[family]
    /\ pc' = IF nameKnown[family] THEN AfterName ELSE "name"
    /\ UNCHANGED <<config, nameKnown, zones, family, batch, outcome>>

GetZoneName ==
    /\ pc = "name"
    /\ nameKnown' = [nameKnown EXCEPT ![family] = TRUE]
    /\ pc' = AfterName
    /\ UNCHANGED <<config, zones, family, batch, outcome>>

GetZoneNameFails ==
    /\ pc = "name"
    /\ Fail
    /\ UNCHANGED <<config, nameKnown, zones>>

-------------------------------------------------------------------------------
(* cleanupZone lists the first page in every round, ends with the first    *)
(* page that needs no change, and its error is ignored.                    *)
CleanupEnds ==
    /\ pc = "clean"
    /\ pc' = "plan"
    /\ UNCHANGED <<config, nameKnown, family, batch, outcome>>

CleanupListFails == CleanupEnds /\ UNCHANGED zones

AllPagesListed ==  \* mutant of NothingToClean
    /\ pc = "clean"
    /\ Doomed(zones[family]) = {}
    /\ pc' = IF IsTruncated(zones[family]) THEN "clean" ELSE "plan"
    /\ UNCHANGED <<config, nameKnown, zones, family, batch, outcome>>
NothingToClean ==
    /\ Doomed(zones[family]) = {}
    /\ CleanupEnds
    /\ UNCHANGED zones

Delete(z) == [zones EXCEPT ![family] = z \ Doomed(z)]

CleanPage ==
    /\ pc = "clean"
    /\ Doomed(zones[family]) # {}
    /\ zones' = Delete(zones[family])
    /\ pc' = IF IsTruncated(zones[family]) THEN "clean" ELSE "plan"
    /\ UNCHANGED <<config, nameKnown, family, batch, outcome>>

CleanPageFails ==
    /\ Doomed(zones[family]) # {}
    /\ CleanupEnds
    /\ zones' \in {zones, Delete(zones[family])}

-------------------------------------------------------------------------------
Planned(result) == pc = "plan" /\ PlanResult(batch, family) = result

PlanFails ==
    /\ Planned("error")
    /\ Fail
    /\ UNCHANGED <<config, nameKnown, zones>>

(* An index out of range in FitsInReverseZone: nothing recovers from it.   *)
(* The process ends, and is started again.                                 *)
Restarted ==
    /\ nameKnown' = named
    /\ pc' = "idle"
    /\ family' = "ipv4"
    /\ batch' = <<>>
    /\ outcome' = "none"
    /\ UNCHANGED <<config, zones>>

PlanPanics == Planned("panic") /\ Restarted
Restart == Restarted

(* No changes, or those there are are dropped. *)
NoChanges ==
    /\ \/ Planned("dropped")
       \/ Planned("changes") /\ Changes(batch, family) = {}
    /\ NextZone
    /\ UNCHANGED <<config, nameKnown, zones>>

Write ==
    /\ Planned("changes")
    /\ Changes(batch, family) # {}

WithChanges(z) == [zones EXCEPT ![family] = Upsert(z, Changes(batch, family))]

ChangesApplied ==
    /\ Write
    /\ zones' = WithChanges(zones[family])
    /\ NextZone
    /\ UNCHANGED <<config, nameKnown>>

ChangesFail ==
    /\ Write
    /\ zones' \in {zones, WithChanges(zones[family])}
    /\ Fail
    /\ UNCHANGED <<config, nameKnown>>

Next ==
    \/ UpdateEndpoints
    \/ ForwardFails
    \/ ForwardDone
    \/ ZoneDisabled
    \/ ZoneEnabled
    \/ GetZoneName
    \/ GetZoneNameFails
    \/ CleanupListFails
    \/ NothingToClean
    \/ CleanPage
    \/ CleanPageFails
    \/ PlanFails
    \/ PlanPanics
    \/ NoChanges
    \/ ChangesApplied
    \/ ChangesFail
    \/ Restart

SafeSpec == Init /\ [][Next]_vars

(* Calls to Route53 return, and the goroutine that makes them is scheduled; *)
(* that a cleanup ends must not rest on one of its calls failing.           *)
Fairness ==
    /\ WF_vars(ForwardFails \/ ForwardDone)
    /\ WF_vars(ZoneDisabled \/ ZoneEnabled)
    /\ WF_vars(GetZoneName \/ GetZoneNameFails)
    /\ WF_vars(NothingToClean \/ CleanPage)
    /\ WF_vars(PlanFails \/ PlanPanics \/ NoChanges \/ ChangesApplied \/ ChangesFail)

Spec == SafeSpec /\ Fairness

-------------------------------------------------------------------------------
(* Every variable has its type; a zone holds one PTR per name. *)
TypeOK ==
    /\ hosted \in [Kind -> Zone]
    /\ enabled \in [Kind -> BOOLEAN] /\ named \in [Kind -> BOOLEAN]
    /\ clean \in [Kind -> BOOLEAN] /\ nameKnown \in [Kind -> BOOLEAN]
    /\ DOMAIN zones = Kind /\ \A f \in Kind : UniqueKeys(zones[f])
    /\ pc \in {"idle", "forward", "start", "name", "clean", "plan"}
    /\ family \in Kind
    /\ batch \in Batches \cup {<<>>}
    /\ outcome \in {"none", "ok", "error"}

(* The zones a call is done with. *)
Finished(f) == outcome = "ok" \/ (f = "ipv4" /\ family = "ipv6" /\ outcome = "none")

(* When updateIPv4Reverse or updateIPv6Reverse has returned nil, every     *)
(* address of the call could be parsed, up to an endpoint the IPv6 planner *)
(* has no name for: neither that endpoint nor the next zone hides an error *)
(* that came before it.  And without such an endpoint, which makes the     *)
(* planner drop its changes, each name of an address that fits in the zone *)
(* points to the first endpoint that has it.                               *)
NamesPointHome ==
    \A f \in Kind :
        Finished(f) /\ enabled[f] =>
            \A c \in Claim(batch, f) :
                /\ (\A n \in Nameless(batch, f) : Earlier(c, n)) =>
                      AddressAt(batch, f, c).kind # "invalid"
                /\ Nameless(batch, f) = {} /\ FitAt(batch, f, c) = "yes" =>
                    \E d \in Claim(batch, f) :
                        /\ NameAt(batch, f, d) = NameAt(batch, f, c)
                        /\ FitAt(batch, f, d) = "yes" /\ ~Earlier(c, d)
                        /\ PTR(batch, f, d) \in zones[f]

(* Cleanup spares the name of every reported address, those after one that *)
(* does not parse apart, and all that is not a PTR.                        *)
ReportedKept ==
    [][\A f \in Kind : \A r \in zones[f] \ zones'[f] :
          /\ r.type = "PTR"
          /\ \/ \E s \in zones'[f] : s.type = "PTR" /\ s.name = r.name
             \/ /\ clean[f]
                /\ \A c \in Claim(batch, f) :
                      NameAt(batch, f, c) = r.name =>
                          \E k \in 1..c[2] :
                              AddressAt(batch, f, <<c[1], k>>).kind = "invalid"]_vars

(* What is written is in the zone it is written to, and is the PTR of an   *)
(* address an endpoint of the call has.                                    *)
WritesOnlyReports ==
    [][\A f \in Kind : \A r \in zones'[f] \ zones[f] :
          /\ Below(r.name, hosted[f])
          /\ \E c \in Claim(batch, f) : r = PTR(batch, f, c)]_vars

(* Every call returns, the cleanup of a zone of any length included. *)
UpdateReturns == pc # "idle" ~> pc = "idle"
===============================================================================
