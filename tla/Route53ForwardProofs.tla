------------------------- MODULE Route53ForwardProofs -------------------------
(***************************************************************************)
(* Theorems about Route53Forward, for any hosts, zones, batches, page size *)
(* and listing order.  The inductive invariant ForwardInv relates the      *)
(* cache to the zone and says what planning a host has settled; the        *)
(* promises of a call that returned no error follow from it.               *)
(***************************************************************************)
EXTENDS ForwardSync, WellFoundedInduction, TLAPS

(* The first endpoint of a host gives its TTL. *)
LEMMA TtlType ==
    ASSUME NEW b \in Seq(Endpoint), NEW h \in Hosts(b)
    PROVE  Ttl(b, h) \in TTL
<1> DEFINE S == For(b, h)
           first == CHOOSE k \in S : \A j \in S : k <= j
           less == OpToRel(<, Nat)
<1>1. S \subseteq Nat /\ S # {}
  BY DEF For, Hosts
<1>2. \E k \in S : \A j \in S : ~(<<j, k>> \in less)
  <2> HIDE DEF S, less
  <2> QED
    BY <1>1, NatLessThanWellFounded, WFMin DEF less
<1>3. \E k \in S : \A j \in S : k <= j
  <2>1. less = {ss \in Nat \X Nat : ss[1] < ss[2]}
    BY DEF OpToRel
  <2> HIDE DEF S, less
  <2>2. \A j, k \in Nat : <<j, k>> \in less <=> j < k
    BY <2>1
  <2>3. \A j, k \in Nat : ~(j < k) => k <= j
    OBVIOUS
  <2> QED
    BY <1>1, <1>2, <2>2, <2>3
<1>4. first \in S
  <2> HIDE DEF S
  <2> QED
    BY <1>3
<1>5. b[first] \in Endpoint
  BY <1>4 DEF For
<1>6. Ttl(b, h) = b[first].ttl
  BY DEF Ttl
<1> QED
  BY <1>5, <1>6 DEF Endpoint

(* The addresses of a host in a batch. *)
LEMMA AddressesType ==
    ASSUME NEW b \in Seq(Endpoint), NEW h
    PROVE  Addresses4(b, h) \subseteq V4 /\ Addresses6(b, h) \subseteq V6
<1>1. \A k \in For(b, h) : b[k] \in Endpoint
  BY DEF For
<1> QED
  BY <1>1 DEF Addresses4, Addresses6, Endpoint

(* The hostnames of a batch. *)
LEMMA HostsType ==
    ASSUME NEW b \in Seq(Endpoint)
    PROVE  Hosts(b) \subseteq Host
<1>1. \A k \in DOMAIN b : b[k] \in Endpoint
  OBVIOUS
<1> QED
  BY <1>1 DEF Hosts, Endpoint

(* A change for a reported host is the record of that host. *)
LEMMA ChangeType ==
    ASSUME NEW b \in Seq(Endpoint), NEW h \in Hosts(b), NEW type \in ManagedTypes,
           Addresses(b, h, type) # {}
    PROVE  RecordOf(Change(b, h, type)) \in Record
<1>1. Fqdn[h] \in Name
  BY HostsType, FqdnAssumption
<1>2. Ttl(b, h) \in TTL
  BY TtlType
<1>3. Addresses(b, h, type) \subseteq Values(type)
  BY AddressesType DEF Addresses, Values, ManagedTypes
<1>4. Values(type) \subseteq V4 \cup V6 \cup Text
  BY DEF Values, ManagedTypes
<1>5. type \in RRType
  BY DEF RRType
<1> QED
  BY <1>1, <1>2, <1>3, <1>4, <1>5 DEF RecordOf, Change, Record

(* A batch Route53 accepts leaves a zone of proper records, one per key. *)
LEMMA UpsertType ==
    ASSUME TypeOK, Acceptable(changes)
    PROVE  Upsert(zone, changes) \subseteq Record /\ UniqueKeys(Upsert(zone, changes))
<1>1. \A c \in changes : RecordOf(c) \in Record
  BY ChangeType DEF TypeOK
<1>2. \A c, d \in changes : SameKey(RecordOf(c), RecordOf(d)) => c = d
  BY DEF Acceptable, SameKey, RecordOf
<1>3. \A r \in zone, c \in changes : SameKey(r, RecordOf(c)) <=> SameKey(r, c)
  BY DEF SameKey, RecordOf
<1>4. \A r \in zone, c \in changes : SameKey(RecordOf(c), r) <=> SameKey(r, c)
  BY DEF SameKey, RecordOf
<1>5. UniqueKeys(zone)
  BY DEF TypeOK
<1>6. UniqueKeys(Upsert(zone, changes))
  BY <1>2, <1>3, <1>4, <1>5 DEF UniqueKeys, Upsert
<1>7. Upsert(zone, changes) \subseteq Record
  BY <1>1 DEF Upsert, TypeOK
<1> QED
  BY <1>6, <1>7

(* A new provider has the types. *)
LEMMA TypeInit == Init => TypeOK
<1> SUFFICES ASSUME Init PROVE TypeOK
  OBVIOUS
<1>1. enabled \in BOOLEAN /\ named \in BOOLEAN /\ clean \in BOOLEAN /\ nameKnown \in BOOLEAN
  BY ModesAssumption DEF Init
<1>2. zone \subseteq Record /\ UniqueKeys(zone)
  BY ZonesAssumption DEF Init
<1>3. batch \in Seq(Endpoint)
  BY DEF Init
<1> QED
  BY <1>1, <1>2, <1>3 DEF Init, TypeOK

(* What PlanHost adds are changes of reported hosts that have addresses. *)
LEMMA PlannedType ==
    ASSUME NEW c, NEW h \in Hosts(batch), NEW type \in ManagedTypes,
           NEW d \in Planned(c, h, type)
    PROVE  /\ d.host = h /\ d.type = type
           /\ Addresses(batch, h, type) # {}
           /\ d = Change(batch, h, type)
BY DEF Planned, Change

(* A call keeps the types, whatever list it is made with. *)
LEMMA BeginType ==
    ASSUME TypeOK, NEW b \in Seq(Endpoint), Begin(b)
    PROVE  TypeOK'
BY DEF Begin, AfterName, TypeOK, config

(* Every variable keeps its type, one action at a time. *)
LEMMA TypeStep == TypeOK /\ [Next]_vars => TypeOK'
<1> SUFFICES ASSUME TypeOK, [Next]_vars PROVE TypeOK'
  OBVIOUS
<1> USE DEF config, call
<1>1. CASE UpdateForward
  BY <1>1, BeginType, BatchesAssumption DEF UpdateForward
<1>2. CASE ForwardDisabled
  BY <1>2 DEF ForwardDisabled, TypeOK
<1>3. CASE GetZoneName
  BY <1>3 DEF GetZoneName, AfterName, TypeOK
<1>4. CASE GetZoneNameFails
  BY <1>4 DEF GetZoneNameFails, TypeOK
<1>5. CASE CleanupListFails \/ NothingToClean
  BY <1>5 DEF CleanupListFails, NothingToClean, TypeOK
<1>6. CASE CleanPage \/ CleanPageFails
  <2>1. zone' \subseteq zone /\ pc' \in {"clean", "plan"}
    BY <1>6 DEF CleanPage, CleanPageFails
  <2>2. zone' \subseteq Record /\ UniqueKeys(zone')
    BY <2>1 DEF TypeOK, UniqueKeys
  <2> QED
    BY <1>6, <2>1, <2>2 DEF CleanPage, CleanPageFails, TypeOK
<1>7. ASSUME NEW h \in Host, PlanHost(h) PROVE TypeOK'
  <2> PICK c4 \in IF Addresses4(batch, h) # {} THEN CacheAfterLookup(cache) ELSE {cache} :
      \E c6 \in IF Addresses6(batch, h) # {} THEN CacheAfterLookup(c4) ELSE {c4} :
         /\ changes' = changes \cup Planned(c4, h, "A") \cup Planned(c6, h, "AAAA")
         /\ cache' = c6
    BY <1>7 DEF PlanHost
  <2>1. PICK c6 \in IF Addresses6(batch, h) # {} THEN CacheAfterLookup(c4) ELSE {c4} :
         /\ changes' = changes \cup Planned(c4, h, "A") \cup Planned(c6, h, "AAAA")
         /\ cache' = c6
    OBVIOUS
  <2>2. cache' \in {cache, zone, NoCache}
    BY <2>1 DEF CacheAfterLookup
  <2>3. h \in Hosts(batch)
    BY <1>7 DEF PlanHost, TypeOK
  <2>4. \A c \in changes' :
          /\ c.host \in Hosts(batch)
          /\ c.type \in ManagedTypes
          /\ Addresses(batch, c.host, c.type) # {}
          /\ c = Change(batch, c.host, c.type)
    BY <2>1, <2>3, PlannedType DEF TypeOK, ManagedTypes
  <2> QED
    BY <1>7, <2>2, <2>4 DEF PlanHost, TypeOK
<1>8. CASE NoForwardChanges
  BY <1>8 DEF NoForwardChanges, TypeOK
<1>9. CASE ChangesApplied \/ AnswerLost
  <2>1. /\ Acceptable(changes) /\ zone' = Upsert(zone, changes) /\ cache' = NoCache
        /\ pc' = "idle" /\ outcome' \in {"ok", "error"}
        /\ UNCHANGED <<config, nameKnown, batch, todo, changes>>
    BY <1>9 DEF ChangesApplied, AnswerLost, ApplyChanges
  <2>2. zone' \subseteq Record /\ UniqueKeys(zone')
    BY <2>1, UpsertType
  <2> QED
    BY <2>1, <2>2 DEF TypeOK
<1>10. CASE ChangesRefused
  BY <1>10 DEF ChangesRefused, ApplyChanges, TypeOK
<1>11. CASE CacheExpires
  BY <1>11 DEF CacheExpires, TypeOK
<1>12. CASE Restart
  BY <1>12 DEF Restart, TypeOK
<1>13. CASE UNCHANGED vars
  BY <1>13 DEF vars, TypeOK
<1> QED
  BY <1>1, <1>2, <1>3, <1>4, <1>5, <1>6, <1>7, <1>8, <1>9, <1>10, <1>11, <1>12, <1>13
     DEF Next

(* Every variable keeps its type, and the zone one record per name and type. *)
THEOREM TypeCorrect == SafeSpec => []TypeOK
BY TypeInit, TypeStep, PTL DEF SafeSpec

-------------------------------------------------------------------------------
(* A lookup leaves a coherent cache. *)
LEMMA LookupCoherent ==
    ASSUME TypeOK,
           NEW c, c # NoCache => zone \subseteq c /\ UniqueKeys(c) /\ (~clean => c = zone),
           NEW d \in CacheAfterLookup(c)
    PROVE  d # NoCache => zone \subseteq d /\ UniqueKeys(d) /\ (~clean => d = zone)
BY DEF CacheAfterLookup, TypeOK

(* Looking a record up in a coherent cache settles its host: either a      *)
(* change is planned, or the zone's A record has no address to be removed. *)
LEMMA PlanningSettles ==
    ASSUME TypeOK, NEW h \in Hosts(batch), NEW type \in ManagedTypes,
           NEW c, c = NoCache \/ c \subseteq Record,
           c # NoCache => zone \subseteq c /\ UniqueKeys(c) /\ (~clean => c = zone),
           Addresses(batch, h, type) # {},
           Planned(c, h, type) = {}
    PROVE  /\ type = "A"
           /\ \A r \in zone :
                 r.name = Fqdn[h] /\ r.type = "A" => r.values \subseteq Addresses4(batch, h)
           /\ ~clean => \E r \in zone : r.name = Fqdn[h] /\ r.type = "A"
<1>1. ~NeedsUpdate(c, h, type)
  BY DEF Planned
<1>2. PICK r \in Found(c, Fqdn[h], type) : r.values \subseteq Addresses4(batch, h)
  BY <1>1 DEF NeedsUpdate
<1>3. c # NoCache /\ r \in c /\ r.name = Fqdn[h] /\ r.type = type
  BY <1>2 DEF Found
<1>4. r \in Record
  BY <1>3
<1>5. type = "A"
  <2>1. r.values # {} /\ r.values \subseteq Values(type)
    BY <1>3, <1>4 DEF Record
  <2>2. r.values \subseteq V4
    BY <1>2, AddressesType DEF TypeOK
  <2>3. type = "AAAA" => Values(type) = V6
    BY DEF Values
  <2> QED
    BY <2>1, <2>2, <2>3, AddressAssumption DEF ManagedTypes
<1>6. \A q \in c : q.name = Fqdn[h] /\ q.type = "A" => q.values \subseteq Addresses4(batch, h)
  BY <1>1, <1>3, <1>5 DEF NeedsUpdate, Found
<1> QED
  BY <1>3, <1>5, <1>6

(* The plan of a host settles it and leaves what was settled before. *)
LEMMA PlanHostStep ==
    ASSUME TypeOK, ForwardInv, NEW h \in Host, PlanHost(h)
    PROVE  CacheCoherent' /\ PlanSettles'
<1> PICK c4 \in IF Addresses4(batch, h) # {} THEN CacheAfterLookup(cache) ELSE {cache} :
    \E c6 \in IF Addresses6(batch, h) # {} THEN CacheAfterLookup(c4) ELSE {c4} :
       /\ changes' = changes \cup Planned(c4, h, "A") \cup Planned(c6, h, "AAAA")
       /\ cache' = c6
  BY DEF PlanHost
<1>1. PICK c6 \in IF Addresses6(batch, h) # {} THEN CacheAfterLookup(c4) ELSE {c4} :
       /\ changes' = changes \cup Planned(c4, h, "A") \cup Planned(c6, h, "AAAA")
       /\ cache' = c6
  OBVIOUS
<1>2. /\ c4 # NoCache => zone \subseteq c4 /\ UniqueKeys(c4) /\ (~clean => c4 = zone)
      /\ c4 = NoCache \/ c4 \subseteq Record
  BY LookupCoherent DEF ForwardInv, CacheCoherent, CacheAfterLookup, TypeOK
<1>3. /\ c6 # NoCache => zone \subseteq c6 /\ UniqueKeys(c6) /\ (~clean => c6 = zone)
      /\ c6 = NoCache \/ c6 \subseteq Record
  BY <1>2, LookupCoherent DEF CacheAfterLookup, TypeOK
<1>4. UNCHANGED <<config, zone, batch>> /\ pc = "plan" /\ pc' = "plan"
      /\ h \in todo /\ todo' = todo \ {h}
  BY DEF PlanHost
<1>5. CacheCoherent'
  BY <1>1, <1>3, <1>4 DEF CacheCoherent, config
<1>6. h \in Hosts(batch)
  BY <1>4 DEF TypeOK
<1>7. ASSUME NEW g \in Hosts(batch') \ todo', NEW type \in ManagedTypes,
             (Addresses(batch, g, type) # {})'
      PROVE  Settled(g, type)'
  <2>1. Addresses(batch, g, type) # {} /\ g \in Hosts(batch)
    BY <1>4, <1>7
  <2>2. CASE g # h
    <3>1. Settled(g, type)
      BY <1>4, <1>7, <2>1, <2>2 DEF ForwardInv, PlanSettles
    <3> QED
      BY <1>1, <1>4, <3>1 DEF Settled, config
  <2>3. CASE g = h
    <3> DEFINE c == IF type = "A" THEN c4 ELSE c6
    <3>1. Planned(c, h, type) \subseteq changes'
      BY <1>1 DEF ManagedTypes
    <3>2. CASE Planned(c, h, type) = {}
      <4>1. /\ type = "A"
            /\ \A r \in zone :
                  r.name = Fqdn[h] /\ r.type = "A" => r.values \subseteq Addresses4(batch, h)
            /\ ~clean => \E r \in zone : r.name = Fqdn[h] /\ r.type = "A"
        BY <1>2, <1>3, <1>6, <2>1, <2>3, <3>2, PlanningSettles
      <4> QED
        BY <1>4, <2>3, <4>1 DEF Settled, config
    <3>3. CASE Planned(c, h, type) # {}
      <4>1. PICK d \in Planned(c, h, type) : TRUE
        BY <3>3
      <4>2. d \in changes' /\ d.host = h /\ d.type = type
        BY <1>6, <3>1, <4>1, PlannedType
      <4> QED
        BY <2>3, <4>2 DEF Settled
    <3> QED
      BY <3>2, <3>3
  <2> QED
    BY <2>2, <2>3
<1>8. PlanSettles'
  BY <1>7 DEF PlanSettles
<1> QED
  BY <1>5, <1>8

-------------------------------------------------------------------------------
(* A plan without changes already is what the promises ask for. *)
LEMMA NoChangesPromises ==
    ASSUME TypeOK, ForwardInv, NoForwardChanges
    PROVE  NoStaleAddress' /\ ReportedHostsHaveRecords' /\ AAAAIsExact'
<1>1. /\ pc = "plan" /\ todo = {} /\ changes = {}
      /\ UNCHANGED <<config, zone, batch>>
  BY DEF NoForwardChanges
<1>2. \A h \in Hosts(batch), type \in ManagedTypes :
          Addresses(batch, h, type) # {} =>
             /\ type = "A"
             /\ \A r \in zone :
                   r.name = Fqdn[h] /\ r.type = "A" => r.values \subseteq Addresses4(batch, h)
             /\ ~clean => \E r \in zone : r.name = Fqdn[h] /\ r.type = "A"
  BY <1>1 DEF ForwardInv, PlanSettles, Settled
<1>3. NoStaleAddress'
  BY <1>1, <1>2 DEF NoStaleAddress, config, Addresses
<1>4. ReportedHostsHaveRecords'
  BY <1>1, <1>2 DEF ReportedHostsHaveRecords, config
<1>5. AAAAIsExact'
  BY <1>1, <1>2 DEF AAAAIsExact, config, Addresses, ManagedTypes
<1> QED
  BY <1>3, <1>4, <1>5

(* The zone after the changes were applied. *)
LEMMA AppliedPromises ==
    ASSUME TypeOK, ForwardInv, ChangesApplied
    PROVE  NoStaleAddress' /\ ReportedHostsHaveRecords' /\ AAAAIsExact'
<1>1. /\ pc = "plan" /\ todo = {} /\ Acceptable(changes)
      /\ zone' = Upsert(zone, changes)
      /\ UNCHANGED <<config, batch>>
  BY DEF ChangesApplied, ApplyChanges
<1>2. \A h \in Hosts(batch), type \in ManagedTypes :
          Addresses(batch, h, type) # {} => Settled(h, type)
  BY <1>1 DEF ForwardInv, PlanSettles
<1>3. \A c \in changes :
          /\ c.host \in Hosts(batch) /\ c.type \in ManagedTypes
          /\ c.name = Fqdn[c.host] /\ c.values = Addresses(batch, c.host, c.type)
  BY DEF TypeOK, Change
(* A record of a host that shares its name with no other is the one its    *)
(* change made, or one the plan found nothing to remove from.              *)
<1>4. ASSUME NEW h \in Hosts(batch), NEW r \in zone', Distinct(h), r.name = Fqdn[h],
             r.type \in ManagedTypes, Addresses(batch, h, r.type) # {}
      PROVE  \/ r.values = Addresses(batch, h, r.type)
             \/ r.type = "A" /\ r.values \subseteq Addresses(batch, h, r.type)
  <2>1. CASE \E c \in changes : r = RecordOf(c)
    <3>1. PICK c \in changes : r = RecordOf(c)
      BY <2>1
    <3>2. c.name = Fqdn[h] /\ c.type = r.type /\ c.values = r.values
      BY <1>4, <3>1 DEF RecordOf
    <3>3. c.host = h
      BY <1>3, <1>4, <3>2 DEF Distinct
    <3> QED
      BY <1>3, <3>2, <3>3
  <2>2. CASE ~ \E c \in changes : r = RecordOf(c)
    <3>1. r \in zone /\ \A c \in changes : ~SameKey(r, c)
      BY <1>1, <2>2 DEF Upsert
    <3>2. ~ \E c \in changes : c.host = h /\ c.type = r.type
      BY <1>3, <1>4, <3>1 DEF SameKey
    <3>3. r.type = "A" /\ r.values \subseteq Addresses4(batch, h)
      BY <1>2, <1>4, <3>1, <3>2 DEF Settled
    <3> QED
      BY <3>3 DEF Addresses
  <2> QED
    BY <2>1, <2>2
<1>5. NoStaleAddress'
  <2> SUFFICES ASSUME NEW h \in Hosts(batch), NEW r \in zone', Distinct(h), r.name = Fqdn[h],
                      r.type \in ManagedTypes, Addresses(batch, h, r.type) # {}
               PROVE  r.values \subseteq Addresses(batch, h, r.type)
    BY <1>1 DEF NoStaleAddress, Distinct
  <2> QED
    BY <1>4
<1>6. AAAAIsExact'
  <2> SUFFICES ASSUME NEW h \in Hosts(batch), NEW r \in zone', Distinct(h), r.name = Fqdn[h],
                      r.type = "AAAA", Addresses6(batch, h) # {}
               PROVE  r.values = Addresses6(batch, h)
    BY <1>1 DEF AAAAIsExact, Distinct
  <2>1. Addresses(batch, h, r.type) = Addresses6(batch, h) /\ r.type \in ManagedTypes
    BY DEF Addresses, ManagedTypes
  <2> QED
    BY <1>4, <2>1
<1>7. ReportedHostsHaveRecords'
  <2> SUFFICES ASSUME ~clean, NEW h \in Hosts(batch), NEW type \in ManagedTypes,
                      Addresses(batch, h, type) # {}
               PROVE  \E r \in zone' : r.name = Fqdn[h] /\ r.type = type
    BY <1>1 DEF ReportedHostsHaveRecords, config
  <2>1. CASE \E c \in changes : c.host = h /\ c.type = type
    <3>1. PICK c \in changes : c.host = h /\ c.type = type
      BY <2>1
    <3>2. RecordOf(c) \in zone' /\ RecordOf(c).name = Fqdn[h] /\ RecordOf(c).type = type
      BY <1>1, <1>3, <3>1 DEF Upsert, RecordOf
    <3> QED
      BY <3>2
  <2>2. CASE ~ \E c \in changes : c.host = h /\ c.type = type
    <3>1. PICK r \in zone : r.name = Fqdn[h] /\ r.type = type
      BY <1>2, <2>2 DEF Settled
    <3>2. CASE \E c \in changes : SameKey(r, c)
      <4>1. PICK c \in changes : SameKey(r, c)
        BY <3>2
      <4>2. RecordOf(c) \in zone' /\ RecordOf(c).name = Fqdn[h] /\ RecordOf(c).type = type
        BY <1>1, <3>1, <4>1 DEF Upsert, RecordOf, SameKey
      <4> QED
        BY <4>2
    <3>3. CASE ~ \E c \in changes : SameKey(r, c)
      <4>1. r \in zone'
        BY <1>1, <3>3 DEF Upsert
      <4> QED
        BY <3>1, <4>1
    <3> QED
      BY <3>2, <3>3
  <2> QED
    BY <2>1, <2>2
<1> QED
  BY <1>5, <1>6, <1>7

(* A new provider has cached and promised nothing. *)
LEMMA InvInit == Init => ForwardInv
BY DEF Init, ForwardInv, CacheCoherent, PlanSettles, NothingYet, PhaseMatchesConfig,
       NoStaleAddress, ReportedHostsHaveRecords, AAAAIsExact

(* A call has planned nothing yet, whatever list it is made with. *)
LEMMA BeginInv ==
    ASSUME TypeOK, ForwardInv, NEW b, Begin(b)
    PROVE  ForwardInv'
<1>1. pc' # "idle"
  BY DEF Begin, AfterName
<1> QED
  BY <1>1 DEF Begin, AfterName, config, ForwardInv, CacheCoherent, PlanSettles, NothingYet,
              PhaseMatchesConfig, NoStaleAddress, ReportedHostsHaveRecords, AAAAIsExact, TypeOK

(* Each step keeps the cache coherent and what the plan settled. *)
LEMMA InvStep == TypeOK /\ ForwardInv /\ [Next]_vars => ForwardInv'
<1> SUFFICES ASSUME TypeOK, ForwardInv, [Next]_vars PROVE ForwardInv'
  OBVIOUS
<1> DEFINE Promises == NoStaleAddress /\ ReportedHostsHaveRecords /\ AAAAIsExact
(* The promises concern idle calls that returned no error only. *)
<1>1. ASSUME pc' # "idle" \/ outcome' # "ok" \/ ~enabled' PROVE Promises'
  BY <1>1 DEF NoStaleAddress, ReportedHostsHaveRecords, AAAAIsExact
<1>2. ASSUME UNCHANGED <<config, zone, pc, batch, outcome>> PROVE Promises'
  <2>1. (NoStaleAddress = NoStaleAddress') /\ (AAAAIsExact = AAAAIsExact')
    BY <1>2 DEF NoStaleAddress, AAAAIsExact, Distinct, config
  <2>2. ReportedHostsHaveRecords = ReportedHostsHaveRecords'
    BY <1>2 DEF ReportedHostsHaveRecords, config
  <2> QED
    BY <2>1, <2>2 DEF ForwardInv
<1> HIDE DEF Promises
<1> SUFFICES CacheCoherent' /\ PlanSettles' /\ NothingYet' /\ PhaseMatchesConfig' /\ Promises'
  BY DEF ForwardInv, Promises
<1> USE DEF config, call
<1>3. CASE UpdateForward
  BY <1>3, BeginInv DEF UpdateForward, ForwardInv, Promises
<1>4. CASE ForwardDisabled
  BY <1>1, <1>4 DEF ForwardDisabled, ForwardInv, CacheCoherent, PlanSettles, NothingYet,
                    PhaseMatchesConfig
<1>5. CASE GetZoneName
  BY <1>1, <1>5 DEF GetZoneName, AfterName, ForwardInv, CacheCoherent, PlanSettles, NothingYet,
                    PhaseMatchesConfig, TypeOK
<1>6. CASE GetZoneNameFails
  BY <1>1, <1>6 DEF GetZoneNameFails, ForwardInv, CacheCoherent, PlanSettles, NothingYet,
                    PhaseMatchesConfig
<1>7. CASE CleanupListFails \/ NothingToClean
  BY <1>1, <1>7 DEF CleanupListFails, NothingToClean, ForwardInv, CacheCoherent, PlanSettles,
                    NothingYet, PhaseMatchesConfig
<1>8. CASE CleanPage \/ CleanPageFails
  <2>1. /\ pc = "clean" /\ pc' \in {"clean", "plan"} /\ zone' \subseteq zone
        /\ UNCHANGED <<config, cache, batch, todo, changes, outcome>>
    BY <1>8 DEF CleanPage, CleanPageFails
  <2>2. clean /\ todo = Hosts(batch) /\ enabled /\ changes = {}
    BY <2>1 DEF ForwardInv, NothingYet, PhaseMatchesConfig
  <2> QED
    BY <1>1, <2>1, <2>2 DEF ForwardInv, CacheCoherent, PlanSettles, NothingYet,
                            PhaseMatchesConfig
<1>9. ASSUME NEW h \in Host, PlanHost(h) PROVE ForwardInv'
  <2>1. CacheCoherent' /\ PlanSettles'
    BY <1>9, PlanHostStep
  <2>2. pc = "plan" /\ pc' = "plan" /\ UNCHANGED config
    BY <1>9 DEF PlanHost
  <2> QED
    BY <1>1, <2>1, <2>2 DEF ForwardInv, NothingYet, PhaseMatchesConfig, Promises
<1>10. CASE NoForwardChanges
  <2>1. Promises'
    BY <1>10, NoChangesPromises DEF Promises
  <2> QED
    BY <1>10, <2>1 DEF NoForwardChanges, ForwardInv, CacheCoherent, PlanSettles, NothingYet,
                       PhaseMatchesConfig
<1>11. CASE ChangesApplied
  <2>1. Promises'
    BY <1>11, AppliedPromises DEF Promises
  <2> QED
    BY <1>11, <2>1 DEF ChangesApplied, ApplyChanges, CacheCoherent, PlanSettles, NothingYet,
                       PhaseMatchesConfig
<1>12. CASE ChangesRefused \/ AnswerLost
  BY <1>1, <1>12 DEF ChangesRefused, AnswerLost, ApplyChanges, CacheCoherent, PlanSettles,
                     NothingYet, PhaseMatchesConfig
<1>13. CASE CacheExpires
  BY <1>2, <1>13 DEF CacheExpires, ForwardInv, CacheCoherent, PlanSettles, Settled, NothingYet,
                     PhaseMatchesConfig
<1>14. CASE Restart
  BY <1>1, <1>14 DEF Restart, CacheCoherent, PlanSettles, NothingYet, PhaseMatchesConfig
<1>15. CASE UNCHANGED vars
  BY <1>2, <1>15 DEF vars, ForwardInv, CacheCoherent, PlanSettles, Settled, NothingYet,
                     PhaseMatchesConfig
<1> QED
  BY <1>3, <1>4, <1>5, <1>6, <1>7, <1>8, <1>9, <1>10, <1>11, <1>12, <1>13, <1>14, <1>15
     DEF Next, ForwardInv, Promises

(* The inductive invariant holds in every behaviour. *)
THEOREM InvCorrect == SafeSpec => []ForwardInv
BY TypeInit, TypeStep, InvInit, InvStep, PTL DEF SafeSpec

(* The cache never hides a record of the zone, and is the zone unless it   *)
(* is cleaned: whatever fails, is lost or restarted.                       *)
THEOREM CacheCoherentHolds == SafeSpec => []CacheCoherent
<1>1. ForwardInv => CacheCoherent
  BY DEF ForwardInv
<1> QED
  BY <1>1, InvCorrect, PTL

(* A call that returns no error leaves no reported host an old address.    *)
THEOREM NoStaleAddressHolds == SafeSpec => []NoStaleAddress
<1>1. ForwardInv => NoStaleAddress
  BY DEF ForwardInv
<1> QED
  BY <1>1, InvCorrect, PTL

(* Without cleanup every reported host has its records after such a call.  *)
THEOREM ReportedHostsHaveRecordsHolds == SafeSpec => []ReportedHostsHaveRecords
<1>1. ForwardInv => ReportedHostsHaveRecords
  BY DEF ForwardInv
<1> QED
  BY <1>1, InvCorrect, PTL

(* AAAA records are exactly what was reported after such a call.           *)
THEOREM AAAAIsExactHolds == SafeSpec => []AAAAIsExact
<1>1. ForwardInv => AAAAIsExact
  BY DEF ForwardInv
<1> QED
  BY <1>1, InvCorrect, PTL

(* The actions that leave the zone alone. *)
LEMMA ZoneSteps ==
    ASSUME [Next]_vars, zone' # zone
    PROVE  CleanPage \/ CleanPageFails \/ ChangesApplied \/ AnswerLost
BY DEF Next, vars, config, call, UpdateForward, Begin, ForwardDisabled, GetZoneName,
       GetZoneNameFails, CleanupListFails, NothingToClean, PlanHost, NoForwardChanges,
       ChangesRefused, ApplyChanges, CacheExpires, Restart

(* The zone only gains records of reported hosts and, without cleanup,     *)
(* only loses records to their successors.                                 *)
THEOREM WritesOnlyReportsHolds == SafeSpec => WritesOnlyReports
<1> DEFINE A == /\ \A r \in zone' \ zone : \E h \in Hosts(batch) :
                      r.type \in ManagedTypes /\ r = RecordOf(Change(batch, h, r.type))
                /\ \A r \in zone \ zone' : r.type \in ManagedTypes
                /\ ~clean => \A r \in zone \ zone' : \E s \in zone' : SameKey(r, s)
<1>1. ASSUME TypeOK, ForwardInv, [Next]_vars PROVE A
  <2>1. CASE zone' = zone
    BY <2>1
  <2>2. CASE CleanPage \/ CleanPageFails
    BY <1>1, <2>2 DEF CleanPage, CleanPageFails, ForwardInv, PhaseMatchesConfig, Doomed, Cleanable
  <2>3. CASE ChangesApplied \/ AnswerLost
    <3>1. zone' = Upsert(zone, changes)
      BY <2>3 DEF ChangesApplied, AnswerLost, ApplyChanges
    <3>2. ASSUME NEW r \in zone' \ zone
          PROVE  \E h \in Hosts(batch) :
                    r.type \in ManagedTypes /\ r = RecordOf(Change(batch, h, r.type))
      <4>1. PICK c \in changes : r = RecordOf(c)
        BY <3>1, <3>2 DEF Upsert
      <4>2. /\ c.host \in Hosts(batch) /\ c.type \in ManagedTypes
            /\ c = Change(batch, c.host, c.type)
        BY <1>1 DEF TypeOK
      <4>3. r.type = c.type
        BY <4>1 DEF RecordOf
      <4> QED
        BY <4>1, <4>2, <4>3
    <3>3. ASSUME NEW r \in zone \ zone'
          PROVE  r.type \in ManagedTypes /\ \E s \in zone' : SameKey(r, s)
      <4>1. PICK c \in changes : SameKey(r, c)
        BY <3>1, <3>3 DEF Upsert
      <4>3. r.type \in ManagedTypes
        BY <4>1, <1>1 DEF SameKey, TypeOK
      <4>2. RecordOf(c) \in zone' /\ SameKey(r, RecordOf(c))
        BY <3>1, <4>1 DEF Upsert, RecordOf, SameKey
      <4> QED
        BY <4>2, <4>3
    <3> QED
      BY <3>2, <3>3
  <2> QED
    BY <1>1, <2>1, <2>2, <2>3, ZoneSteps
<1>2. TypeOK /\ ForwardInv /\ [Next]_vars => [A]_vars
  BY <1>1
<1> QED
  BY <1>2, TypeCorrect, InvCorrect, PTL DEF SafeSpec, WritesOnlyReports

-------------------------------------------------------------------------------
(* The composition with the control loop (ForwardSync), for any number of  *)
(* sources and any answers.  What ControllerProofs shows of a loop holds   *)
(* of this one, whose provider is Route53.                                 *)
LoopProofs == INSTANCE ControllerProofs WITH
    pc <- loop, NProviders <- 1, OnceModes <- {FALSE}, DryRunModes <- {FALSE}

(* The assumptions of Controller. *)
LEMMA LoopAssumptions ==
    /\ NSources \in Nat /\ 1 \in Nat
    /\ Answers \subseteq Seq(Endpoint \cup {NilEndpoint})
    /\ NilEndpoint \notin Endpoint
    /\ Nothing \notin Seq(LoopProofs!Tagged)
    /\ Interval \in Nat /\ TickPeriod \in Nat \ {0}
    /\ {FALSE} \subseteq BOOLEAN
    /\ MaxKills \in Nat
BY SourcesAssumption, ReportedAssumption, NilEndpointAssumption, NothingHeldAssumption,
   LoopTimeAssumption, LoopKillsAssumption
   DEF Loop!Tagged, Loop!Source, LoopProofs!Tagged, LoopProofs!Source

(* A step of the composition is a step of the loop, or the loop waits. *)
LEMMA LoopStep == [SyncNext]_syncVars => [Loop!Next]_(Loop!vars)
<1> SUFFICES ASSUME [SyncNext]_syncVars PROVE [Loop!Next]_(Loop!vars)
  OBVIOUS
<1>1. ASSUME UNCHANGED loopVars PROVE UNCHANGED Loop!vars
  BY <1>1 DEF loopVars, Loop!vars, Loop!flags, Loop!run, Loop!clock, Loop!metrics
<1>2. CASE SourceReturns
  BY <1>2 DEF SourceReturns, Loop!Next
<1>3. CASE LoopGoesOn
  BY <1>3 DEF LoopGoesOn, Loop!Local, Loop!Next
<1>4. CASE TakeTick \/ TakeDone \/ TimePasses \/ Terminated
  BY <1>4 DEF TakeTick, TakeDone, TimePasses, Terminated, Loop!Next
<1>5. CASE Disturbed
  BY <1>5 DEF Disturbed, Loop!Next
<1>6. CASE ProviderReturns
  BY <1>6 DEF ProviderReturns, Loop!Next
<1>7. CASE ProcessRestarts
  BY <1>7 DEF ProcessRestarts, Loop!Next
<1>8. CASE UpdateEndpoints \/ ProviderGoesOn \/ EntryExpires \/ Settle
  BY <1>1, <1>8 DEF UpdateEndpoints, ProviderGoesOn, EntryExpires, Settle
<1>9. CASE UNCHANGED syncVars
  BY <1>1, <1>9 DEF syncVars
<1> QED
  BY <1>2, <1>3, <1>4, <1>5, <1>6, <1>7, <1>8, <1>9 DEF SyncNext

(* The composition is the loop of Controller with one provider: what holds *)
(* of every such loop holds of this one.                                   *)
THEOREM ComposedLoop == SyncSafeSpec => Loop!SafeSpec
<1>1. SyncInit => Loop!Init
  BY DEF SyncInit
<1> QED
  BY <1>1, LoopStep, PTL DEF SyncSafeSpec, Loop!SafeSpec

(* Loop and LoopProofs instantiate the same definitions. *)
LEMMA SameInit == Loop!Init => LoopProofs!Init
BY DEF Loop!Init, Loop!Booted, Loop!Source, Loop!Provider,
       LoopProofs!Init, LoopProofs!Booted, LoopProofs!Source, LoopProofs!Provider

LEMMA SameNext == [Loop!Next]_(Loop!vars) => [LoopProofs!Next]_(LoopProofs!vars)
<1> USE DEF Loop!vars, Loop!flags, Loop!run, Loop!clock, Loop!metrics, Loop!Source,
            Loop!Provider, Loop!Down, Loop!errored, Loop!Status, Loop!AfterRun,
            Loop!MainReturns, Loop!Booted, Loop!Tag
<1> USE DEF LoopProofs!vars, LoopProofs!flags, LoopProofs!run, LoopProofs!clock,
            LoopProofs!metrics, LoopProofs!Source, LoopProofs!Provider, LoopProofs!Down,
            LoopProofs!errored, LoopProofs!Status, LoopProofs!AfterRun,
            LoopProofs!MainReturns, LoopProofs!Booted, LoopProofs!Tag
<1> QED
  BY DEF Loop!Next, Loop!ShouldRun, Loop!StartRun, Loop!ShouldNotRun, Loop!SourceAnswers,
         Loop!Gather, Loop!SourceAnswersNil, Loop!SourceFails, Loop!Bail, Loop!BailWith,
         Loop!Publish, Loop!CallProviders, Loop!SkipPublish, Loop!ProviderSucceeds,
         Loop!ProviderFails, Loop!ProviderUpdates, Loop!FinishRun, Loop!TakeTick,
         Loop!TakeDone, Loop!LeaveLoop, Loop!TimePasses, Loop!Sigterm, Loop!Kill,
         Loop!Restart, Loop!Terminated,
         LoopProofs!Next, LoopProofs!ShouldRun, LoopProofs!StartRun,
         LoopProofs!ShouldNotRun, LoopProofs!SourceAnswers, LoopProofs!Gather,
         LoopProofs!SourceAnswersNil, LoopProofs!SourceFails, LoopProofs!Bail,
         LoopProofs!BailWith, LoopProofs!Publish, LoopProofs!CallProviders,
         LoopProofs!SkipPublish, LoopProofs!ProviderSucceeds, LoopProofs!ProviderFails,
         LoopProofs!ProviderUpdates, LoopProofs!FinishRun, LoopProofs!TakeTick,
         LoopProofs!TakeDone, LoopProofs!LeaveLoop, LoopProofs!TimePasses,
         LoopProofs!Sigterm, LoopProofs!Kill, LoopProofs!Restart, LoopProofs!Terminated

(* The invariants of the loop, which hold of its specification. *)
LEMMA LoopInvariants ==
    SyncSafeSpec => [](LoopProofs!TypeOK /\ LoopProofs!ProviderPhase /\ LoopProofs!BatchIsWhole)
<1>1. SyncSafeSpec => LoopProofs!SafeSpec
  BY ComposedLoop, SameInit, SameNext, PTL DEF Loop!SafeSpec, LoopProofs!SafeSpec
<1>2. LoopProofs!SafeSpec => []LoopProofs!TypeOK
  BY LoopAssumptions, LoopProofs!TypeCorrect
<1>3. LoopProofs!SafeSpec => []LoopProofs!ControllerInv
  BY LoopAssumptions, LoopProofs!InvCorrect
<1>4. LoopProofs!SafeSpec => []LoopProofs!BatchIsWhole
  BY LoopAssumptions, LoopProofs!BatchIsWholeHolds
<1>5. LoopProofs!ControllerInv => LoopProofs!ProviderPhase
  BY DEF LoopProofs!ControllerInv
<1> QED
  BY <1>1, <1>2, <1>3, <1>4, <1>5, PTL

(* A step of the composition is a call of UpdateForward with the list of   *)
(* this run, a step of the provider, or it leaves the provider alone.      *)
LEMMA ProviderStep ==
    [SyncNext]_syncVars => (loop = "provider" /\ Begin(Untagged)) \/ [Next]_vars
BY DEF SyncNext, syncVars, SourceReturns, LoopGoesOn, TakeTick, TakeDone, TimePasses,
       Disturbed, UpdateEndpoints, Waiting, ProviderGoesOn, ProviderReturns, EntryExpires,
       ProcessRestarts, Settle, Terminated, Next

(* Of a whole list, as the loop hands it over, the provider groups by host *)
(* what the sources answered for that host.                                *)
LEMMA UntaggedType ==
    ASSUME LoopProofs!TypeOK
    PROVE  Untagged \in Seq(Endpoint)
<1>1. endpoints \in Seq(LoopProofs!Tagged)
  BY DEF LoopProofs!TypeOK
<1>2. ASSUME NEW k \in 1..Len(endpoints) PROVE endpoints[k].endpoint \in Endpoint
  <2>1. endpoints[k] \in LoopProofs!Tagged
    BY <1>1
  <2> QED
    BY <2>1 DEF LoopProofs!Tagged
<1>3. DOMAIN endpoints = 1..Len(endpoints) /\ Len(endpoints) \in Nat
  BY <1>1
<1> QED
  BY <1>2, <1>3 DEF Untagged

LEMMA GroupedAsTold ==
    ASSUME LoopProofs!TypeOK, LoopProofs!BatchIsWhole, loop = "provider",
           NEW h \in Host, NEW type \in ManagedTypes
    PROVE  Addresses(Untagged, h, type) = Told(h, type)
<1> DEFINE Family(e) == IF type = "A" THEN e.v4 ELSE e.v6
<1>1. /\ DOMAIN endpoints = 1..Len(endpoints) /\ Len(endpoints) \in Nat
      /\ answers \in [1..NSources -> Seq(Endpoint)]
  BY DEF LoopProofs!TypeOK, LoopProofs!Source
<1>2. \A k \in DOMAIN endpoints : endpoints[k].source \in 1..NSources
  BY DEF LoopProofs!BatchIsWhole, LoopProofs!Source
<1>3. ASSUME NEW s \in 1..NSources
      PROVE  \E before \in 0..Len(endpoints) :
                /\ \A k \in DOMAIN endpoints : endpoints[k].source = s
                      <=> k \in before + 1..before + Len(answers[s])
                /\ \A k \in DOMAIN answers[s] :
                      /\ before + k \in DOMAIN endpoints
                      /\ endpoints[before + k].endpoint = answers[s][k]
  <2>1. LoopProofs!Included(s)
    BY DEF LoopProofs!BatchIsWhole, LoopProofs!Source
  <2> QED
    BY <2>1 DEF LoopProofs!Included
<1>4. ASSUME NEW s \in 1..NSources
      PROVE  DOMAIN answers[s] = 1..Len(answers[s]) /\ Len(answers[s]) \in Nat
  BY <1>1
<1>5. Addresses(Untagged, h, type) =
        UNION {Family(endpoints[k].endpoint) :
                 k \in {j \in DOMAIN endpoints : endpoints[j].endpoint.host = h}}
  BY DEF Addresses, Addresses4, Addresses6, For, Untagged
<1>6. Told(h, type) =
        UNION {UNION {Family(answers[s][k]) :
                        k \in {j \in DOMAIN answers[s] : answers[s][j].host = h}} :
               s \in 1..NSources}
  BY DEF Told
<1> HIDE DEF Family
<1>7. ASSUME NEW k \in DOMAIN endpoints, endpoints[k].endpoint.host = h
      PROVE  \E s \in 1..NSources : \E j \in DOMAIN answers[s] :
                answers[s][j].host = h /\ answers[s][j] = endpoints[k].endpoint
  <2> DEFINE s == endpoints[k].source
  <2>1. s \in 1..NSources
    BY <1>2
  <2> HIDE DEF s
  <2>2. PICK before \in 0..Len(endpoints) :
           /\ \A i \in DOMAIN endpoints : endpoints[i].source = s
                 <=> i \in before + 1..before + Len(answers[s])
           /\ \A j \in DOMAIN answers[s] :
                 /\ before + j \in DOMAIN endpoints
                 /\ endpoints[before + j].endpoint = answers[s][j]
    BY <1>3, <2>1
  <2>3. k \in before + 1..before + Len(answers[s])
    BY <2>2 DEF s
  <2>4. k - before \in DOMAIN answers[s] /\ before + (k - before) = k
    BY <1>1, <1>4, <2>1, <2>3
  <2>5. endpoints[k].endpoint = answers[s][k - before]
    BY <2>2, <2>4
  <2> QED
    BY <1>7, <2>1, <2>4, <2>5
<1>8. ASSUME NEW s \in 1..NSources, NEW j \in DOMAIN answers[s], answers[s][j].host = h
      PROVE  \E k \in DOMAIN endpoints :
                endpoints[k].endpoint.host = h /\ endpoints[k].endpoint = answers[s][j]
  <2>1. PICK before \in 0..Len(endpoints) :
           /\ \A i \in DOMAIN endpoints : endpoints[i].source = s
                 <=> i \in before + 1..before + Len(answers[s])
           /\ \A i \in DOMAIN answers[s] :
                 /\ before + i \in DOMAIN endpoints
                 /\ endpoints[before + i].endpoint = answers[s][i]
    BY <1>3
  <2>2. before + j \in DOMAIN endpoints /\ endpoints[before + j].endpoint = answers[s][j]
    BY <2>1
  <2> QED
    BY <1>8, <2>2
<1> QED
  BY <1>5, <1>6, <1>7, <1>8

(* What of the provider is in progress belongs to the run in progress. *)
LEMMA ServingStep ==
    LoopProofs!TypeOK /\ Serving /\ [SyncNext]_syncVars => Serving'
<1> SUFFICES ASSUME LoopProofs!TypeOK, Serving, [SyncNext]_syncVars PROVE Serving'
  OBVIOUS
<1> USE DEF Serving, Waiting, Untagged
<1>1. CASE SourceReturns
  BY <1>1 DEF SourceReturns, vars, call, Loop!SourceAnswers, Loop!Gather,
              Loop!SourceAnswersNil, Loop!SourceFails
<1>2. CASE LoopGoesOn
  BY <1>2 DEF LoopGoesOn, vars, call, Loop!Local, Loop!ShouldRun, Loop!StartRun,
              Loop!ShouldNotRun, Loop!Bail, Loop!BailWith, Loop!Publish, Loop!CallProviders,
              Loop!SkipPublish, Loop!FinishRun, Loop!Provider
<1>3. CASE TakeTick \/ TakeDone \/ TimePasses \/ Terminated
  BY <1>3 DEF TakeTick, TakeDone, TimePasses, Terminated, vars, call, Loop!TakeTick,
              Loop!TakeDone, Loop!LeaveLoop, Loop!TimePasses, Loop!Terminated, Loop!run,
              Loop!vars
<1>4. CASE Disturbed
  BY <1>4 DEF Disturbed, vars, call, Loop!Sigterm, Loop!Kill, Loop!run
<1>5. CASE UpdateEndpoints
  BY <1>5 DEF UpdateEndpoints, Begin, loopVars
<1>6. CASE ProviderGoesOn
  BY <1>6 DEF ProviderGoesOn, GetZoneName, NothingToClean, CleanPage, PlanHost,
              CleanupListFails, CleanPageFails, loopVars
<1>7. CASE ProviderReturns
  BY <1>7 DEF ProviderReturns, ForwardDisabled, NoForwardChanges, ChangesApplied,
              ChangesRefused, GetZoneNameFails, AnswerLost, ApplyChanges
<1>8. CASE EntryExpires \/ Settle
  BY <1>8 DEF EntryExpires, Settle, CacheExpires, vars, call, loopVars
<1>9. CASE ProcessRestarts
  BY <1>9 DEF ProcessRestarts, Restart
<1>10. CASE UNCHANGED syncVars
  BY <1>10 DEF syncVars, loopVars, vars, call
<1> QED
  BY <1>1, <1>2, <1>3, <1>4, <1>5, <1>6, <1>7, <1>8, <1>9, <1>10 DEF SyncNext

(* The provider keeps its promises when it is this loop that calls it.     *)
THEOREM ComposedProvider == SyncSafeSpec => [](TypeOK /\ ForwardInv /\ Serving)
<1>1. SyncInit => TypeOK /\ ForwardInv /\ Serving
  BY TypeInit, InvInit DEF SyncInit, Init, Serving
<1>2. LoopProofs!TypeOK /\ TypeOK /\ ForwardInv /\ Serving /\ [SyncNext]_syncVars
        => TypeOK' /\ ForwardInv' /\ Serving'
  BY ProviderStep, UntaggedType, TypeStep, InvStep, BeginType, BeginInv, ServingStep
<1> QED
  BY <1>1, <1>2, LoopInvariants, PTL DEF SyncSafeSpec

(* The zone changes only in runs all sources of which answered, and what   *)
(* is written is what they answered for a host: all of it, nothing else.   *)
THEOREM ZoneTellsTheSourcesHolds == SyncSafeSpec => ZoneTellsTheSources
<1> DEFINE LoopInv == LoopProofs!TypeOK /\ LoopProofs!ProviderPhase /\ LoopProofs!BatchIsWhole
           A == zone' # zone =>
                  /\ failedSources = {}
                  /\ \A s \in 1..NSources : sourceUp[s] = "up"
                  /\ \A r \in zone' \ zone :
                        \E h \in Host : r.name = Fqdn[h] /\ r.values = Told(h, r.type)
<1>1. ASSUME LoopInv, TypeOK, Serving, [SyncNext]_syncVars, zone' # zone PROVE A
  <2>1. Waiting /\ pc # "idle"
    BY <1>1 DEF SyncNext, syncVars, vars, SourceReturns, LoopGoesOn, TakeTick, TakeDone,
                TimePasses, Disturbed, UpdateEndpoints, Begin, ProviderGoesOn,
                ProviderReturns, ForwardDisabled, GetZoneName, GetZoneNameFails,
                NothingToClean, CleanPage, CleanPageFails, CleanupListFails, PlanHost,
                NoForwardChanges, ChangesApplied, ChangesRefused, AnswerLost, ApplyChanges,
                EntryExpires, CacheExpires, ProcessRestarts, Restart, Settle, Terminated
  <2>2. batch = Untagged /\ loop = "provider"
    BY <1>1, <2>1 DEF Serving, Waiting
  <2>3. failedSources = {} /\ \A s \in 1..NSources : sourceUp[s] = "up"
    BY <1>1, <2>2 DEF LoopProofs!ProviderPhase, LoopProofs!Source
  <2>4. CleanPage \/ CleanPageFails \/ ChangesApplied \/ AnswerLost
    BY <1>1, <2>1, ProviderStep, ZoneSteps DEF Begin
  <2>5. zone' \subseteq zone \/ zone' = Upsert(zone, changes)
    BY <2>4 DEF CleanPage, CleanPageFails, ChangesApplied, AnswerLost, ApplyChanges
  <2>6. ASSUME NEW r \in zone' \ zone
        PROVE  \E h \in Host : r.name = Fqdn[h] /\ r.values = Told(h, r.type)
    <3>1. PICK c \in changes : r = RecordOf(c)
      BY <2>5, <2>6 DEF Upsert
    <3>2. /\ c.host \in Hosts(batch) /\ c.type \in ManagedTypes
          /\ c = Change(batch, c.host, c.type)
      BY <1>1 DEF TypeOK
    <3>3. c.host \in Host
      BY <1>1, <3>2, HostsType DEF TypeOK
    <3>4. /\ r.type = c.type /\ r.name = Fqdn[c.host]
          /\ r.values = Addresses(Untagged, c.host, c.type)
      BY <2>2, <3>1, <3>2 DEF RecordOf, Change
    <3>5. Addresses(Untagged, c.host, c.type) = Told(c.host, c.type)
      BY <1>1, <2>2, <3>2, <3>3, GroupedAsTold
    <3> QED
      BY <3>3, <3>4, <3>5
  <2> QED
    BY <2>3, <2>6
<1>2. LoopInv /\ TypeOK /\ Serving /\ [SyncNext]_syncVars => [A]_syncVars
  BY <1>1
<1> QED
  BY <1>2, LoopInvariants, ComposedProvider, PTL DEF SyncSafeSpec, ZoneTellsTheSources
===============================================================================
