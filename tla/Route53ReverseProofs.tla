------------------------- MODULE Route53ReverseProofs --------------------------
(***************************************************************************)
(* What Route53Reverse promises for any endpoints, zones, pages and        *)
(* configurations.                                                         *)
(*                                                                         *)
(* The plan of a zone is a value, so most of the argument is about it: of  *)
(* the claims to a name that fits, the first registers it (FirstRegisters),*)
(* and only one does (OneRegisters).  The invariant then says which zones  *)
(* a call is done with, and that nothing disturbs them until the next.     *)
(***************************************************************************)
EXTENDS Route53Reverse, WellFoundedInduction, TLAPS

(* A set of numbers has a least one. *)
LEMMA LeastOf ==
    ASSUME NEW T, T \subseteq Nat, T # {}
    PROVE  \E x \in T : \A y \in T : x <= y
<1> DEFINE R == OpToRel(<, Nat)
<1>1. IsWellFoundedOn(R, Nat)
    BY NatLessThanWellFounded
<1>2. \A x, y \in Nat : x < y => <<x, y>> \in R
    BY DEF OpToRel
<1> HIDE DEF R
<1>3. PICK x \in T : \A y \in T : ~ (<<y, x>> \in R)
    BY <1>1, WFMin
<1>4. ASSUME NEW y \in T PROVE x <= y
    <2>1. x \in Nat /\ y \in Nat
        OBVIOUS
    <2>2. ~(y < x)
        BY <1>2, <1>3, <2>1
    <2> QED
        BY <2>1, <2>2
<1> QED
    BY <1>4

(* A set of pairs of numbers has a first one. *)
LEMMA FirstOf ==
    ASSUME NEW T, T \subseteq Nat \X Nat, T # {}
    PROVE  \E c \in T : \A d \in T : ~Earlier(d, c)
<1> DEFINE L == {c[1] : c \in T}
<1>1. L \subseteq Nat /\ L # {}
    OBVIOUS
<1>2. PICK l \in L : \A y \in L : l <= y
    BY <1>1, LeastOf
<1> DEFINE K == {c[2] : c \in {d \in T : d[1] = l}}
<1>3. K \subseteq Nat /\ K # {}
    BY <1>2
<1>4. PICK k \in K : \A y \in K : k <= y
    BY <1>3, LeastOf
<1>5. PICK c \in T : c[1] = l /\ c[2] = k
    BY <1>4
<1>6. ASSUME NEW d \in T PROVE ~Earlier(d, c)
    <2>1. d[1] \in L /\ (d[1] = l => d[2] \in K)
        OBVIOUS
    <2>2. l <= d[1] /\ (d[1] = l => k <= d[2])
        BY <1>2, <1>4, <2>1
    <2>3. d[1] \in Nat /\ d[2] \in Nat /\ l \in Nat /\ k \in Nat
        BY <1>1, <1>3
    <2> QED
        BY <1>5, <2>2, <2>3 DEF Earlier
<1> QED
    BY <1>6

(* Claims are pairs of numbers, and one of two is the earlier. *)
LEMMA ClaimType ==
    ASSUME NEW b \in Batches \cup {<<>>}, NEW f \in Kind
    PROVE  /\ Claim(b, f) \subseteq Nat \X Nat
           /\ \A c \in Claim(b, f) : c[2] >= 1
           /\ \A c, d \in Claim(b, f) : c = d \/ Earlier(c, d) \/ Earlier(d, c)
<1>1. b \in Seq(Endpoint)
    <2>1. CASE b \in Batches
        BY <2>1, BatchesAssumption
    <2>2. CASE b = <<>>
        BY <2>2
    <2> QED
        BY <2>1, <2>2
<1>2. ASSUME NEW e \in 1..Len(b) PROVE e \in Nat /\ Len(Addresses(b[e], f)) \in Nat
    <2>1. b[e] \in Endpoint /\ e \in Nat
        BY <1>1
    <2>2. Addresses(b[e], f) \in Seq(Address)
        BY <2>1 DEF Endpoint, Addresses
    <2> QED
        BY <2>1, <2>2
<1>3. ASSUME NEW c \in Claim(b, f) PROVE c \in Nat \X Nat /\ c[2] >= 1
    <2>1. PICK e \in 1..Len(b) : c \in {e} \X (1..Len(Addresses(b[e], f)))
        BY DEF Claim
    <2> QED
        BY <2>1, <1>2
<1>4. \A c, d \in Nat \X Nat : c = d \/ Earlier(c, d) \/ Earlier(d, c)
    BY DEF Earlier
<1> QED
    BY <1>3, <1>4

LEMMA AddressOf ==
    ASSUME NEW b \in Batches \cup {<<>>}, NEW f \in Kind, NEW c \in Claim(b, f)
    PROVE  AddressAt(b, f, c) \in Address
<1>1. b \in Seq(Endpoint)
    <2>1. CASE b \in Batches
        BY <2>1, BatchesAssumption
    <2>2. CASE b = <<>>
        BY <2>2
    <2> QED
        BY <2>1, <2>2
<1>2. PICK e \in 1..Len(b) : c \in {e} \X (1..Len(Addresses(b[e], f)))
    BY DEF Claim
<1>3. b[e] \in Endpoint
    BY <1>1
<1>4. Addresses(b[e], f) \in Seq(Address)
    BY <1>3 DEF Endpoint, Addresses
<1>5. c[1] = e /\ c[2] \in 1..Len(Addresses(b[e], f))
    BY <1>2
<1> QED
    BY <1>4, <1>5 DEF AddressAt

(* Of the claims to a name that fits in the zone, one registers it that no *)
(* other comes before.                                                     *)
LEMMA FirstRegisters ==
    ASSUME NEW b \in Batches \cup {<<>>}, NEW f \in Kind,
           NEW c \in Claim(b, f), FitAt(b, f, c) = "yes"
    PROVE  \E d \in Claim(b, f) :
                /\ NameAt(b, f, d) = NameAt(b, f, c)
                /\ FitAt(b, f, d) = "yes" /\ ~Earlier(c, d)
                /\ PTR(b, f, d) \in Changes(b, f)
<1> DEFINE T == {d \in Claim(b, f) : NameAt(b, f, d) = NameAt(b, f, c) /\ FitAt(b, f, d) = "yes"}
<1>1. T \subseteq Nat \X Nat /\ c \in T
    BY ClaimType
<1>2. PICK d \in T : \A e \in T : ~Earlier(e, d)
    BY <1>1, FirstOf
<1>3. Registers(b, f, d)
    BY <1>2 DEF Registers
<1> QED
    BY <1>1, <1>2, <1>3 DEF Changes

(* Two claims that register a name are one. *)
LEMMA OneRegisters ==
    ASSUME NEW b \in Batches \cup {<<>>}, NEW f \in Kind
    PROVE  UniqueKeys(Changes(b, f)) /\ \A r \in Changes(b, f) : r.type = "PTR"
<1>1. ASSUME NEW r \in Changes(b, f)
      PROVE  \E c \in Claim(b, f) : FitAt(b, f, c) = "yes" /\ Registers(b, f, c) /\ r = PTR(b, f, c)
    BY DEF Changes
<1>2. ASSUME NEW r \in Changes(b, f), NEW s \in Changes(b, f), r.name = s.name PROVE r = s
    <2>1. PICK c \in Claim(b, f) :
            FitAt(b, f, c) = "yes" /\ Registers(b, f, c) /\ r = PTR(b, f, c)
        BY <1>1
    <2>2. PICK d \in Claim(b, f) :
            FitAt(b, f, d) = "yes" /\ Registers(b, f, d) /\ s = PTR(b, f, d)
        BY <1>1
    <2>3. NameAt(b, f, c) = NameAt(b, f, d)
        BY <1>2, <2>1, <2>2 DEF PTR
    <2>4. ~Earlier(c, d) /\ ~Earlier(d, c)
        BY <2>1, <2>2, <2>3 DEF Registers
    <2>5. c = d
        BY <2>4, ClaimType
    <2> QED
        BY <2>1, <2>2, <2>5
<1> QED
    BY <1>1, <1>2 DEF UniqueKeys, PTR

(* What a plan's result says of the addresses of a call. *)
LEMMA ResultMeans ==
    ASSUME NEW b \in Batches \cup {<<>>}, NEW f \in Kind
    PROVE  /\ PlanResult(b, f) = "changes" =>
                \A c \in Claim(b, f) : AddressAt(b, f, c).kind # "invalid"
           /\ PlanResult(b, f) = "dropped" =>
                /\ Nameless(b, f) # {}
                /\ \A c \in Claim(b, f) :
                        (\A n \in Nameless(b, f) : Earlier(c, n)) =>
                            AddressAt(b, f, c).kind # "invalid"
<1>1. \A c : FitAt(b, f, c) \in {"error", "no", "yes", "panic"}
    BY DEF FitAt, FitsInReverseZone, Compare
<1>2. PlanResult(b, f) = "changes" => Stops(b, f) = {}
    BY <1>1 DEF PlanResult
<1>3. ASSUME Stops(b, f) = {}, NEW c \in Claim(b, f)
      PROVE  AddressAt(b, f, c).kind # "invalid"
    <2>1. FitAt(b, f, c) # "error"
        BY <1>3 DEF Stops
    <2> QED
        BY <2>1 DEF FitAt, FitsInReverseZone
<1>4. ASSUME PlanResult(b, f) = "dropped"
      PROVE  /\ Nameless(b, f) # {}
             /\ \A c \in Claim(b, f) :
                    (\A n \in Nameless(b, f) : Earlier(c, n)) =>
                        AddressAt(b, f, c).kind # "invalid"
    <2>1. Stops(b, f) # {} /\ FirstStop(b, f)[2] = 0
        BY <1>1, <1>4 DEF PlanResult
    <2>2. Stops(b, f) \subseteq Nat \X Nat
        <3>1. Nameless(b, f) \subseteq Nat \X Nat
            BY DEF Nameless
        <3> QED
            BY <3>1, ClaimType DEF Stops
    <2>3. FirstStop(b, f) \in Stops(b, f) /\ \A d \in Stops(b, f) : ~Earlier(d, FirstStop(b, f))
        BY <2>1, <2>2, FirstOf DEF FirstStop
    <2>4. FirstStop(b, f) \notin Claim(b, f)
        BY <2>1, ClaimType
    <2>5. FirstStop(b, f) \in Nameless(b, f)
        BY <2>3, <2>4 DEF Stops
    <2>6. ASSUME NEW c \in Claim(b, f), \A n \in Nameless(b, f) : Earlier(c, n)
          PROVE  AddressAt(b, f, c).kind # "invalid"
        <3>1. c \notin Stops(b, f)
            BY <2>3, <2>5, <2>6
        <3>2. FitAt(b, f, c) # "error"
            BY <3>1 DEF Stops
        <3> QED
            BY <3>2 DEF FitAt, FitsInReverseZone
    <2> QED
        BY <2>5, <2>6
<1> QED
    BY <1>2, <1>3, <1>4

-------------------------------------------------------------------------------
(* The zone of family f is as a call that finished it left it. *)
Home(f) ==
    enabled[f] =>
        \A c \in Claim(batch, f) :
            /\ (\A n \in Nameless(batch, f) : Earlier(c, n)) =>
                  AddressAt(batch, f, c).kind # "invalid"
            /\ Nameless(batch, f) = {} /\ FitAt(batch, f, c) = "yes" =>
                \E d \in Claim(batch, f) :
                    /\ NameAt(batch, f, d) = NameAt(batch, f, c)
                    /\ FitAt(batch, f, d) = "yes" /\ ~Earlier(c, d)
                    /\ PTR(batch, f, d) \in zones[f]

Phases ==
    /\ pc # "idle" => outcome = "none"
    /\ pc = "clean" => clean[family]

Inv == TypeOK /\ Phases /\ NamesPointHome

LEMMA HomeMeans == NamesPointHome <=> \A f \in Kind : Finished(f) => Home(f)
BY DEF NamesPointHome, Home
LEMMA HomeMeansNext == NamesPointHome' <=> \A f \in Kind : Finished(f)' => Home(f)'
BY DEF NamesPointHome, Home

(* A batch of changes leaves a zone with one record set of a key. *)
LEMMA UpsertUnique ==
    ASSUME NEW z, NEW cs, UniqueKeys(z), UniqueKeys(cs)
    PROVE  UniqueKeys(Upsert(z, cs))
BY DEF UniqueKeys, Upsert

(* A zone is disturbed by nothing but its own steps. *)
LEMMA HomeStays ==
    ASSUME NEW f \in Kind, Home(f), UNCHANGED <<config, batch>>, zones'[f] = zones[f]
    PROVE  Home(f)'
<1>1. enabled' = enabled /\ hosted' = hosted /\ batch' = batch
    BY DEF config
<1>2. \A c : FitAt(batch, f, c)' = FitAt(batch, f, c)
    BY <1>1 DEF FitAt
<1> QED
    BY <1>1, <1>2 DEF Home

LEMMA InitInv == Init => Inv
<1> SUFFICES ASSUME Init PROVE Inv
    OBVIOUS
<1>1. TypeOK
    BY ModesAssumption, InitialZonesAssumption DEF Init, TypeOK, Kind
<1> QED
    BY <1>1 DEF Init, Inv, Phases, NamesPointHome, Finished

(* The steps of a call that are not its last in a zone. *)
LEMMA InnerStep ==
    ASSUME Inv,
           \/ UpdateEndpoints \/ ForwardFails \/ ForwardDone \/ ZoneEnabled
           \/ GetZoneName \/ GetZoneNameFails \/ CleanupListFails \/ NothingToClean
           \/ CleanPage \/ CleanPageFails \/ PlanFails \/ PlanPanics \/ ChangesFail \/ Restart
    PROVE  Inv'
<1> USE DEF Inv
<1>1. CASE UpdateEndpoints
    BY <1>1 DEF UpdateEndpoints, TypeOK, Phases, NamesPointHome, Finished, config, Kind
<1>2. CASE PlanPanics \/ Restart
    BY <1>2 DEF PlanPanics, Restart, Restarted, TypeOK, Phases, NamesPointHome, Finished, config, Kind
<1>3. CASE ForwardFails \/ GetZoneNameFails \/ PlanFails
    <2>1. /\ UNCHANGED <<hosted, enabled, named, clean, nameKnown, zones, family, batch>>
          /\ pc' = "idle" /\ outcome' = "error"
        BY <1>3 DEF ForwardFails, GetZoneNameFails, PlanFails, Fail, config
    <2> QED
        BY <2>1 DEF TypeOK, Phases, NamesPointHome, Finished
<1>4. CASE ForwardDone \/ ZoneEnabled \/ GetZoneName \/ CleanupListFails \/ NothingToClean
    <2>1. /\ UNCHANGED <<hosted, enabled, named, clean, zones, family, batch, outcome>>
          /\ pc # "idle" /\ pc' \in {"start", "name", "clean", "plan"}
          /\ pc' = "clean" => clean[family]
          /\ nameKnown' \in [Kind -> BOOLEAN]
        BY <1>4 DEF ForwardDone, ZoneEnabled, GetZoneName, CleanupListFails, NothingToClean,
            CleanupEnds, AfterName, config, TypeOK
    <2>2. TypeOK' /\ Phases'
        BY <2>1 DEF TypeOK, Phases
    <2>3. \A f \in Kind : Finished(f)' => Finished(f)
        BY <2>1 DEF Finished
    <2>4. \A f \in Kind : Home(f) => Home(f)'
        BY <2>1, HomeStays DEF config
    <2> QED
        BY <2>2, <2>3, <2>4, HomeMeans DEF NamesPointHome, Home
<1>5. CASE CleanPage \/ CleanPageFails
    <2>1. /\ UNCHANGED <<hosted, enabled, named, clean, nameKnown, family, batch, outcome>>
          /\ pc = "clean" /\ pc' \in {"clean", "plan"}
          /\ zones' \in {zones, Delete(zones[family])}
        BY <1>5 DEF CleanPage, CleanPageFails, CleanupEnds, config
    <2>2. /\ DOMAIN zones' = Kind /\ \A f \in Kind : zones'[f] \subseteq zones[f]
          /\ \A f \in Kind \ {family} : zones'[f] = zones[f]
        BY <2>1 DEF TypeOK, Delete
    <2>3. TypeOK' /\ Phases'
        BY <2>1, <2>2 DEF TypeOK, Phases, UniqueKeys
    <2>4. \A f \in Kind : Finished(f)' => Finished(f) /\ f # family
        BY <2>1 DEF Finished, Phases
    <2>5. \A f \in Kind \ {family} : Home(f) => Home(f)'
        BY <2>1, <2>2, HomeStays DEF config
    <2> QED
        BY <2>3, <2>4, <2>5, HomeMeans DEF NamesPointHome, Home
<1>6. CASE ChangesFail
    <2>1. /\ UNCHANGED <<hosted, enabled, named, clean, nameKnown, family, batch>>
          /\ pc' = "idle" /\ outcome' = "error"
          /\ zones' \in {zones, WithChanges(zones[family])}
        BY <1>6 DEF ChangesFail, Fail, config
    <2>2. UniqueKeys(Upsert(zones[family], Changes(batch, family)))
        BY OneRegisters, UpsertUnique DEF TypeOK
    <2>3. DOMAIN zones' = Kind /\ \A f \in Kind : UniqueKeys(zones'[f])
        BY <2>1, <2>2 DEF TypeOK, WithChanges
    <2> QED
        BY <2>1, <2>3 DEF TypeOK, Phases, NamesPointHome, Finished
<1> QED
    BY <1>1, <1>2, <1>3, <1>4, <1>5, <1>6

(* The steps that finish a zone. *)
LEMMA FinishStep ==
    ASSUME Inv, ZoneDisabled \/ NoChanges \/ ChangesApplied
    PROVE  Inv'
<1> USE DEF Inv
<1>1. /\ UNCHANGED <<hosted, enabled, named, clean, nameKnown, batch>>
      /\ pc # "idle" /\ NextZone
    BY DEF ZoneDisabled, NoChanges, ChangesApplied, Planned, Write, NextZone, config
<1>2. /\ family' \in Kind /\ pc' \in {"start", "idle"} /\ outcome' \in {"none", "ok"}
      /\ pc' # "idle" => outcome' = "none"
      /\ family = "ipv4" => family' = "ipv6" /\ outcome' = "none"
      /\ family = "ipv6" => family' = "ipv6" /\ outcome' = "ok"
    BY <1>1 DEF NextZone, TypeOK, Phases, Kind
<1>3. /\ family \in Kind /\ batch \in Batches \cup {<<>>}
      /\ UniqueKeys(Upsert(zones[family], Changes(batch, family)))
    BY OneRegisters, UpsertUnique DEF TypeOK
<1>4. /\ DOMAIN zones' = Kind /\ \A f \in Kind : UniqueKeys(zones'[f])
      /\ \A f \in Kind \ {family} : zones'[f] = zones[f]
    BY <1>3 DEF ZoneDisabled, NoChanges, ChangesApplied, WithChanges, TypeOK
<1>5. TypeOK' /\ Phases'
    BY <1>1, <1>2, <1>4 DEF TypeOK, Phases
<1>6. ASSUME enabled[family]
      PROVE  /\ PlanResult(batch, family) \in {"changes", "dropped"}
             /\ Nameless(batch, family) = {} =>
                    /\ PlanResult(batch, family) = "changes"
                    /\ Changes(batch, family) \subseteq zones'[family]
    <2>1. PlanResult(batch, family) \in {"changes", "dropped"}
        BY <1>6 DEF ZoneDisabled, NoChanges, ChangesApplied, Write, Planned
    <2>2. ASSUME Nameless(batch, family) = {} PROVE PlanResult(batch, family) = "changes"
        BY <1>3, <2>1, <2>2, ResultMeans
    <2>3. CASE NoChanges
        BY <2>1, <2>2, <2>3 DEF NoChanges, Planned
    <2>4. CASE ChangesApplied
        BY <1>3, <2>1, <2>2, <2>4 DEF ChangesApplied, WithChanges, Upsert, TypeOK
    <2> QED
        BY <1>6, <2>3, <2>4 DEF ZoneDisabled
<1>7. ASSUME NEW f \in Kind, f = family PROVE Home(f)'
    <2>1. enabled' = enabled /\ hosted' = hosted /\ batch' = batch
        BY <1>1
    <2>2. \A c : FitAt(batch, f, c)' = FitAt(batch, f, c)
        BY <2>1 DEF FitAt
    <2>3. CASE enabled[f]
        <3>1. /\ PlanResult(batch, f) \in {"changes", "dropped"}
              /\ Nameless(batch, f) = {} => Changes(batch, f) \subseteq zones'[f]
            BY <1>6, <1>7, <2>3
        <3>2. \A c \in Claim(batch, f) :
                (\A n \in Nameless(batch, f) : Earlier(c, n)) =>
                    AddressAt(batch, f, c).kind # "invalid"
            BY <1>3, <3>1, ResultMeans
        <3>3. \A c \in Claim(batch, f) : Nameless(batch, f) = {} /\ FitAt(batch, f, c) = "yes" =>
                \E d \in Claim(batch, f) :
                    /\ NameAt(batch, f, d) = NameAt(batch, f, c)
                    /\ FitAt(batch, f, d) = "yes" /\ ~Earlier(c, d)
                    /\ PTR(batch, f, d) \in zones'[f]
            BY <1>3, <3>1, FirstRegisters
        <3> QED
            BY <2>1, <2>2, <3>2, <3>3 DEF Home
    <2>4. CASE ~enabled[f]
        BY <2>1, <2>4 DEF Home
    <2> QED
        BY <2>3, <2>4
<1>8. \A f \in Kind \ {family} : Home(f) => Home(f)'
    BY <1>1, <1>4, HomeStays DEF config
<1>9. \A f \in Kind \ {family} : Finished(f)' => Finished(f)
    BY <1>1, <1>2, <1>3 DEF Finished, Phases, Kind
<1> QED
    BY <1>5, <1>7, <1>8, <1>9, HomeMeans, HomeMeansNext

-------------------------------------------------------------------------------
THEOREM Invariance == SafeSpec => []Inv
<1>1. ASSUME Inv, [Next]_vars PROVE Inv'
    <2>1. CASE UNCHANGED vars
        <3>1. /\ UNCHANGED <<config, zones>> /\ UNCHANGED batch
              /\ UNCHANGED <<hosted, enabled, named, clean, nameKnown, zones, pc, family, batch, outcome>>
            BY <2>1 DEF vars, call, config
        <3>2. \A f \in Kind : Finished(f)' => Finished(f)
            BY <3>1 DEF Finished
        <3>3. \A f \in Kind : Home(f) => Home(f)'
            BY <3>1, HomeStays
        <3> QED
            BY <1>1, <3>1, <3>2, <3>3, HomeMeans, HomeMeansNext DEF Inv, TypeOK, Phases
    <2> QED
        BY <1>1, <2>1, InnerStep, FinishStep DEF Next
<1> QED
    BY <1>1, InitInv, PTL DEF SafeSpec

(* Every variable has its type, and a zone at most one record set of a     *)
(* name and a type.                                                        *)
THEOREM TypeCorrect == Spec => []TypeOK
BY Invariance, PTL DEF Spec, Inv

(* However many calls fail, changes take effect unnoticed and processes    *)
(* are restarted: a call that is done with a zone has hidden no error      *)
(* before an endpoint without a name, and where there is no such endpoint  *)
(* every fitting name of the call points to the first endpoint that has it.*)
THEOREM NamesPointHomeHolds == Spec => []NamesPointHome
BY Invariance, PTL DEF Spec, Inv

(* The steps that write to a zone. *)
LEMMA WritesAre ==
    ASSUME TypeOK, Next, NEW f \in Kind, zones'[f] # zones[f]
    PROVE  /\ f = family
           /\ \/ pc = "clean" /\ zones'[f] = zones[f] \ Doomed(zones[f])
              \/ zones'[f] = Upsert(zones[f], Changes(batch, f))
<1>1. \/ pc = "clean" /\ zones' = Delete(zones[family])
      \/ zones' = WithChanges(zones[family])
    BY DEF Next, UpdateEndpoints, ForwardFails, ForwardDone, ZoneDisabled, ZoneEnabled, GetZoneName,
        GetZoneNameFails, CleanupListFails, NothingToClean, CleanPage, CleanPageFails, CleanupEnds,
        PlanFails, PlanPanics, NoChanges, ChangesApplied, ChangesFail, Restart, Restarted
<1> QED
    BY <1>1 DEF Delete, WithChanges, TypeOK

(* Cleanup spares the names of reported addresses, and all but PTRs. *)
THEOREM ReportedKeptHolds == Spec => ReportedKept
<1> DEFINE Spared(f, r) ==
        /\ r.type = "PTR"
        /\ \/ \E s \in zones'[f] : s.type = "PTR" /\ s.name = r.name
           \/ /\ clean[f]
              /\ \A c \in Claim(batch, f) :
                    NameAt(batch, f, c) = r.name =>
                        \E k \in 1..c[2] : AddressAt(batch, f, <<c[1], k>>).kind = "invalid"
<1>1. ASSUME Inv, Next, NEW f \in Kind, NEW r \in zones[f] \ zones'[f]
      PROVE  Spared(f, r)
    <2>1. TypeOK /\ Phases /\ family \in Kind /\ batch \in Batches \cup {<<>>}
        BY <1>1 DEF Inv, TypeOK
    <2>2. /\ f = family
          /\ \/ pc = "clean" /\ zones'[f] = zones[f] \ Doomed(zones[f])
             \/ zones'[f] = Upsert(zones[f], Changes(batch, f))
        BY <1>1, <2>1, WritesAre
    <2>3. CASE pc = "clean" /\ zones'[f] = zones[f] \ Doomed(zones[f])
        <3>1. clean[f] /\ r.type = "PTR" /\ r.name \notin Kept(batch, f)
            BY <1>1, <2>1, <2>2, <2>3 DEF Phases, Doomed
        <3> QED
            BY <3>1 DEF Kept
    <2>4. CASE zones'[f] = Upsert(zones[f], Changes(batch, f))
        <3>1. PICK s \in Changes(batch, f) : r.name = s.name /\ r.type = s.type
            BY <1>1, <2>4 DEF Upsert
        <3>2. s \in zones'[f]
            BY <2>4 DEF Upsert
        <3> QED
            BY <2>1, <3>1, <3>2, OneRegisters
    <2> QED
        BY <2>2, <2>3, <2>4
<1>2. ASSUME Inv, [Next]_vars
      PROVE  [\A f \in Kind : \A r \in zones[f] \ zones'[f] : Spared(f, r)]_vars
    BY <1>1, <1>2
<1> QED
    BY <1>2, Invariance, PTL DEF Spec, SafeSpec, ReportedKept

(* What fits in a zone is in it: the prefix of an IPv4-mapped address      *)
(* agrees with no label.                                                   *)
LEMMA FitIsBelow ==
    ASSUME NEW a, AddressType(a), NEW z, ZoneType(z), FitsInReverseZone(a, z) = "yes"
    PROVE  Below(ReverseAddr(a), z)
<1> DEFINE w == Written(a)
           zl == z.labels
           al == a.labels
           n == Len(al)
           m == Len(zl)
           rz == [i \in 1..m |-> zl[m + 1 - i]]
           rl == [i \in 1..n |-> al[n + 1 - i]]
<1>1. /\ al \in Seq(Label) /\ zl \in Seq(Label) /\ n \in Nat /\ m \in Nat
      /\ \A i \in 1..m : zl[i] \in Label
    BY DEF AddressType, ZoneType
<1>2. a.kind \in Kind /\ a.kind = z.kind /\ n > 0
    BY DEF FitsInReverseZone, AddressType, Width, Kind
<1>3. Len(rz) = m /\ Reversed(zl) = rz /\ Reversed(al) = rl
    BY <1>1 DEF Reversed
<1>4. Compare(w, rz) = "yes"
    BY <1>2, <1>3 DEF FitsInReverseZone
<1>5. Len(w) = n /\ \A i \in 1..n : w[i] = al[i] \/ w[i] = Prefix
    <2>1. CASE a.kind = "ipv4" /\ a.mapped
        <3>1. /\ Tail(al) \in Seq(Label) /\ Len(Tail(al)) = n - 1
              /\ \A i \in 1..(n - 1) : Tail(al)[i] = al[i + 1]
            BY <1>1, <1>2
        <3>2. w = <<Prefix>> \o Tail(al)
            BY <2>1 DEF Written
        <3>3. Len(w) = n /\ \A i \in 1..n : w[i] = IF i = 1 THEN Prefix ELSE Tail(al)[i - 1]
            BY <1>1, <1>2, <3>1, <3>2
        <3>4. ASSUME NEW i \in 1..n, i # 1 PROVE Tail(al)[i - 1] = al[i]
            <4>1. i - 1 \in 1..(n - 1) /\ (i - 1) + 1 = i
                BY <1>1, <3>4
            <4> HIDE DEF n, al
            <4> QED
                BY <3>1, <4>1
        <3> QED
            BY <3>3, <3>4
    <2>2. CASE ~(a.kind = "ipv4" /\ a.mapped)
        BY <2>2 DEF Written
    <2> QED
        BY <2>1, <2>2
<1> HIDE DEF w
<1>6. m <= n /\ \A i \in 1..m : rz[i] = w[i]
    <2> HIDE DEF n, m, rz
    <2>1. m <= n /\ \A i \in 1..m : i <= n => rz[i] = w[i]
        BY <1>1, <1>3, <1>4, <1>5 DEF Compare
    <2> QED
        BY <1>1, <2>1
<1>7. ASSUME NEW i \in 1..m PROVE zl[i] = rl[n - m + i]
    <2>1. /\ m + 1 - i \in 1..m /\ m + 1 - i \in 1..n /\ n - m + i \in 1..n
          /\ m + 1 - (m + 1 - i) = i /\ n + 1 - (n - m + i) = m + 1 - i
        <3> HIDE DEF n, m, rz, rl
        <3> QED
            BY <1>1, <1>6
    <2>2. rl[n - m + i] = al[m + 1 - i]
        BY <2>1
    <2>3. rz[m + 1 - i] = zl[i]
        BY <2>1
    <2>4. w[m + 1 - i] = zl[i]
        BY <1>6, <2>1, <2>3
    <2>5. w[m + 1 - i] = al[m + 1 - i]
        BY <1>1, <1>5, <2>1, <2>4, PrefixAssumption
    <2> QED
        BY <2>2, <2>4, <2>5
<1>8. ReverseAddr(a).labels = rl /\ ReverseAddr(a).kind = a.kind /\ Len(rl) = n
    BY <1>1, <1>3 DEF ReverseAddr
<1> HIDE DEF rl
<1> QED
    BY <1>2, <1>6, <1>7, <1>8 DEF Below

(* Nothing is written to a zone that is not below it, and nothing but the  *)
(* PTR of an address of the call: neither an IPv4-mapped address nor a     *)
(* zone of the other family misdirects a write.                            *)
THEOREM WritesOnlyReportsHolds == Spec => WritesOnlyReports
<1> DEFINE Reported(f, r) ==
        /\ Below(r.name, hosted[f])
        /\ \E c \in Claim(batch, f) : r = PTR(batch, f, c)
<1>1. ASSUME Inv, Next, NEW f \in Kind, NEW r \in zones'[f] \ zones[f]
      PROVE  Reported(f, r)
    <2>1. TypeOK /\ hosted[f] \in Zone /\ batch \in Batches \cup {<<>>}
        BY <1>1 DEF Inv, TypeOK
    <2>2. zones'[f] = Upsert(zones[f], Changes(batch, f))
        BY <1>1, <2>1, WritesAre
    <2>3. r \in Changes(batch, f)
        BY <1>1, <2>2 DEF Upsert
    <2>4. PICK c \in Claim(batch, f) : FitAt(batch, f, c) = "yes" /\ r = PTR(batch, f, c)
        BY <2>3 DEF Changes
    <2>5. AddressAt(batch, f, c) \in Address
        BY <2>1, AddressOf
    <2>6. Below(NameAt(batch, f, c), hosted[f])
        BY <2>1, <2>4, <2>5, FitIsBelow, AddressAssumption, ZoneAssumption DEF FitAt, NameAt
    <2> QED
        BY <2>4, <2>6 DEF PTR
<1>2. ASSUME Inv, [Next]_vars
      PROVE  [\A f \in Kind : \A r \in zones'[f] \ zones[f] : Reported(f, r)]_vars
    BY <1>1, <1>2
<1> QED
    BY <1>2, Invariance, PTL DEF Spec, SafeSpec, WritesOnlyReports
===============================================================================
