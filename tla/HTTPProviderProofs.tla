-------------------------- MODULE HTTPProviderProofs ---------------------------
(***************************************************************************)
(* What HTTPProvider promises for any finite number of requests, and after *)
(* it what PTRsForEndpoints, whose records it serves, returns for any      *)
(* addresses, zones and lists of endpoints.                                *)
(*                                                                         *)
(* Of the documents: the mutex counts what the requests hold (LocksMatch), *)
(* and the writer's state says where the update is (WriterMatches).  A     *)
(* writer that holds the mutex therefore finds no request inside, and none *)
(* enters (Exclusion), so the documents a request sees do not change under *)
(* it.                                                                     *)
(***************************************************************************)
EXTENDS HTTPProvider, PTRRecords, FiniteSetTheorems, TLAPS

Control == {"idle", "handler", "outerWait", "getter", "innerWait", "read", "write"}
Held == {"getter", "innerWait", "read", "write"}
Inside == {h \in Handler : HoldsOuter(h)}
Reading == {h \in Handler : pc[h] = "read"}

LocksMatch == readers = Cardinality(Inside) + Cardinality(Reading)

WriterMatches ==
    /\ writer = "none" <=> upc \in {"idle", "marshal"}
    /\ writer = "holding" <=> upc \in Writing
    /\ writer = "none" => Waiting = {}

Exclusion == writer = "holding" => Inside = {}

(* The documents are equal but for those an update has yet to replace. *)
Replacing ==
    /\ upc \notin {"reverse-ipv4", "reverse-ipv6"} => \A s, t \in Slot : data[s] = data[t]
    /\ upc \in {"reverse-ipv4", "reverse-ipv6"} => data["forward"] = version
    /\ upc = "reverse-ipv6" => data["reverse-ipv4"] = version

Current == \A h \in Handler : pc[h] = "write" => answer[h] = data[slot[h]]

Inv == TypeOK /\ LocksMatch /\ WriterMatches /\ Exclusion /\ Replacing /\ Current

(* The sets that are counted are finite, and nobody inside means no locks. *)
LEMMA Counts ==
    /\ IsFiniteSet(Inside) /\ Cardinality(Inside) \in Nat
    /\ IsFiniteSet(Reading) /\ Cardinality(Reading) \in Nat
    /\ Reading \subseteq Inside
    /\ Cardinality(Inside) = 0 => Inside = {}
<1>1. Inside \in SUBSET Handler /\ Reading \in SUBSET Handler /\ Reading \subseteq Inside
    BY DEF Inside, Reading, HoldsOuter
<1>2. IsFiniteSet(Inside) /\ IsFiniteSet(Reading)
    BY <1>1, FS_Subset, HandlerAssumption
<1> QED
    BY <1>1, <1>2, FS_CardinalityType, FS_EmptySet

(* A request that moves changes the sets by itself alone. *)
LEMMA Moves ==
    ASSUME pc \in [Handler -> Control], NEW h \in Handler, NEW next \in Control,
           pc' = [pc EXCEPT ![h] = next]
    PROVE  /\ Inside' = IF next \in Held THEN Inside \cup {h} ELSE Inside \ {h}
           /\ Reading' = IF next = "read" THEN Reading \cup {h} ELSE Reading \ {h}
           /\ h \in Inside <=> pc[h] \in Held
           /\ h \in Reading <=> pc[h] = "read"
BY DEF Inside, Reading, HoldsOuter, Held

(* and so changes their sizes by one at most.                              *)
LEMMA Sizes ==
    ASSUME pc \in [Handler -> Control], NEW h \in Handler, NEW next \in Control,
           pc' = [pc EXCEPT ![h] = next]
    PROVE  /\ Cardinality(Inside') =
                CASE pc[h] \notin Held /\ next \in Held -> Cardinality(Inside) + 1
                  [] pc[h] \in Held /\ next \notin Held -> Cardinality(Inside) - 1
                  [] OTHER -> Cardinality(Inside)
           /\ Cardinality(Reading') =
                CASE pc[h] # "read" /\ next = "read" -> Cardinality(Reading) + 1
                  [] pc[h] = "read" /\ next # "read" -> Cardinality(Reading) - 1
                  [] OTHER -> Cardinality(Reading)
<1>1. IsFiniteSet(Inside) /\ IsFiniteSet(Reading)
    BY Counts
<1>2. /\ Cardinality(Inside \cup {h}) =
            IF h \in Inside THEN Cardinality(Inside) ELSE Cardinality(Inside) + 1
      /\ Cardinality(Reading \cup {h}) =
            IF h \in Reading THEN Cardinality(Reading) ELSE Cardinality(Reading) + 1
    BY <1>1, FS_AddElement
<1>3. /\ Cardinality(Inside \ {h}) =
            IF h \in Inside THEN Cardinality(Inside) - 1 ELSE Cardinality(Inside)
      /\ Cardinality(Reading \ {h}) =
            IF h \in Reading THEN Cardinality(Reading) - 1 ELSE Cardinality(Reading)
    BY <1>1, FS_RemoveElement
<1> QED
    BY <1>2, <1>3, Moves

LEMMA InitInv == Init => Inv
<1> SUFFICES ASSUME Init PROVE Inv
    OBVIOUS
<1>1. Inside = {} /\ Reading = {} /\ Waiting = {}
    BY DEF Init, Inside, Reading, Waiting, HoldsOuter
<1>2. TypeOK
    BY DEF Init, TypeOK, Slot
<1> QED
    BY <1>1, <1>2, FS_EmptySet DEF Init, Inv, LocksMatch, WriterMatches, Exclusion, Replacing,
        Current, Writing, Slot

(* A step of the update that leaves the mutex and the requests alone. *)
LEMMA UpdateStep ==
    ASSUME Inv, UNCHANGED <<readers, requests>>
    PROVE  LocksMatch' /\ Inside' = Inside /\ Waiting' = Waiting
BY DEF Inv, LocksMatch, Inside, Reading, Waiting, HoldsOuter, requests

LEMMA InvStep == Inv /\ [Next]_vars => Inv'
<1> SUFFICES ASSUME Inv, [Next]_vars PROVE Inv'
    OBVIOUS
<1> USE DEF Inv
<1>t. TypeOK /\ pc \in [Handler -> Control]
    BY DEF TypeOK, Control
<1>1. CASE UpdateStarts \/ UpdateFails
    <2>1. /\ UNCHANGED <<data, readers, writer, pc, slot, answer>>
          /\ upc \in {"idle", "marshal"} /\ upc' \in {"idle", "marshal"}
          /\ version' \in Version \cup {Empty}
        BY <1>1, <1>t DEF UpdateStarts, UpdateFails, mutex, requests, TypeOK
    <2> QED
        BY <2>1, <1>t, UpdateStep DEF TypeOK, WriterMatches, Exclusion, Replacing, Current,
            Writing, requests
<1>2. CASE LockAnnounced
    <2>1. /\ UNCHANGED <<version, data, readers, pc, slot, answer>>
          /\ upc = "marshal" /\ upc' = "lock" /\ writer' = "pending"
        BY <1>2 DEF LockAnnounced, requests
    <2> QED
        BY <2>1, <1>t, UpdateStep DEF TypeOK, WriterMatches, Exclusion, Replacing, Current,
            Writing, requests
<1>3. CASE LockAcquired
    <2>1. /\ UNCHANGED <<version, data, readers, pc, slot, answer>>
          /\ upc = "lock" /\ upc' = "forward" /\ writer' = "holding" /\ readers = 0
        BY <1>3 DEF LockAcquired, Locked, requests
    <2>2. Inside = {}
        BY <2>1, Counts DEF LocksMatch
    <2> QED
        BY <2>1, <2>2, <1>t, UpdateStep DEF TypeOK, WriterMatches, Exclusion, Replacing, Current,
            Writing, requests
<1>4. ASSUME NEW s \in Slot, NEW next,
             <<s, next>> \in {<<"forward", "reverse-ipv4">>, <<"reverse-ipv4", "reverse-ipv6">>,
                              <<"reverse-ipv6", "unlock">>},
             Replace(s, next)
      PROVE  Inv'
    <2>1. /\ UNCHANGED <<version, readers, writer, pc, slot, answer>>
          /\ upc = s /\ upc' = next /\ data' = [data EXCEPT ![s] = version]
        BY <1>4 DEF Replace, mutex, requests
    <2>2. writer = "holding" /\ Inside = {}
        BY <2>1, <1>4 DEF WriterMatches, Exclusion, Writing, Slot
    <2>3. \A h \in Handler : pc[h] # "write"
        BY <2>2 DEF Inside, HoldsOuter
    <2>4. Replacing'
        BY <2>1, <1>4, <1>t DEF Replacing, TypeOK, Slot
    <2> QED
        BY <2>1, <2>2, <2>3, <2>4, <1>4, <1>t, UpdateStep DEF TypeOK, WriterMatches, Exclusion,
            Current, Writing, requests, Slot
<1>5. CASE Unlocked
    <2>1. /\ UNCHANGED <<version, data, slot, answer>>
          /\ upc = "unlock" /\ upc' = "idle" /\ writer' = "none"
          /\ readers' = readers + Cardinality(Waiting)
          /\ pc' = [h \in Handler |-> Admitted(pc[h])]
        BY <1>5 DEF Unlocked, Unlock
    <2>2. Inside = {} /\ Reading = {}
        BY <2>1, Counts DEF WriterMatches, Exclusion, Writing
    <2>3. readers = 0
        BY <2>2, FS_EmptySet DEF LocksMatch
    <2>4. /\ \A h \in Handler : pc[h] \in {"idle", "handler", "outerWait"}
          /\ \A h \in Handler : pc'[h] = IF pc[h] = "outerWait" THEN "getter" ELSE pc[h]
        BY <2>1, <2>2, <1>t DEF Inside, HoldsOuter, Control, Admitted
    <2>5. Inside' = Waiting /\ Reading' = {} /\ Waiting' = {}
        BY <2>4 DEF Inside, Reading, Waiting, HoldsOuter
    <2>6. IsFiniteSet(Waiting) /\ Cardinality(Waiting) \in Nat
        BY FS_Subset, FS_CardinalityType, HandlerAssumption DEF Waiting
    <2>7. LocksMatch'
        BY <2>1, <2>3, <2>5, <2>6, FS_EmptySet DEF LocksMatch
    <2>8. TypeOK'
        BY <2>1, <2>3, <2>4, <2>6, <1>t DEF TypeOK
    <2> QED
        BY <2>1, <2>4, <2>5, <2>7, <2>8 DEF WriterMatches, Exclusion, Replacing, Current, Writing
<1>6. ASSUME NEW h \in Handler, Request(h) PROVE Inv'
    <2>1. /\ UNCHANGED <<data, readers, writer, upc, version, answer>>
          /\ pc[h] = "idle" /\ pc' = [pc EXCEPT ![h] = "handler"]
          /\ slot' \in [Handler -> Slot] /\ \A g \in Handler \ {h} : slot'[g] = slot[g]
        BY <1>6, <1>t DEF Request, mutex, update, TypeOK
    <2>2. Cardinality(Inside') = Cardinality(Inside) /\ Cardinality(Reading') = Cardinality(Reading)
        BY <2>1, <1>t, Sizes DEF Control, Held
    <2>3. Inside' \subseteq Inside /\ Waiting' = Waiting
        BY <2>1, <1>t DEF Inside, Waiting, HoldsOuter, Control
    <2> QED
        BY <2>1, <2>2, <2>3, <1>t DEF TypeOK, LocksMatch, WriterMatches, Exclusion, Replacing,
            Current, Control
<1>7. ASSUME NEW h \in Handler, OuterRLock(h) \/ InnerRLock(h) PROVE Inv'
    <2>0. PICK next \in {"getter", "read", "outerWait", "innerWait"} :
            /\ UNCHANGED <<data, writer, upc, version, slot, answer>>
            /\ pc' = [pc EXCEPT ![h] = next]
            /\ \/ pc[h] = "handler" /\ next \in {"getter", "outerWait"}
               \/ pc[h] = "getter" /\ next \in {"read", "innerWait"}
            /\ IF writer = "none"
               THEN next \in {"getter", "read"} /\ readers' = readers + 1
               ELSE next \in {"outerWait", "innerWait"} /\ readers' = readers
        BY <1>7 DEF OuterRLock, InnerRLock, RLock, update
    <2>1. TypeOK'
        BY <2>0, <1>t DEF TypeOK
    <2>2. LocksMatch'
        <3>1. next \in Control
            BY <2>0 DEF Control
        <3>2. CASE pc[h] = "handler" /\ writer = "none"
            <4>1. /\ Cardinality(Inside') = Cardinality(Inside) + 1
                  /\ Cardinality(Reading') = Cardinality(Reading)
                BY <2>0, <3>1, <3>2, <1>t, Sizes DEF Held
            <4> QED
                BY <4>1, <3>2, <2>0, Counts DEF LocksMatch
        <3>3. CASE pc[h] = "getter" /\ writer = "none"
            <4>1. /\ Cardinality(Inside') = Cardinality(Inside)
                  /\ Cardinality(Reading') = Cardinality(Reading) + 1
                BY <2>0, <3>1, <3>3, <1>t, Sizes DEF Held
            <4> QED
                BY <4>1, <3>3, <2>0, Counts DEF LocksMatch
        <3>4. CASE writer # "none"
            <4>1. /\ Cardinality(Inside') = Cardinality(Inside)
                  /\ Cardinality(Reading') = Cardinality(Reading)
                BY <2>0, <3>1, <3>4, <1>t, Sizes DEF Held
            <4> QED
                BY <4>1, <3>4, <2>0 DEF LocksMatch
        <3> QED
            BY <3>2, <3>3, <3>4, <2>0
    <2>3. Exclusion'
        <3>1. writer = "holding" => pc[h] = "handler" /\ next = "outerWait"
            BY <2>0 DEF Exclusion, Inside, HoldsOuter
        <3> QED
            BY <2>0, <3>1, <1>t, Moves DEF Exclusion, Control, Held
    <2>4. WriterMatches'
        BY <2>0, <1>t DEF WriterMatches, Waiting
    <2> QED
        BY <2>0, <2>1, <2>2, <2>3, <2>4, <1>t DEF Replacing, Current, Control
<1>8. ASSUME NEW h \in Handler, Getter(h) \/ Respond(h) PROVE Inv'
    <2>0. PICK next \in {"write", "idle"} :
            /\ UNCHANGED <<data, writer, upc, version, slot>>
            /\ pc' = [pc EXCEPT ![h] = next] /\ readers' = readers - 1
            /\ \/ pc[h] = "read" /\ next = "write"
                  /\ answer' = [answer EXCEPT ![h] = data[slot[h]]]
               \/ pc[h] = "write" /\ next = "idle" /\ answer' = answer
        BY <1>8 DEF Getter, Respond, RUnlock, update
    <2>1. next \in Control
        BY <2>0 DEF Control
    <2>2. h \in Inside /\ Inside' \subseteq Inside
        BY <2>0, <2>1, <1>t, Moves DEF Held
    <2>3. LocksMatch' /\ readers' \in Nat
        <3>1. IsFiniteSet(Inside) /\ Cardinality(Inside) \in Nat \ {0}
            BY <2>2, Counts
        <3>2. CASE pc[h] = "read"
            <4>1. h \in Reading /\ Cardinality(Reading) \in Nat \ {0}
                BY <3>2, Counts, FS_EmptySet DEF Reading
            <4>2. /\ Cardinality(Inside') = Cardinality(Inside)
                  /\ Cardinality(Reading') = Cardinality(Reading) - 1
                BY <2>0, <2>1, <3>2, <1>t, Sizes DEF Held
            <4> QED
                BY <4>1, <4>2, <3>1, <2>0 DEF LocksMatch
        <3>3. CASE pc[h] = "write"
            <4>1. /\ Cardinality(Inside') = Cardinality(Inside) - 1
                  /\ Cardinality(Reading') = Cardinality(Reading)
                BY <2>0, <2>1, <3>3, <1>t, Sizes DEF Held
            <4> QED
                BY <4>1, <3>1, <2>0, Counts DEF LocksMatch
        <3> QED
            BY <3>2, <3>3, <2>0
    <2>4. TypeOK'
        BY <2>0, <2>3, <1>t DEF TypeOK
    <2>5. Current'
        BY <2>0, <1>t DEF Current, TypeOK, Control
    <2>6. WriterMatches'
        BY <2>0, <1>t DEF WriterMatches, Waiting, Control
    <2> QED
        BY <2>0, <2>2, <2>3, <2>4, <2>5, <2>6 DEF Exclusion, Replacing
<1>9. CASE UNCHANGED vars
    BY <1>9 DEF vars, mutex, update, requests, TypeOK, LocksMatch, WriterMatches, Exclusion,
        Replacing, Current, Inside, Reading, Waiting, HoldsOuter
<1> QED
    BY <1>1, <1>2, <1>3, <1>4, <1>5, <1>6, <1>7, <1>8, <1>9 DEF Next, Slot

LEMMA Invariance == Spec => []Inv
<1>1. Init => Inv
    BY InitInv
<1>2. Inv /\ [Next]_vars => Inv'
    BY InvStep
<1> QED
    BY <1>1, <1>2, PTL DEF Spec, SafeSpec

(* Every variable keeps its type; the mutex never counts below zero.       *)
THEOREM TypeCorrect == Spec => []TypeOK
BY Invariance, PTL DEF Inv

(* However many requests are in flight, each sees the documents of one     *)
(* update, and answers with the current one.                               *)
THEOREM RequestsSeeOneUpdate == Spec => []OneUpdateIsSeen
<1>1. Inv => OneUpdateIsSeen
    BY DEF Inv, OneUpdateIsSeen, Exclusion, WriterMatches, Replacing, Current, Inside, Writing
<1> QED
    BY <1>1, Invariance, PTL

(* Every read lock is given back: the mutex counts those of the requests   *)
(* that are inside, and no other.                                          *)
THEOREM LocksAreGivenBack == Spec => []LocksMatch
BY Invariance, PTL DEF Inv

(* The documents change only under the write lock, with no request inside. *)
THEOREM DocumentsChangeUnderTheLock ==
    Spec => [][data' # data => writer = "holding" /\ Inside = {}]_vars
<1>1. ASSUME Inv, [Next]_vars, data' # data
      PROVE  writer = "holding" /\ Inside = {}
    <2>1. upc \in {"forward", "reverse-ipv4", "reverse-ipv6"}
        BY <1>1 DEF Next, UpdateStarts, UpdateFails, LockAnnounced, LockAcquired, Locked, Replace,
            Unlocked, Unlock, Request, OuterRLock, InnerRLock, Getter, Respond, vars
    <2> QED
        BY <2>1, <1>1 DEF Inv, WriterMatches, Exclusion, Writing
<1>2. Inv /\ [Next]_vars => [data' # data => writer = "holding" /\ Inside = {}]_vars
    BY <1>1
<1> QED
    BY <1>2, Invariance, PTL DEF Spec, SafeSpec

-------------------------------------------------------------------------------
(* The records of PTRsForEndpoints. *)

(* The claims of a list, by their two coordinates. *)
LEMMA ClaimIs ==
    ASSUME NEW b, NEW c
    PROVE  c \in Claim(b) <=>
              /\ c = <<c[1], c[2]>>
              /\ c[1] \in 1..Len(b)
              /\ c[2] \in 1..Len(Addresses(b[c[1]]))
<1>1. ASSUME c \in Claim(b)
      PROVE  /\ c = <<c[1], c[2]>>
             /\ c[1] \in 1..Len(b)
             /\ c[2] \in 1..Len(Addresses(b[c[1]]))
  <2>1. PICK e \in 1..Len(b) : c \in {e} \X (1..Len(Addresses(b[e])))
    BY <1>1 DEF Claim
  <2> QED BY <2>1
<1>2. ASSUME c = <<c[1], c[2]>>, c[1] \in 1..Len(b), c[2] \in 1..Len(Addresses(b[c[1]]))
      PROVE  c \in Claim(b)
  <2>1. c \in {c[1]} \X (1..Len(Addresses(b[c[1]]))) BY <1>2
  <2> QED BY <1>2, <2>1 DEF Claim
<1> QED BY <1>1, <1>2

(* A claim is for an address of the list. *)
LEMMA AddressOfClaim ==
    ASSUME NEW b \in Batches \cup {<<>>}, NEW c \in Claim(b)
    PROVE  /\ c[1] \in Nat /\ c[2] \in Nat
           /\ Len(Addresses(b[c[1]])) \in Nat
           /\ AddressAt(b, c) \in Address
           /\ AddressType(AddressAt(b, c))
<1> DEFINE ep == b[c[1]]
<1>1. b \in Seq(Endpoint)
  <2>1. <<>> \in Seq(Endpoint) OBVIOUS
  <2> QED BY <2>1, BatchesAssumption
<1>2. c[1] \in 1..Len(b) /\ c[2] \in 1..Len(Addresses(ep)) BY ClaimIs
<1>3. ep \in Endpoint BY <1>1, <1>2
<1>4. Addresses(ep) \in Seq(Address)
  <2>1. ep.v4 \in Seq(Address) /\ ep.v6 \in Seq(Address) BY <1>3 DEF Endpoint
  <2> HIDE DEF ep
  <2> QED BY <2>1 DEF Addresses
<1>5. Len(Addresses(ep)) \in Nat BY <1>4
<1>6. AddressAt(b, c) \in Address BY <1>2, <1>4 DEF AddressAt
<1>7. c[1] \in Nat /\ c[2] \in Nat BY <1>1, <1>2, <1>5
<1> QED BY <1>5, <1>6, <1>7, AddressAssumption

(* A list reversed. *)
LEMMA ReversedIs ==
    ASSUME NEW S, NEW s \in Seq(S)
    PROVE  /\ Reversed(s) \in Seq(S)
           /\ Len(Reversed(s)) = Len(s)
           /\ \A i \in 1..Len(s) : Reversed(s)[i] = s[Len(s) + 1 - i]
<1>1. Len(s) \in Nat OBVIOUS
<1>2. \A i \in 1..Len(s) : Len(s) + 1 - i \in 1..Len(s) BY <1>1
<1>3. \A i \in 1..Len(s) : s[Len(s) + 1 - i] \in S BY <1>2
<1> QED BY <1>1, <1>3 DEF Reversed

(* FitsInReverseZone agrees with the reference: what fits is in the zone,  *)
(* and what is in a zone written with its dot fits, IPv4-mapped forms      *)
(* apart; it fails and panics for the reasons given.                       *)
THEOREM FitIsContainment ==
    ASSUME NEW a, AddressType(a), NEW z, ZoneType(z)
    PROVE  /\ FitsInReverseZone(a, z) = "yes" => Below(ReverseAddr(a), z)
           /\ z.dotted /\ ~a.mapped /\ a.kind # "invalid" /\ z.kind # "none"
                 /\ Below(ReverseAddr(a), z)
              => FitsInReverseZone(a, z) = "yes"
           /\ FitsInReverseZone(a, z) = "error" => a.kind = "invalid" \/ z.kind = "none"
           /\ FitsInReverseZone(a, z) = "panic" => Len(z.labels) > Width(z.kind)
<1> DEFINE w == Written(a)
           zl == z.labels
           rz == Reversed(zl)
           rl == Reversed(a.labels)
           n == Len(a.labels)
           m == Len(zl)
<1>1. a.labels \in Seq(Label) /\ zl \in Seq(Label) /\ n \in Nat /\ m \in Nat
  BY DEF AddressType, ZoneType
<1>2. /\ Len(rz) = m
      /\ \A i \in 1..m : rz[i] = zl[m + 1 - i]
  BY <1>1, ReversedIs
<1>3. /\ Len(rl) = n
      /\ \A i \in 1..n : rl[i] = a.labels[n + 1 - i]
  BY <1>1, ReversedIs
<1>4. a.kind \in Kind => n \in {4, 32} BY DEF AddressType, Width, Kind
<1>5. ASSUME a.kind \in Kind
      PROVE  /\ Len(w) = n
             /\ ~a.mapped => \A i \in 1..n : w[i] = a.labels[i]
             /\ \A i \in 1..n : w[i] = a.labels[i] \/ w[i] = Prefix
  <2>1. CASE a.kind = "ipv4" /\ a.mapped
    <3>0. n > 0
      <4> HIDE DEF n
      <4> QED BY <1>4, <1>5
    <3>1. a.labels \in Seq(Label) /\ Len(a.labels) > 0 BY <1>1, <3>0
    <3>2. /\ Tail(a.labels) \in Seq(Label)
          /\ Len(Tail(a.labels)) = n - 1
          /\ \A i \in 1..(n - 1) : Tail(a.labels)[i] = a.labels[i + 1]
      BY <3>1
    <3>3. w = <<Prefix>> \o Tail(a.labels) BY <2>1 DEF Written
    <3>4. Len(w) = n BY <3>1, <3>2, <3>3
    <3>5. \A i \in 1..n : w[i] = IF i = 1 THEN Prefix ELSE Tail(a.labels)[i - 1]
      BY <3>1, <3>2, <3>3
    <3>6. \A i \in 1..n : w[i] = a.labels[i] \/ w[i] = Prefix
      <4> TAKE i \in 1..n
      <4>1. CASE i = 1 BY <4>1, <3>5
      <4>2. CASE i # 1
        <5>1. i - 1 \in 1..(n - 1) /\ (i - 1) + 1 = i BY <4>2, <1>1
        <5> HIDE DEF w, n
        <5> QED BY <5>1, <4>2, <3>5, <3>2
      <4> QED BY <4>1, <4>2
    <3> QED BY <2>1, <3>4, <3>6
  <2>2. CASE ~(a.kind = "ipv4" /\ a.mapped)
    BY <2>2 DEF Written
  <2> QED BY <2>1, <2>2
<1>6. \A i \in 1..m : zl[i] \in Label BY <1>1
<1>7. \A i \in 1..m : m + 1 - i \in 1..m BY <1>1
<1>8. ReverseAddr(a).labels = rl /\ ReverseAddr(a).kind = a.kind BY DEF ReverseAddr
<1>9. Below(ReverseAddr(a), z) <=>
         a.kind = z.kind /\ m <= n /\ \A i \in 1..m : zl[i] = rl[n - m + i]
  BY <1>8, <1>3 DEF Below
<1>10. ASSUME m <= n
       PROVE  (\A i \in 1..m : zl[i] = rl[n - m + i])
                 <=> \A i \in 1..m : rz[i] = a.labels[i]
  <2> HIDE DEF zl, rz, rl, n, m
  <2>1. \A i \in 1..m : n - m + i \in 1..n /\ n + 1 - (n - m + i) = m + 1 - i
    BY <1>1, <1>10
  <2>2. \A i \in 1..m : rl[n - m + i] = a.labels[m + 1 - i] BY <2>1, <1>3
  <2>3. \A i \in 1..m : m + 1 - (m + 1 - i) = i BY <1>1
  <2>4. ASSUME \A i \in 1..m : zl[i] = rl[n - m + i], NEW j \in 1..m
        PROVE  rz[j] = a.labels[j]
    BY <2>4, <2>2, <2>3, <1>2, <1>7
  <2>5. ASSUME \A i \in 1..m : rz[i] = a.labels[i], NEW j \in 1..m
        PROVE  zl[j] = rl[n - m + j]
    <3>1. rz[m + 1 - j] = a.labels[m + 1 - j] BY <2>5, <1>7
    <3>2. rz[m + 1 - j] = zl[m + 1 - (m + 1 - j)] BY <1>2, <1>7
    <3>3. rl[n - m + j] = a.labels[m + 1 - j] BY <2>2
    <3> QED BY <3>1, <3>2, <3>3, <2>3
  <2> QED BY <2>4, <2>5
<1>11. FitsInReverseZone(a, z) = "yes" => Below(ReverseAddr(a), z)
  <2> SUFFICES ASSUME FitsInReverseZone(a, z) = "yes" PROVE Below(ReverseAddr(a), z) OBVIOUS
  <2>1. a.kind = z.kind /\ a.kind \in Kind /\ Compare(w, rz) = "yes"
    BY DEF FitsInReverseZone, AddressType, ZoneType, Kind
  <2> HIDE DEF w, rz, zl, rl, n, m
  <2>2. m <= n BY <2>1, <1>2, <1>5, <1>1 DEF Compare
  <2>3. \A i \in 1..m : rz[i] = w[i] BY <2>1, <2>2, <1>2, <1>5, <1>1 DEF Compare
  <2>4. ASSUME NEW i \in 1..m PROVE rz[i] = a.labels[i]
    <3>1. rz[i] \in Label BY <1>2, <1>6, <1>7
    <3>2. i \in 1..n BY <2>2, <1>1
    <3> QED BY <3>1, <3>2, <2>3, <1>5, <2>1, PrefixAssumption
  <2> QED BY <2>1, <2>2, <2>4, <1>9, <1>10
<1>12. ASSUME z.dotted, ~a.mapped, a.kind # "invalid", z.kind # "none", Below(ReverseAddr(a), z)
       PROVE  FitsInReverseZone(a, z) = "yes"
  <2>1. a.kind = z.kind /\ a.kind \in Kind BY <1>9, <1>12 DEF AddressType, Kind
  <2>2. FitsInReverseZone(a, z) = Compare(w, rz) BY <2>1, <1>12 DEF FitsInReverseZone
  <2> HIDE DEF w, rz, zl, rl, n, m
  <2>3. m <= n /\ \A i \in 1..m : rz[i] = a.labels[i] BY <1>9, <1>10, <1>12
  <2>4. \A i \in 1..m : i \in 1..n BY <2>3, <1>1
  <2>5. \A i \in 1..m : rz[i] = w[i] BY <2>1, <2>3, <2>4, <1>5, <1>12
  <2>6. Compare(w, rz) = "yes" BY <2>1, <2>3, <2>5, <1>2, <1>5, <1>1 DEF Compare
  <2> QED BY <2>2, <2>6
<1>13. FitsInReverseZone(a, z) = "error" => a.kind = "invalid" \/ z.kind = "none"
  BY DEF FitsInReverseZone, Compare
<1>14. FitsInReverseZone(a, z) = "panic" => Len(z.labels) > Width(z.kind)
  <2> SUFFICES ASSUME FitsInReverseZone(a, z) = "panic" PROVE m > Width(z.kind) OBVIOUS
  <2>1. a.kind = z.kind /\ a.kind \in Kind /\ Compare(w, rz) = "panic"
    BY DEF FitsInReverseZone, AddressType, ZoneType, Kind
  <2>2. n = Width(z.kind) BY <2>1 DEF AddressType
  <2> HIDE DEF w, rz, zl, rl, n, m
  <2> QED BY <2>1, <2>2, <1>2, <1>5, <1>1 DEF Compare
<1> QED BY <1>11, <1>12, <1>13, <1>14

-------------------------------------------------------------------------------
(* Every variable has its type. *)
THEOREM PTRTypeCorrect == PTRSpec => []PTRTypeOK
<1>1. PTRInit => PTRTypeOK BY DEF PTRInit, PTRTypeOK
<1>2. PTRTypeOK /\ [PTRNext]_ptrVars => PTRTypeOK'
  <2> SUFFICES ASSUME PTRTypeOK, [PTRNext]_ptrVars PROVE PTRTypeOK' OBVIOUS
  <2> USE DEF PTRTypeOK
  <2>1. CASE PTRsForEndpoints BY <2>1 DEF PTRsForEndpoints
  <2>2. CASE AddressFails BY <2>2 DEF AddressFails, arguments
  <2>3. CASE IndexOutOfRange BY <2>3 DEF IndexOutOfRange, arguments
  <2>4. CASE DoesNotFit BY <2>4 DEF DoesNotFit, NextAddress, arguments
  <2>5. CASE AlreadyRegistered BY <2>5 DEF AlreadyRegistered, NextAddress, arguments
  <2>6. CASE AddRecord
    <3>1. at \in Claim(endpoints) BY <2>6 DEF AddRecord, Looking
    <3>2. /\ RecordAt(endpoints, zone, at).at = at
          /\ RecordAt(endpoints, zone, at).name = NameAt(endpoints, at)
      BY DEF RecordAt
    <3>3. at' \in (Nat \ {0}) \X (Nat \ {0}) BY <2>6 DEF AddRecord, NextAddress
    <3>4. UNCHANGED <<endpoints, zone, result>> /\ seen' = seen \cup {NameAt(endpoints, at)}
          /\ records' = records \cup {RecordAt(endpoints, zone, at)}
      BY <2>6 DEF AddRecord, arguments
    <3>5. (\A r \in records : r.at \in Claim(endpoints) /\ r = RecordAt(endpoints, zone, r.at))'
      BY <3>1, <3>2, <3>4
    <3>6. (seen = {r.name : r \in records})' BY <3>2, <3>4
    <3> QED BY <3>3, <3>4, <3>5, <3>6
  <2>7. CASE NextEndpoint BY <2>7 DEF NextEndpoint, arguments
  <2>8. CASE Return BY <2>8 DEF Return, arguments
  <2>9. CASE UNCHANGED ptrVars BY <2>9 DEF ptrVars, arguments
  <2> QED BY <2>1, <2>2, <2>3, <2>4, <2>5, <2>6, <2>7, <2>8, <2>9 DEF PTRNext
<1> QED BY <1>1, <1>2, PTL DEF PTRSpec

-------------------------------------------------------------------------------
(* Where the loops are: every claim before the place they have reached     *)
(* fits or does not, one that fits has its name among the records, no      *)
(* record is for a claim beyond it, and they return at the end of the list *)
(* only.                                                                   *)
Progress ==
    /\ \A c \in Claim(endpoints) :
          Earlier(c, at) => /\ FitAt(c) \in {"yes", "no"}
                            /\ FitAt(c) = "yes" => NameAt(endpoints, c) \in seen
    /\ \A r \in records : Earlier(r.at, at)
    /\ result = "ok" => at[1] > Len(endpoints)

PTRInv == PTRTypeOK /\ Progress /\ FirstClaimantWins /\ FailuresExplained

(* Nothing lies between an address and the next. *)
LEMMA NextIsNext ==
    ASSUME NEW b \in Batches \cup {<<>>}, NEW c \in Claim(b), NEW d \in Claim(b),
           Earlier(c, <<d[1], d[2] + 1>>)
    PROVE  c = d \/ Earlier(c, d)
<1>1. c[1] \in Nat /\ c[2] \in Nat /\ d[1] \in Nat /\ d[2] \in Nat BY AddressOfClaim
<1>2. c = <<c[1], c[2]>> /\ d = <<d[1], d[2]>> BY ClaimIs
<1> QED BY <1>1, <1>2 DEF Earlier

(* A place that is no claim of its endpoint is past its last one. *)
LEMMA EndOfEndpoint ==
    ASSUME NEW b \in Batches \cup {<<>>}, NEW c \in Claim(b),
           NEW d \in (Nat \ {0}) \X (Nat \ {0}), d \notin Claim(b), d[1] <= Len(b),
           Earlier(c, <<d[1] + 1, 1>>)
    PROVE  Earlier(c, d)
<1>1. /\ c[1] \in Nat /\ c[2] \in Nat /\ Len(Addresses(b[c[1]])) \in Nat
      /\ c[2] \in 1..Len(Addresses(b[c[1]]))
  BY AddressOfClaim, ClaimIs
<1>2. d[1] \in Nat \ {0} /\ d[2] \in Nat \ {0} /\ d = <<d[1], d[2]>> OBVIOUS
<1>3. c[1] <= d[1] BY <1>1, <1>2 DEF Earlier
<1>4. CASE c[1] < d[1] BY <1>4 DEF Earlier
<1>5. CASE c[1] = d[1]
  <2>1. d[1] \in 1..Len(b)
    <3>1. c[1] \in 1..Len(b) BY ClaimIs
    <3> QED BY <3>1, <1>5
  <2>2. d[2] \notin 1..Len(Addresses(b[d[1]])) BY <2>1, <1>2, ClaimIs
  <2>3. d[2] > Len(Addresses(b[c[1]])) BY <2>2, <1>5, <1>1, <1>2
  <2> QED BY <2>3, <1>1, <1>2, <1>5 DEF Earlier
<1> QED BY <1>1, <1>2, <1>3, <1>4, <1>5

(* A fit is a failure or a panic for the reasons FailuresExplained gives. *)
LEMMA FitFails ==
    ASSUME PTRTypeOK, at \in Claim(endpoints)
    PROVE  /\ FitAt(at) = "error" =>
                 AddressAt(endpoints, at).kind = "invalid" \/ (zone # NoZone /\ zone.kind = "none")
           /\ FitAt(at) = "panic" => zone # NoZone /\ Len(zone.labels) > Width(zone.kind)
<1>1. AddressType(AddressAt(endpoints, at)) BY AddressOfClaim DEF PTRTypeOK
<1>2. CASE zone = NoZone BY <1>2 DEF FitAt, Fit
<1>3. CASE zone # NoZone
  <2>1. ZoneType(zone) BY <1>3, ZoneAssumption DEF PTRTypeOK
  <2> QED BY <1>1, <1>3, <2>1, FitIsContainment DEF FitAt, Fit
<1> QED BY <1>2, <1>3

(* PTRsForEndpoints (ptr.go:60): each address before the current one that  *)
(* fits has its name taken, by the first that has it.                      *)
THEOREM InvCorrect == PTRSpec => []PTRInv
<1>1. PTRInit => PTRInv
  <2> SUFFICES ASSUME PTRInit PROVE PTRInv OBVIOUS
  <2>1. PTRTypeOK BY DEF PTRInit, PTRTypeOK
  <2>2. Claim(<<>>) = {} BY DEF Claim
  <2> QED BY <2>1, <2>2 DEF PTRInit, PTRInv, Progress, FirstClaimantWins, FailuresExplained
<1>2. PTRInv /\ PTRTypeOK' /\ [PTRNext]_ptrVars => PTRInv'
  <2> SUFFICES ASSUME PTRInv, PTRTypeOK', [PTRNext]_ptrVars PROVE PTRInv' OBVIOUS
  <2>t. PTRTypeOK BY DEF PTRInv
  <2>b. endpoints \in Batches \cup {<<>>} BY <2>t DEF PTRTypeOK
  <2>n. at \in (Nat \ {0}) \X (Nat \ {0}) /\ at[1] \in Nat /\ at[2] \in Nat /\ at = <<at[1], at[2]>>
    BY <2>t DEF PTRTypeOK
  <2>1. CASE PTRsForEndpoints
    <3>1. at' = <<1, 1>> /\ records' = {} /\ result' = "running"
          /\ endpoints' \in Batches \cup {<<>>}
      BY <2>1 DEF PTRsForEndpoints
    <3>2. \A c \in Claim(endpoints') : ~Earlier(c, <<1, 1>>)
      <4> TAKE c \in Claim(endpoints')
      <4>1. c[1] \in 1..Len(endpoints') /\ c[2] \in 1..Len(Addresses(endpoints'[c[1]]))
        BY ClaimIs
      <4>2. c[1] \in Nat /\ c[2] \in Nat BY <3>1, AddressOfClaim
      <4>3. c[1] >= 1 /\ c[2] >= 1 BY <4>1, <4>2
      <4> QED BY <4>2, <4>3 DEF Earlier
    <3> QED BY <3>1, <3>2 DEF PTRInv, Progress, FirstClaimantWins, FailuresExplained
  <2>2. CASE AddressFails
    <3>1. at \in Claim(endpoints) /\ FitAt(at) = "error" BY <2>2 DEF AddressFails, Looking
    <3> QED BY <2>2, <2>t, <3>1, FitFails
         DEF AddressFails, arguments, PTRInv, Progress, FirstClaimantWins, FailuresExplained, FitAt
  <2>3. CASE IndexOutOfRange
    <3>1. at \in Claim(endpoints) /\ FitAt(at) = "panic" BY <2>3 DEF IndexOutOfRange, Looking
    <3> QED BY <2>3, <2>t, <3>1, FitFails
         DEF IndexOutOfRange, arguments, PTRInv, Progress, FirstClaimantWins, FailuresExplained, FitAt
  <2>4. ASSUME Looking("no") \/ (Looking("yes") /\ NameAt(endpoints, at) \in seen),
               NextAddress, UNCHANGED <<arguments, seen, records, result>>
        PROVE  PTRInv'
    <3>1. at \in Claim(endpoints) /\ result = "running"
          /\ FitAt(at) \in {"yes", "no"} /\ (FitAt(at) = "yes" => NameAt(endpoints, at) \in seen)
      BY <2>4 DEF Looking
    <3>2. at' = <<at[1], at[2] + 1>> /\ UNCHANGED <<endpoints, zone, seen, records, result>>
      BY <2>4 DEF NextAddress, arguments
    <3>3. \A c \in Claim(endpoints) : Earlier(c, at') => c = at \/ Earlier(c, at)
      BY <3>1, <3>2, <2>b, NextIsNext
    <3>4. \A c \in Claim(endpoints) : Earlier(c, at) => Earlier(c, at')
      <4> TAKE c \in Claim(endpoints)
      <4>1. c[1] \in Nat /\ c[2] \in Nat BY <2>b, AddressOfClaim
      <4> QED BY <4>1, <3>2, <2>n DEF Earlier
    <3>5. Progress' BY <2>t, <3>1, <3>2, <3>3, <3>4 DEF PTRTypeOK, PTRInv, Progress, FitAt
    <3> QED BY <3>1, <3>2, <3>5 DEF PTRInv, FirstClaimantWins, FailuresExplained, FitAt
  <2>5. CASE DoesNotFit BY <2>5, <2>4 DEF DoesNotFit
  <2>6. CASE AlreadyRegistered BY <2>6, <2>4 DEF AlreadyRegistered
  <2>7. CASE AddRecord
    <3> DEFINE new == RecordAt(endpoints, zone, at)
    <3>1. /\ at \in Claim(endpoints) /\ result = "running" /\ FitAt(at) = "yes"
          /\ NameAt(endpoints, at) \notin seen
      BY <2>7 DEF AddRecord, Looking
    <3>2. /\ at' = <<at[1], at[2] + 1>> /\ UNCHANGED <<endpoints, zone, result>>
          /\ seen' = seen \cup {NameAt(endpoints, at)}
          /\ records' = records \cup {new}
      BY <2>7 DEF AddRecord, NextAddress, arguments
    <3>3. new.at = at /\ new.name = NameAt(endpoints, at) BY DEF RecordAt
    <3>4. \A c \in Claim(endpoints) : Earlier(c, at') => c = at \/ Earlier(c, at)
      BY <3>1, <3>2, <2>b, NextIsNext
    <3>5. /\ \A c \in Claim(endpoints) : Earlier(c, at) => Earlier(c, at')
          /\ Earlier(at, at')
      <4>1. \A c \in Claim(endpoints) : c[1] \in Nat /\ c[2] \in Nat
        BY <2>b, AddressOfClaim
      <4> QED BY <4>1, <3>2, <2>n DEF Earlier
    <3> HIDE DEF new
    <3>6. Progress' BY <2>t, <3>1, <3>2, <3>3, <3>4, <3>5 DEF PTRTypeOK, PTRInv, Progress, FitAt
    <3>7. FirstClaimantWins'
      <4>1. \A c \in Claim(endpoints) :
               Earlier(c, at) /\ FitAt(c) = "yes" => NameAt(endpoints, c) # new.name
        BY <3>1, <3>3 DEF PTRInv, Progress
      <4> QED BY <4>1, <3>1, <3>2, <3>3 DEF PTRInv, FirstClaimantWins, FitAt
    <3> QED BY <3>1, <3>2, <3>6, <3>7 DEF PTRInv, FailuresExplained
  <2>8. CASE NextEndpoint
    <3>1. /\ result = "running" /\ at[1] <= Len(endpoints) /\ at \notin Claim(endpoints)
          /\ at' = <<at[1] + 1, 1>> /\ UNCHANGED <<endpoints, zone, seen, records, result>>
      BY <2>8 DEF NextEndpoint, arguments
    <3>2. \A c \in Claim(endpoints) : Earlier(c, at') => Earlier(c, at)
      BY <3>1, <2>b, <2>n, EndOfEndpoint
    <3>3. \A r \in records : Earlier(r.at, at')
      <4> TAKE r \in records
      <4>1. r.at \in Claim(endpoints) /\ Earlier(r.at, at) BY DEF PTRInv, PTRTypeOK, Progress
      <4>2. r.at[1] \in Nat BY <4>1, <2>b, AddressOfClaim
      <4> QED BY <4>1, <4>2, <3>1, <2>n DEF Earlier
    <3>4. Progress' BY <3>1, <3>2, <3>3 DEF PTRInv, Progress, FitAt
    <3> QED BY <3>1, <3>4 DEF PTRInv, FirstClaimantWins, FailuresExplained, FitAt
  <2>9. CASE Return
    BY <2>9 DEF Return, arguments, PTRInv, Progress, FirstClaimantWins, FailuresExplained, FitAt
  <2>10. CASE UNCHANGED ptrVars
    BY <2>10 DEF ptrVars, arguments, PTRInv, Progress, FirstClaimantWins, FailuresExplained, FitAt
  <2> QED BY <2>1, <2>2, <2>3, <2>5, <2>6, <2>7, <2>8, <2>9, <2>10 DEF PTRNext
<1> QED BY <1>1, <1>2, PTRTypeCorrect, PTL DEF PTRSpec

(* Of the addresses with one reverse name, the first in the list has it. *)
THEOREM FirstClaimantWinsHolds == PTRSpec => []FirstClaimantWins
<1>1. PTRInv => FirstClaimantWins BY DEF PTRInv
<1> QED BY <1>1, InvCorrect, PTL

(* An error and a panic have the reasons FailuresExplained gives. *)
THEOREM FailuresExplainedHolds == PTRSpec => []FailuresExplained
<1>1. PTRInv => FailuresExplained BY DEF PTRInv
<1> QED BY <1>1, InvCorrect, PTL

(* A call that returns no error has a record for every name that is in the *)
(* zone.                                                                   *)
THEOREM EveryAddressNamedHolds == PTRSpec => []EveryAddressNamed
<1>1. PTRInv => EveryAddressNamed
  <2> SUFFICES ASSUME PTRInv, result = "ok", NEW c \in Claim(endpoints),
                      InZone(AddressAt(endpoints, c))
               PROVE  \E r \in records : r.name = NameAt(endpoints, c)
    BY DEF EveryAddressNamed
  <2> DEFINE a == AddressAt(endpoints, c)
  <2>1. /\ at[1] > Len(endpoints) /\ at[1] \in Nat
        /\ endpoints \in Batches \cup {<<>>} /\ zone \in Zone \cup {NoZone}
    BY DEF PTRInv, Progress, PTRTypeOK
  <2>2. AddressType(a) BY <2>1, AddressOfClaim
  <2>3. Earlier(c, at)
    <3>1. c[1] \in 1..Len(endpoints) BY ClaimIs
    <3>2. Len(endpoints) \in Nat
      <4>1. endpoints \in Seq(Endpoint)
        <5>1. <<>> \in Seq(Endpoint) OBVIOUS
        <5> QED BY <5>1, <2>1, BatchesAssumption
      <4> QED BY <4>1
    <3> QED BY <3>1, <3>2, <2>1 DEF Earlier
  <2>4. FitAt(c) \in {"yes", "no"} /\ (FitAt(c) = "yes" => NameAt(endpoints, c) \in seen)
    BY <2>3 DEF PTRInv, Progress
  <2>5. FitAt(c) = "yes"
    <3>1. CASE zone = NoZone BY <3>1, <2>4 DEF FitAt, Fit
    <3>2. CASE zone # NoZone
      <4>1. ZoneType(zone) BY <2>1, <3>2, ZoneAssumption
      <4>2. zone.dotted /\ ~a.mapped /\ Below(ReverseAddr(a), zone) BY <3>2 DEF InZone
      <4>3. a.kind = zone.kind BY <4>2 DEF Below, ReverseAddr
      <4>4. a.kind # "invalid" /\ zone.kind # "none"
        BY <4>1, <4>3, <2>2 DEF AddressType, ZoneType, Kind
      <4>5. FitsInReverseZone(a, zone) = "yes"
        BY <4>1, <4>2, <4>4, <2>2, FitIsContainment
      <4> QED BY <4>5, <3>2 DEF FitAt, Fit
    <3> QED BY <3>1, <3>2
  <2>6. NameAt(endpoints, c) \in seen BY <2>4, <2>5
  <2> QED BY <2>6 DEF PTRInv, PTRTypeOK
<1> QED BY <1>1, InvCorrect, PTL

-------------------------------------------------------------------------------
(* A list is what stands before a suffix of it, and the suffix. *)
LEMMA SuffixSplit ==
    ASSUME NEW S, NEW s \in Seq(S), NEW t \in Seq(S), NEW k \in Nat, k + Len(t) = Len(s),
           \A i \in 1..Len(t) : t[i] = s[k + i]
    PROVE  /\ SubSeq(s, 1, k) \in Seq(S)
           /\ Len(SubSeq(s, 1, k)) = k
           /\ SubSeq(s, 1, k) \o t = s
<1> DEFINE sub == SubSeq(s, 1, k)
<1>0. Len(s) \in Nat /\ Len(t) \in Nat /\ k <= Len(s) OBVIOUS
<1>1. /\ Len(sub) = k
      /\ \A i \in 1..k : sub[i] = s[i]
  BY <1>0
<1>2. sub \in Seq(S)
  <2>1. \A i \in 1..k : s[i] \in S BY <1>0
  <2> QED BY <2>1, <1>0
<1> HIDE DEF sub
<1> DEFINE cat == sub \o t
<1>3. cat \in Seq(S) /\ Len(cat) = Len(s) BY <1>0, <1>1, <1>2
<1>4. ASSUME NEW i \in 1..Len(s) PROVE cat[i] = s[i]
  <2>1. CASE i <= k
    <3>1. i \in 1..k BY <2>1, <1>0
    <3>2. cat[i] = sub[i] BY <3>1, <1>0, <1>1, <1>2
    <3> QED BY <3>1, <3>2, <1>1
  <2>2. CASE i > k
    <3>1. i - k \in 1..Len(t) /\ k + (i - k) = i BY <2>2, <1>0
    <3>2. cat[i] = t[i - k] BY <2>2, <1>0, <1>1, <1>2
    <3> QED BY <3>1, <3>2
  <2>3. i <= k \/ i > k BY <1>0
  <2> HIDE DEF cat
  <2> QED BY <2>1, <2>2, <2>3
<1> HIDE DEF cat
<1>5. cat = s BY <1>3, <1>4
<1> QED BY <1>1, <1>2, <1>5 DEF cat, sub

(* A name in a zone is its relative name followed by the zone. *)
LEMMA RelativeResolves ==
    ASSUME NEW name, name.labels \in Seq(Label), NEW z, ZoneType(z), Below(name, z),
           NEW r, r = RFC1035DomainName(name, z)
    PROVE  /\ r # <<>>
           /\ (IF r = Apex THEN <<>> ELSE r) \o z.labels = name.labels
<1>1. PICK nl \in Seq(Label) : nl = name.labels OBVIOUS
<1>2. PICK zl \in Seq(Label) : zl = z.labels BY DEF ZoneType
<1>b. /\ Len(zl) <= Len(nl)
      /\ \A i \in 1..Len(zl) : zl[i] = nl[Len(nl) - Len(zl) + i]
  BY <1>1, <1>2 DEF Below
<1>3. PICK k \in Nat : k = Len(nl) - Len(zl)
  <2>1. Len(nl) \in Nat /\ Len(zl) \in Nat OBVIOUS
  <2>2. Len(nl) - Len(zl) \in Nat BY <2>1, <1>b
  <2> QED BY <2>2
<1>4. k + Len(zl) = Len(nl) /\ \A i \in 1..Len(zl) : zl[i] = nl[k + i]
  BY <1>b, <1>3
<1>5. /\ SubSeq(nl, 1, k) \in Seq(Label)
      /\ Len(SubSeq(nl, 1, k)) = k
      /\ SubSeq(nl, 1, k) \o zl = nl
  BY <1>4, SuffixSplit
<1>6. Apex # <<>> BY DEF Apex
<1>7. CASE k = 0
  <2>1. r = Apex
    <3>1. Len(name.labels) = Len(z.labels)
      <4>1. Len(nl) = Len(zl) BY <1>4, <1>7
      <4> QED BY <4>1, <1>1, <1>2
    <3> QED BY <3>1 DEF RFC1035DomainName
  <2>2. SubSeq(nl, 1, k) = <<>> BY <1>5, <1>7
  <2> QED BY <2>1, <2>2, <1>1, <1>2, <1>5, <1>6
<1>8. CASE k # 0
  <2>1. r = SubSeq(nl, 1, k)
    <3>1. Len(nl) # Len(zl) BY <1>3, <1>8
    <3> QED BY <3>1, <1>1, <1>2, <1>3 DEF RFC1035DomainName
  <2>2. 1 \in 1..k /\ r \in Seq(Label) /\ Len(r) = k BY <2>1, <1>5, <1>8
  <2>3. r # <<>> BY <2>2
  <2>4. r[1] \in Label BY <2>2
  <2>5. r # Apex BY <2>4, PrefixAssumption DEF Apex
  <2> QED BY <2>1, <2>3, <2>5, <1>1, <1>2, <1>5
<1> QED BY <1>7, <1>8

(* The name of a record is in the zone, and its relative name means it. *)
THEOREM RecordsInZoneHolds == PTRSpec => []RecordsInZone
<1>1. PTRInv => RecordsInZone
  <2> SUFFICES ASSUME PTRInv, NEW r \in records, zone # NoZone
               PROVE  /\ Below(r.name, zone)
                      /\ r.relative # <<>>
                      /\ (IF r.relative = Apex THEN <<>> ELSE r.relative) \o zone.labels = r.name.labels
    BY DEF RecordsInZone
  <2> DEFINE a == AddressAt(endpoints, r.at)
  <2>1. /\ endpoints \in Batches \cup {<<>>} /\ zone \in Zone
        /\ r.at \in Claim(endpoints) /\ r = RecordAt(endpoints, zone, r.at)
    BY DEF PTRInv, PTRTypeOK
  <2>2. AddressType(a) /\ ZoneType(zone) BY <2>1, AddressOfClaim, ZoneAssumption
  <2>3. r.name = ReverseAddr(a)
    <3>1. RecordAt(endpoints, zone, r.at).name = NameAt(endpoints, r.at) BY DEF RecordAt
    <3> QED BY <3>1, <2>1 DEF NameAt
  <2>4. r.relative = RFC1035DomainName(r.name, zone)
    <3>1. RecordAt(endpoints, zone, r.at).relative = RFC1035DomainName(NameAt(endpoints, r.at), zone)
      BY DEF RecordAt
    <3> QED BY <3>1, <2>1, <2>3 DEF NameAt
  <2>5. FitsInReverseZone(a, zone) = "yes"
    <3>1. FitAt(r.at) = "yes" BY DEF PTRInv, FirstClaimantWins
    <3> QED BY <3>1 DEF FitAt, Fit
  <2>6. Below(r.name, zone) BY <2>2, <2>3, <2>5, FitIsContainment
  <2>7. r.name.labels \in Seq(Label)
    <3>1. a.labels \in Seq(Label) BY <2>2 DEF AddressType
    <3>2. r.name.labels = Reversed(a.labels) BY <2>3 DEF ReverseAddr
    <3> HIDE DEF a
    <3> QED BY <3>1, <3>2, ReversedIs
  <2> QED BY <2>2, <2>4, <2>6, <2>7, RelativeResolves
<1> QED BY <1>1, InvCorrect, PTL
===============================================================================
