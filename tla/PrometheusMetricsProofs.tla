------------------------ MODULE PrometheusMetricsProofs ------------------------
(***************************************************************************)
(* What PrometheusMetrics promises for every list of endpoints and any     *)
(* number of scrapes.                                                      *)
(*                                                                         *)
(* The argument: while an update holds the mutex the metrics are those of  *)
(* the places before `at' (Progress); when it has let go of it, they are   *)
(* all that a list makes (Settled).  A scrape holds the mutex while it     *)
(* collects, so what it has in the end is what a list makes.               *)
(***************************************************************************)
EXTENDS PrometheusMetrics, TLAPS

Before(p, q) == p[1] < q[1] \/ (p[1] = q[1] /\ p[2] < q[2])

(* What a list makes before place q. *)
PushedBefore(b, q) == {Metric(b, p) : p \in {r \in Place(b) : Before(r, q)}}
Whole(b) == {Metric(b, p) : p \in Place(b)}

Progress ==
    upc = "push" =>
        /\ metrics = PushedBefore(batch, at)
        /\ at[1] \in 1..Len(batch) + 1
        /\ at[1] <= Len(batch) => at[2] \in 1..Size(batch[at[1]]) + 1
        /\ \A e \in 1..Len(batch) :
              e < at[1] \/ (e = at[1] /\ at[2] > 1) => batch[e].host \notin Refused

Settled ==
    /\ upc # "push" => \E b \in Batches \cup {<<>>} : metrics = Pushed(b)
    /\ outcome = "ok" => upc = "idle" /\ metrics = Whole(batch)

Collecting ==
    \A s \in Scrape :
        /\ pc[s] = "collect" => collected[s] \subseteq metrics
        /\ pc[s] = "gather" => \E b \in Batches \cup {<<>>} : collected[s] = Pushed(b)

Inv == TypeOK /\ Progress /\ Settled /\ Collecting

(* Every list has a type, and every endpoint a metric.                     *)
LEMMA BatchType ==
    ASSUME NEW b \in Batches \cup {<<>>}
    PROVE  b \in Seq(Endpoint) /\ Len(b) \in Nat /\ \A e \in 1..Len(b) : b[e] \in Endpoint
<1>1. CASE b \in Batches
    BY <1>1, BatchesAssumption
<1>2. CASE b = <<>>
    BY <1>2
<1> QED
    BY <1>1, <1>2

(* Products and quotients, which the places of metrics are made of. *)
LEMMA ProductPositive ==
    ASSUME NEW m \in Int, NEW n \in Int, m > 0, n > 0
    PROVE  m * n \in Int /\ m * n > 0
BY Z3

LEMMA ProductMonotone ==
    ASSUME NEW q \in Int, NEW m \in Int, NEW n \in Int, NEW r \in Int,
           n > 0, 0 <= q, q < m, 0 <= r, r < n
    PROVE  q * n + r \in Int /\ m * n \in Int /\ 0 <= q * n + r /\ q * n + r < m * n
BY Z3

LEMMA QuotientBound ==
    ASSUME NEW q \in Int, NEW m \in Int, NEW n \in Int, NEW r \in Int,
           n > 0, 0 <= q * n + r, q * n + r < m * n, 0 <= r, r < n
    PROVE  0 <= q /\ q < m
BY Z3

LEMMA QuotientUnique ==
    ASSUME NEW q \in Int, NEW n \in Int, NEW r \in Int, n > 0, 0 <= r, r < n
    PROVE  (q * n + r) \div n = q /\ (q * n + r) % n = r
BY Z3

LEMMA QuotientAndRest ==
    ASSUME NEW k \in Int, NEW n \in Int, n > 0
    PROVE  /\ k \div n \in Int /\ k % n \in Int
           /\ k = (k \div n) * n + (k % n) /\ 0 <= k % n /\ k % n < n
BY Z3

LEMMA SizeType ==
    ASSUME NEW ep \in Endpoint
    PROVE  /\ Len(OrNone(ep.v4)) \in Nat \ {0}
           /\ Len(OrNone(ep.v6)) \in Nat \ {0}
           /\ Size(ep) \in Nat \ {0}
<1>1. ep.v4 \in Seq(V4) /\ ep.v6 \in Seq(V6)
    BY DEF Endpoint
<1>2. Len(OrNone(ep.v4)) \in Nat \ {0}
    BY <1>1 DEF OrNone
<1>3. Len(OrNone(ep.v6)) \in Nat \ {0}
    BY <1>1 DEF OrNone
<1> QED
    BY <1>2, <1>3, ProductPositive DEF Size

LEMMA PlaceType ==
    ASSUME NEW b \in Batches \cup {<<>>}
    PROVE  \A p : p \in Place(b) <=>
                    /\ p = <<p[1], p[2]>>
                    /\ p[1] \in 1..Len(b) /\ p[2] \in 1..Size(b[p[1]])
BY DEF Place

(* The first endpoint has been reached, and nothing of it pushed. *)
LEMMA NothingBefore ==
    ASSUME NEW b \in Batches \cup {<<>>}
    PROVE  PushedBefore(b, <<1, 1>>) = {} /\ Pushed(<<>>) = {}
<1>1. \A p \in Place(b) : p[1] >= 1 /\ p[2] >= 1 /\ p[1] \in Nat /\ p[2] \in Nat
    BY PlaceType, BatchType, SizeType
<1>2. Place(<<>>) = {}
    BY DEF Place
<1> QED
    BY <1>1, <1>2 DEF PushedBefore, Before, Pushed

(* Pushing the metric of a place makes the list of the next place.         *)
LEMMA PushMakesNext ==
    ASSUME NEW b \in Batches \cup {<<>>}, NEW q \in Place(b)
    PROVE  PushedBefore(b, <<q[1], q[2] + 1>>) = PushedBefore(b, q) \cup {Metric(b, q)}
<1>1. \A p \in Place(b) : p = <<p[1], p[2]>> /\ p[1] \in Nat /\ p[2] \in Nat
    BY PlaceType, BatchType, SizeType
<1>2. \A p \in Place(b) : Before(p, <<q[1], q[2] + 1>>) <=> Before(p, q) \/ p = q
    BY <1>1 DEF Before
<1> QED
    BY <1>2 DEF PushedBefore

(* An endpoint without a place left is done with.                          *)
LEMMA NextMakesSame ==
    ASSUME NEW b \in Batches \cup {<<>>}, NEW e \in 1..Len(b)
    PROVE  PushedBefore(b, <<e + 1, 1>>) = PushedBefore(b, <<e, Size(b[e]) + 1>>)
<1>1. \A p \in Place(b) :
        p = <<p[1], p[2]>> /\ p[1] \in Nat /\ p[2] \in Nat \ {0} /\ p[2] <= Size(b[p[1]])
    BY PlaceType, BatchType, SizeType
<1>2. e \in Nat /\ Size(b[e]) \in Nat
    BY BatchType, SizeType
<1>3. \A p \in Place(b) : Before(p, <<e + 1, 1>>) <=> Before(p, <<e, Size(b[e]) + 1>>)
    BY <1>1, <1>2 DEF Before
<1> QED
    BY <1>3 DEF PushedBefore

(* With no endpoint left, the list is whole.                               *)
LEMMA AllPushed ==
    ASSUME NEW b \in Batches \cup {<<>>}, NEW k
    PROVE  PushedBefore(b, <<Len(b) + 1, k>>) = Whole(b)
<1>1. \A p \in Place(b) : p[1] \in 1..Len(b)
    BY PlaceType
<1>2. \A p \in Place(b) : Before(p, <<Len(b) + 1, k>>)
    BY <1>1, BatchType DEF Before
<1> QED
    BY <1>2 DEF PushedBefore, Whole

(* A whole list has no refused host; one stopped at a refused host has the *)
(* metrics before it.                                                      *)
LEMMA WholeIsPushed ==
    ASSUME NEW b \in Batches \cup {<<>>}, \A e \in 1..Len(b) : b[e].host \notin Refused
    PROVE  Whole(b) = Pushed(b)
<1>1. \A p \in Place(b) : p[1] \in 1..Len(b) /\ p[1] \in Nat
    BY PlaceType, BatchType
<1>2. \A p \in Place(b) : \A e \in 1..p[1] : e \in 1..Len(b)
    BY <1>1, BatchType
<1> QED
    BY <1>2 DEF Whole, Pushed

LEMMA StoppedIsPushed ==
    ASSUME NEW b \in Batches \cup {<<>>}, NEW e \in 1..Len(b),
           b[e].host \in Refused, \A d \in 1..e - 1 : b[d].host \notin Refused
    PROVE  PushedBefore(b, <<e, 1>>) = Pushed(b)
<1>1. e \in Nat /\ \A p \in Place(b) : p[1] \in Nat \ {0} /\ p[2] \in Nat \ {0}
    BY PlaceType, BatchType, SizeType
<1>2. ASSUME NEW p \in Place(b)
      PROVE  Before(p, <<e, 1>>) <=> \A d \in 1..p[1] : b[d].host \notin Refused
    <2>1. CASE p[1] < e
        BY <2>1, <1>1 DEF Before
    <2>2. CASE p[1] >= e
        BY <2>2, <1>1 DEF Before
    <2> QED
        BY <2>1, <2>2, <1>1
<1> QED
    BY <1>2 DEF PushedBefore, Pushed

LEMMA InitInv == Init => Inv
<1> SUFFICES ASSUME Init PROVE Inv
    OBVIOUS
<1>1. TypeOK
    BY ScrapeAssumption DEF Init, TypeOK
<1>2. metrics = Pushed(<<>>)
    BY NothingBefore DEF Init
<1> QED
    BY <1>1, <1>2 DEF Init, Inv, Progress, Settled, Collecting

(* What a step of the update that leaves the scrapes alone must show: the  *)
(* scrapes that collect hold the mutex, so it is not one of an update that *)
(* changes the metrics.                                                    *)
LEMMA ScrapesUndisturbed ==
    ASSUME TypeOK, Collecting, UNCHANGED scrapes,
           metrics' # metrics => mutex \in {"none", "update"}
    PROVE  Collecting'
<1>1. \A s \in Scrape : pc[s] = "collect" => mutex = s /\ s \notin {"none", "update"}
    BY ScrapeAssumption DEF TypeOK
<1> QED
    BY <1>1 DEF Collecting, scrapes

LEMMA UpdateStep ==
    ASSUME Inv, UpdateEndpoints \/ LockAndEmpty \/ Push \/ NextEndpoint \/ PushFails \/ Updated
    PROVE  Inv'
<1> USE DEF Inv
<1>b. /\ batch \in Batches \cup {<<>>} /\ Len(batch) \in Nat
      /\ \A e \in 1..Len(batch) : batch[e] \in Endpoint /\ Size(batch[e]) \in Nat \ {0}
    BY BatchType, SizeType DEF TypeOK
<1>a. at = <<at[1], at[2]>> /\ at[1] \in Nat \ {0} /\ at[2] \in Nat \ {0}
    BY DEF TypeOK
<1>1. CASE UpdateEndpoints
    <2>1. /\ UNCHANGED <<metrics, mutex, at, scrapes>> /\ upc = "idle" /\ upc' = "lock"
          /\ batch' \in Batches /\ outcome' = "none"
        BY <1>1 DEF UpdateEndpoints
    <2>2. TypeOK'
        BY <2>1 DEF TypeOK, scrapes
    <2> QED
        BY <2>1, <2>2, ScrapesUndisturbed DEF Progress, Settled
<1>2. CASE LockAndEmpty
    <2>1. /\ UNCHANGED <<batch, outcome, scrapes>> /\ upc = "lock" /\ upc' = "push"
          /\ mutex = "none" /\ mutex' = "update" /\ metrics' = {} /\ at' = <<1, 1>>
        BY <1>2 DEF LockAndEmpty, Emptied
    <2>2. TypeOK'
        BY <2>1, ScrapeAssumption DEF TypeOK, scrapes
    <2>3. Progress'
        BY <2>1, <1>b, NothingBefore DEF Progress
    <2> QED
        BY <2>1, <2>2, <2>3, ScrapesUndisturbed DEF Settled
<1>3. CASE Push
    <2>1. /\ UNCHANGED <<mutex, upc, batch, outcome, scrapes>> /\ upc = "push"
          /\ at \in Place(batch) /\ batch[at[1]].host \notin Refused
          /\ metrics' = metrics \cup {Metric(batch, at)} /\ at' = <<at[1], at[2] + 1>>
        BY <1>3 DEF Push
    <2>2. at[1] \in 1..Len(batch) /\ at[2] \in 1..Size(batch[at[1]])
        BY <2>1, <1>b, PlaceType
    <2>3. TypeOK'
        <3>1. Metric(batch, at).place = at /\ Metric(batch, at).labels.host = batch[at[1]].host
            BY DEF Metric, Labels
        <3>2. batch[at[1]].host \in Host
            BY <2>2, <1>b DEF Endpoint
        <3> QED
            BY <2>1, <3>1, <3>2, <1>a DEF TypeOK, scrapes
    <2>4. metrics' = PushedBefore(batch, at')
        BY <2>1, <1>b, PushMakesNext DEF Progress
    <2>5. Progress'
        <3>1. at'[1] = at[1] /\ at'[2] = at[2] + 1 /\ batch' = batch /\ upc' = "push"
            BY <2>1
        <3>2. metrics' = PushedBefore(batch, at)'
            BY <2>4, <3>1 DEF PushedBefore
        <3>3. at'[2] \in 1..Size(batch[at[1]]) + 1
            BY <3>1, <2>2, <1>b
        <3>4. \A e \in 1..Len(batch) : e < at[1] \/ e = at[1] => batch[e].host \notin Refused
            BY <2>1, <1>a DEF Progress
        <3> QED
            BY <3>1, <3>2, <3>3, <3>4, <2>2, <1>b DEF Progress
    <2>6. mutex = "update"
        BY <2>1 DEF TypeOK
    <2> QED
        BY <2>1, <2>3, <2>5, <2>6, ScrapesUndisturbed DEF Settled
<1>4. CASE NextEndpoint
    <2>1. /\ UNCHANGED <<metrics, mutex, upc, batch, outcome, scrapes>> /\ upc = "push"
          /\ at[1] <= Len(batch) /\ at \notin Place(batch) /\ at' = <<at[1] + 1, 1>>
        BY <1>4 DEF NextEndpoint
    <2>2. at[1] \in 1..Len(batch) /\ at[2] = Size(batch[at[1]]) + 1
        BY <2>1, <1>a, <1>b, PlaceType DEF Progress
    <2>3. TypeOK'
        BY <2>1, <1>a DEF TypeOK, scrapes
    <2>4. metrics' = PushedBefore(batch, at')
        BY <2>1, <2>2, <1>a, <1>b, NextMakesSame DEF Progress
    <2>5. Progress'
        BY <2>1, <2>2, <2>4, <1>a, <1>b DEF Progress, PushedBefore
    <2> QED
        BY <2>1, <2>3, <2>5, ScrapesUndisturbed DEF Settled
<1>5. CASE PushFails
    <2>1. /\ UNCHANGED <<metrics, batch, at, scrapes>> /\ upc = "push" /\ upc' = "idle"
          /\ at \in Place(batch) /\ batch[at[1]].host \in Refused
          /\ outcome' = "error" /\ mutex' = "none"
        BY <1>5 DEF PushFails, PushRefused, Return
    <2>2. at[1] \in 1..Len(batch) /\ at[2] = 1
        BY <2>1, <1>a, <1>b, PlaceType DEF Progress
    <2>3. metrics = Pushed(batch)
        BY <2>1, <2>2, <1>a, <1>b, StoppedIsPushed DEF Progress
    <2>4. TypeOK'
        BY <2>1, ScrapeAssumption DEF TypeOK, scrapes
    <2> QED
        BY <2>1, <2>3, <2>4, <1>b, ScrapesUndisturbed DEF Progress, Settled, Pushed
<1>6. CASE Updated
    <2>1. /\ UNCHANGED <<metrics, batch, at, scrapes>> /\ upc = "push" /\ upc' = "idle"
          /\ at[1] > Len(batch) /\ outcome' = "ok" /\ mutex' = "none"
        BY <1>6 DEF Updated, Return
    <2>2. at = <<Len(batch) + 1, at[2]>> /\ \A e \in 1..Len(batch) : batch[e].host \notin Refused
        BY <2>1, <1>a, <1>b DEF Progress
    <2>3. metrics = Whole(batch) /\ metrics = Pushed(batch)
        BY <2>1, <2>2, <1>b, AllPushed, WholeIsPushed DEF Progress
    <2>4. TypeOK'
        BY <2>1, ScrapeAssumption DEF TypeOK, scrapes
    <2> QED
        BY <2>1, <2>3, <2>4, <1>b, ScrapesUndisturbed DEF Progress, Settled, Pushed, Whole
<1> QED
    BY <1>1, <1>2, <1>3, <1>4, <1>5, <1>6

LEMMA ScrapeStep ==
    ASSUME Inv, NEW s \in Scrape,
           ScrapeStarts(s) \/ Collect(s) \/ Send(s) \/ CollectReturns(s) \/ Gather(s)
    PROVE  Inv'
<1> USE DEF Inv
<1>1. UNCHANGED <<metrics, update>>
    BY DEF ScrapeStarts, Collect, Collects, Send, CollectReturns, Gather
<1>2. Progress' /\ Settled'
    BY <1>1 DEF Progress, Settled, update, PushedBefore, Pushed, Whole
<1>3. CASE ScrapeStarts(s)
    BY <1>1, <1>2, <1>3 DEF ScrapeStarts, TypeOK, Collecting, update
<1>4. CASE Collect(s)
    <2>1. /\ mutex = "none" /\ mutex' = s /\ pc[s] = "lock" /\ answer' = answer
          /\ pc' = [pc EXCEPT ![s] = "collect"] /\ collected' = [collected EXCEPT ![s] = {}]
        BY <1>4 DEF Collect, Collects
    <2>2. TypeOK'
        BY <1>1, <2>1, ScrapeAssumption DEF TypeOK, update
    <2>3. Collecting'
        BY <1>1, <2>1 DEF Collecting, TypeOK
    <2> QED
        BY <1>2, <2>2, <2>3
<1>5. CASE Send(s)
    <2>1. PICK m \in metrics \ collected[s] :
            /\ collected' = [collected EXCEPT ![s] = @ \cup {m}]
            /\ pc[s] = "collect" /\ UNCHANGED <<mutex, pc, answer>>
        BY <1>5 DEF Send
    <2>2. TypeOK'
        BY <1>1, <2>1 DEF TypeOK, update
    <2>3. Collecting'
        <3>1. \A t \in Scrape : t # s => collected'[t] = collected[t]
            BY <2>1 DEF TypeOK
        <3>2. collected'[s] = collected[s] \cup {m}
            BY <2>1 DEF TypeOK
        <3> QED
            BY <3>1, <3>2, <1>1, <2>1 DEF Collecting
    <2> QED
        BY <1>2, <2>2, <2>3
<1>6. CASE CollectReturns(s)
    <2>1. /\ pc[s] = "collect" /\ metrics \subseteq collected[s]
          /\ pc' = [pc EXCEPT ![s] = "gather"] /\ UNCHANGED <<collected, answer>>
          /\ mutex' = IF mutex = s THEN "none" ELSE mutex
        BY <1>6 DEF CollectReturns
    <2>2. mutex = s /\ mutex' = "none" /\ s \notin {"none", "update"}
        BY <2>1, ScrapeAssumption DEF TypeOK
    <2>3. TypeOK'
        BY <1>1, <2>1, <2>2, ScrapeAssumption DEF TypeOK, update
    <2>4. collected[s] = metrics /\ upc # "push"
        BY <2>1, <2>2 DEF Collecting, TypeOK
    <2>5. Collecting'
        BY <1>1, <2>1, <2>4 DEF Collecting, Settled, TypeOK
    <2> QED
        BY <1>2, <2>3, <2>5
<1>7. CASE Gather(s)
    <2>1. /\ pc[s] = "gather" /\ pc' = [pc EXCEPT ![s] = "idle"] /\ UNCHANGED <<mutex, collected>>
          /\ answer' \in [Scrape -> {"none", "metrics", "error"}]
        BY <1>7 DEF Gather, TypeOK
    <2>2. TypeOK'
        BY <1>1, <2>1 DEF TypeOK, update
    <2>3. Collecting'
        BY <1>1, <2>1 DEF Collecting, TypeOK
    <2> QED
        BY <1>2, <2>2, <2>3
<1> QED
    BY <1>3, <1>4, <1>5, <1>6, <1>7

LEMMA Invariance == Spec => []Inv
<1>1. Init => Inv
    BY InitInv
<1>2. Inv /\ [Next]_vars => Inv'
    <2>1. ASSUME Inv, UNCHANGED vars PROVE Inv'
        BY <2>1 DEF Inv, vars, update, scrapes, TypeOK, Progress, Settled, Collecting,
            PushedBefore, Pushed, Whole
    <2> QED
        BY <2>1, UpdateStep, ScrapeStep DEF Next
<1> QED
    BY <1>1, <1>2, PTL DEF Spec, SafeSpec

(* Every variable keeps its type, and the mutex is held by whoever is      *)
(* inside it.                                                              *)
THEOREM TypeCorrect == Spec => []TypeOK
BY Invariance, PTL DEF Inv

(* However many scrapes are in flight, each sees what one update has made, *)
(* all of it.                                                              *)
THEOREM ScrapesSeeOneUpdate == Spec => []ScrapesAreSnapshots
<1>1. Inv => ScrapesAreSnapshots
    BY DEF Inv, Collecting, ScrapesAreSnapshots
<1> QED
    BY <1>1, Invariance, PTL

(* The place of a pair among the pairs of its endpoint, and the pair of a  *)
(* place: each is the other's inverse.                                     *)
PlaceOf(b, p) == <<p[1], (p[2] - 1) * Len(OrNone(b[p[1]].v6)) + p[3]>>

(* What a pair is, read off it and put together. *)
LEMMA PairType ==
    ASSUME NEW b \in Batches \cup {<<>>}
    PROVE  \A p : p \in Pair(b) <=>
                    /\ p = <<p[1], p[2], p[3]>>
                    /\ p[1] \in 1..Len(b)
                    /\ p[2] \in 1..Len(OrNone(b[p[1]].v4))
                    /\ p[3] \in 1..Len(OrNone(b[p[1]].v6))
BY DEF Pair

LEMMA PairMade ==
    ASSUME NEW b \in Batches \cup {<<>>}, NEW e \in 1..Len(b),
           NEW i \in 1..Len(OrNone(b[e].v4)), NEW j \in 1..Len(OrNone(b[e].v6))
    PROVE  <<e, i, j>> \in Pair(b)
BY DEF Pair

(* Every pair has its place among the metrics, where its labels are shown. *)
LEMMA PairToPlace ==
    ASSUME NEW b \in Batches \cup {<<>>}, NEW p \in Pair(b)
    PROVE  /\ PlaceOf(b, p) \in Place(b)
           /\ Metric(b, PlaceOf(b, p)).labels = PairLabels(b, p)
           /\ (PlaceOf(b, p)[2] - 1) \div Len(OrNone(b[p[1]].v6)) = p[2] - 1
           /\ (PlaceOf(b, p)[2] - 1) % Len(OrNone(b[p[1]].v6)) = p[3] - 1
<1> DEFINE m == Len(OrNone(b[p[1]].v4))
           n == Len(OrNone(b[p[1]].v6))
           q == p[2] - 1
           r == p[3] - 1
           k == PlaceOf(b, p)[2]
<1>1. p[1] \in 1..Len(b) /\ p[2] \in 1..m /\ p[3] \in 1..n
    BY PairType
<1>2. m \in Nat \ {0} /\ n \in Nat \ {0} /\ Size(b[p[1]]) = m * n
    BY <1>1, BatchType, SizeType DEF Size
<1>d. PlaceOf(b, p) = <<p[1], q * n + p[3]>> /\ k = q * n + p[3]
    BY DEF PlaceOf
<1>e. q = p[2] - 1 /\ r = p[3] - 1 /\ n = Len(OrNone(b[p[1]].v6)) /\ k = PlaceOf(b, p)[2]
    OBVIOUS
<1>l. Labels(b[p[1]], k) = [host |-> b[p[1]].host,
                            ipv4 |-> OrNone(b[p[1]].v4)[((k - 1) \div n) + 1],
                            ipv6 |-> OrNone(b[p[1]].v6)[((k - 1) % n) + 1]]
    BY DEF Labels
<1>m. Metric(b, <<p[1], k>>).labels = Labels(b[p[1]], k)
    BY DEF Metric
<1> HIDE DEF m, n, q, r, k
<1>3. q \in Int /\ r \in Int /\ 0 <= q /\ q < m /\ 0 <= r /\ r < n
    <2>1. p[2] \in Int /\ p[3] \in Int /\ 1 <= p[2] /\ p[2] <= m /\ 1 <= p[3] /\ p[3] <= n
        BY <1>1, <1>2
    <2> QED
        BY <2>1, <1>2, <1>e
<1>4. q * n + r \in Int /\ 0 <= q * n + r /\ q * n + r < m * n /\ m * n \in Int
    BY <1>2, <1>3, ProductMonotone
<1>5. (q * n + r) \div n = q /\ (q * n + r) % n = r
    BY <1>2, <1>3, QuotientUnique
<1>6. q * n \in Int
    BY <1>2, <1>3
<1>7. k - 1 = q * n + r /\ k \in 1..m * n
    <2>1. p[3] \in Int /\ 1 <= p[3] /\ p[3] = r + 1
        BY <1>1, <1>2, <1>e
    <2>2. k \in Int /\ k = (q * n + r) + 1
        BY <2>1, <1>3, <1>6, <1>d
    <2> QED
        BY <2>2, <1>4
<1>8. (k - 1) \div n = q /\ (k - 1) % n = r
    BY <1>5, <1>7
<1>9. PlaceOf(b, p) = <<p[1], k>>
    BY <1>d
<1>10. PlaceOf(b, p) \in Place(b)
    BY <1>1, <1>2, <1>7, <1>9, PlaceType
<1>11. q + 1 = p[2] /\ r + 1 = p[3]
    BY <1>1, <1>2, <1>e
<1>12. Labels(b[p[1]], k) = PairLabels(b, p)
    BY <1>8, <1>11, <1>l DEF PairLabels
<1> QED
    <2>1. Metric(b, PlaceOf(b, p)).labels = PairLabels(b, p)
        BY <1>9, <1>12, <1>m
    <2>2. /\ (PlaceOf(b, p)[2] - 1) \div Len(OrNone(b[p[1]].v6)) = q
          /\ (PlaceOf(b, p)[2] - 1) % Len(OrNone(b[p[1]].v6)) = r
        BY <1>8, <1>e
    <2> QED
        BY <2>1, <2>2, <1>10, <1>e

(* Every place is that of some pair. *)
LEMMA PlaceToPair ==
    ASSUME NEW b \in Batches \cup {<<>>}, NEW place \in Place(b)
    PROVE  \E p \in Pair(b) : PlaceOf(b, p) = place
<1> DEFINE e == place[1]
           k == place[2]
           m == Len(OrNone(b[e].v4))
           n == Len(OrNone(b[e].v6))
           q == (k - 1) \div n
           r == (k - 1) % n
           p == <<e, q + 1, r + 1>>
<1>1. place = <<e, k>> /\ e \in 1..Len(b) /\ k \in 1..Size(b[e])
    BY PlaceType
<1>2. m \in Nat \ {0} /\ n \in Nat \ {0} /\ Size(b[e]) = m * n /\ Size(b[e]) \in Nat
    BY <1>1, BatchType, SizeType DEF Size
<1>d. /\ q = (k - 1) \div n /\ r = (k - 1) % n /\ p = <<e, q + 1, r + 1>>
      /\ PlaceOf(b, p) = <<e, ((q + 1) - 1) * n + (r + 1)>>
    BY DEF PlaceOf
<1>p. m = Len(OrNone(b[e].v4)) /\ n = Len(OrNone(b[e].v6))
    OBVIOUS
<1> HIDE DEF e, k, m, n, q, r, p
<1>3. k - 1 \in Int /\ 0 <= k - 1 /\ k - 1 < m * n /\ k \in Int
    BY <1>1, <1>2
<1>4. q \in Int /\ r \in Int /\ k - 1 = q * n + r /\ 0 <= r /\ r < n
    BY <1>2, <1>3, <1>d, QuotientAndRest
<1>5. 0 <= q /\ q < m
    BY <1>2, <1>3, <1>4, QuotientBound
<1>6. q + 1 \in 1..m /\ r + 1 \in 1..n
    BY <1>2, <1>4, <1>5
<1>7. p \in Pair(b)
    BY <1>1, <1>6, <1>d, <1>p, PairMade
<1>8. q * n \in Int
    BY <1>2, <1>4
<1>9. ((q + 1) - 1) * n + (r + 1) = k
    <2>1. (q + 1) - 1 = q
        BY <1>4
    <2> QED
        BY <2>1, <1>3, <1>4, <1>8
<1>10. PlaceOf(b, p) = place
    BY <1>1, <1>9, <1>d
<1> QED
    BY <1>7, <1>10

LEMMA PlacesDiffer ==
    ASSUME NEW b \in Batches \cup {<<>>}, NEW p \in Pair(b), NEW q \in Pair(b),
           PlaceOf(b, p) = PlaceOf(b, q)
    PROVE  p = q
<1>1. p[1] = q[1]
    BY DEF PlaceOf
<1>2. p[2] - 1 = q[2] - 1 /\ p[3] - 1 = q[3] - 1
    BY <1>1, PairToPlace
<1>3. /\ p = <<p[1], p[2], p[3]>> /\ q = <<q[1], q[2], q[3]>>
      /\ p[2] \in Int /\ p[3] \in Int /\ q[2] \in Int /\ q[3] \in Int
    <2>1. \A e \in 1..Len(b) : Len(OrNone(b[e].v4)) \in Nat /\ Len(OrNone(b[e].v6)) \in Nat
        BY BatchType, SizeType
    <2> QED
        BY <2>1, PairType
<1> QED
    BY <1>1, <1>2, <1>3

(* After an update that returned no error the metrics are one for each     *)
(* pair of addresses of each endpoint (the four loops of UpdateEndpoints), *)
(* and nothing else: whatever is in the list from before is gone.          *)
THEOREM UpdatesShowAll == Spec => []UpdateShowsAll
<1>1. ASSUME Inv, upc = "idle", outcome = "ok"
      PROVE  UpdateShowsAll
    <2> DEFINE shown == [p \in Pair(batch) |-> Metric(batch, PlaceOf(batch, p))]
    <2>1. /\ metrics = Whole(batch) /\ batch \in Batches \cup {<<>>}
        BY <1>1 DEF Inv, Settled, TypeOK
    <2>2. \A p \in Pair(batch) :
            /\ shown[p] \in metrics
            /\ shown[p].labels = PairLabels(batch, p)
            /\ shown[p].place = PlaceOf(batch, p)
        <3>1. \A p \in Pair(batch) : shown[p] = Metric(batch, PlaceOf(batch, p))
            OBVIOUS
        <3>2. \A p \in Pair(batch) : PlaceOf(batch, p) \in Place(batch)
            BY <2>1, PairToPlace
        <3>3. \A p \in Pair(batch) : Metric(batch, PlaceOf(batch, p)).labels = PairLabels(batch, p)
            BY <2>1, PairToPlace
        <3>4. \A place : Metric(batch, place).place = place
            BY DEF Metric
        <3> HIDE DEF shown
        <3> QED
            BY <2>1, <3>1, <3>2, <3>3, <3>4 DEF Whole
    <2>3. shown \in [Pair(batch) -> metrics]
        BY <2>2
    <2>4. \A p, q \in Pair(batch) : shown[p] = shown[q] => p = q
        <3> HIDE DEF shown
        <3> QED
            BY <2>1, <2>2, PlacesDiffer
    <2>5. \A m \in metrics : \E p \in Pair(batch) : shown[p] = m
        BY <2>1, PlaceToPair DEF Whole
    <2>6. shown \in Bijection(Pair(batch), metrics)
        <3> HIDE DEF shown
        <3> QED
            BY <2>3, <2>4, <2>5 DEF Bijection, Injection, Surjection, IsInjective
    <2> HIDE DEF shown
    <2> QED
        BY <2>2, <2>6 DEF UpdateShowsAll
<1>2. Inv => UpdateShowsAll
    BY <1>1 DEF UpdateShowsAll
<1> QED
    BY <1>2, Invariance, PTL
===============================================================================
