--------------------------- MODULE PrometheusMetrics ---------------------------
(***************************************************************************)
(* provider/prometheus_metrics/prometheus_metrics.go: the control loop     *)
(* empties the list of info metrics and makes it again, one metric per     *)
(* pair of an endpoint's addresses, while scrapes of /metrics collect what *)
(* there is; a mutex separates the two.  The registry then gathers what    *)
(* was collected, and refuses the whole answer if two metrics have the     *)
(* same labels.                                                            *)
(***************************************************************************)
EXTENDS Integers, Sequences, FiniteSets, Functions

CONSTANTS
    Scrape,      \* scrapes in flight at the same time
    Host,        \* values of the labels of an endpoint but its addresses
    V4, V6,      \* addresses
    NoAddress,   \* "", the value of a label that is not set
    Refused,     \* hosts with a label NewConstMetric refuses (not UTF-8)
    Batches      \* the lists of endpoints after the filter

Endpoint == [host : Host, v4 : Seq(V4), v6 : Seq(V6)]

ASSUME ScrapeAssumption == "update" \notin Scrape /\ "none" \notin Scrape
ASSUME RefusedAssumption == Refused \subseteq Host
ASSUME AddressAssumption == NoAddress \notin V4 \cup V6
ASSUME BatchesAssumption == Batches \subseteq Seq(Endpoint)

VARIABLES
    metrics,    \* endpointMetrics, each with its place in the list of endpoints
    mutex,      \* who holds the mutex: "none", "update" or a scrape
    upc,        \* where UpdateEndpoints is
    batch,      \* its endpoints
    at,         \* the endpoint and the metric of it to push next
    outcome,    \* what the last update returned
    pc,         \* where each scrape is
    collected,  \* what it has collected
    answer      \* what the last scrape was answered

update == <<upc, batch, at, outcome>>
scrapes == <<pc, collected, answer>>
vars == <<metrics, mutex, update, scrapes>>

-------------------------------------------------------------------------------
(* The four loops of UpdateEndpoints: each IPv4 address with each IPv6     *)
(* address, and a label without a value for a family without addresses.    *)
OrNone(addresses) == IF addresses = <<>> THEN <<NoAddress>> ELSE addresses

Labels(ep, k) ==
    LET sixes == OrNone(ep.v6)
    IN [host |-> ep.host,
        ipv4 |-> OrNone(ep.v4)[((k - 1) \div Len(sixes)) + 1],
        ipv6 |-> sixes[((k - 1) % Len(sixes)) + 1]]

Size(ep) == Len(OrNone(ep.v4)) * Len(OrNone(ep.v6))

Place(b) == UNION {{e} \X (1..Size(b[e])) : e \in 1..Len(b)}
Metric(b, p) == [place |-> p, labels |-> Labels(b[p[1]], p[2])]

Init ==
    /\ metrics = {}
    /\ mutex = "none"
    /\ upc = "idle"
    /\ batch = <<>>
    /\ at = <<1, 1>>
    /\ outcome = "none"
    /\ pc = [s \in Scrape |-> "idle"]
    /\ collected = [s \in Scrape |-> {}]
    /\ answer = [s \in Scrape |-> "none"]

UpdateEndpoints ==
    /\ upc = "idle"
    /\ batch' \in Batches
    /\ upc' = "lock"
    /\ outcome' = "none"
    /\ UNCHANGED <<metrics, mutex, at, scrapes>>

Emptied(left) ==
    /\ upc = "lock"
    /\ mutex = "none"
    /\ mutex' = "update"
    /\ metrics' = left
    /\ at' = <<1, 1>>
    /\ upc' = "push"
    /\ UNCHANGED <<batch, outcome, scrapes>>

MetricsKept == Emptied(metrics)  \* mutant of LockAndEmpty
LockAndEmpty == Emptied({})

Push ==
    /\ upc = "push"
    /\ at \in Place(batch)
    /\ batch[at[1]].host \notin Refused
    /\ metrics' = metrics \cup {Metric(batch, at)}
    /\ at' = <<at[1], at[2] + 1>>
    /\ UNCHANGED <<mutex, upc, batch, outcome, scrapes>>

NextEndpoint ==
    /\ upc = "push"
    /\ at[1] <= Len(batch)
    /\ at \notin Place(batch)
    /\ at' = <<at[1] + 1, 1>>
    /\ UNCHANGED <<metrics, mutex, upc, batch, outcome, scrapes>>

(* UpdateEndpoints returns, with its deferred Unlock. *)
Return(result, holder) ==
    /\ upc = "push"
    /\ outcome' = result
    /\ upc' = "idle"
    /\ mutex' = holder
    /\ UNCHANGED <<metrics, batch, at, scrapes>>

PushRefused == at \in Place(batch) /\ batch[at[1]].host \in Refused

LockLeaked == PushRefused /\ Return("error", mutex)  \* mutant of PushFails
PushFails == PushRefused /\ Return("error", "none")

Updated == at[1] > Len(batch) /\ Return("ok", "none")

-------------------------------------------------------------------------------
(* A scrape: Registry.Gather calls Collect, and reads what it sends. *)
ScrapeStarts(s) ==
    /\ pc[s] = "idle"
    /\ pc' = [pc EXCEPT ![s] = "lock"]
    /\ UNCHANGED <<metrics, mutex, update, collected, answer>>

Collects(s, holder) ==
    /\ pc[s] = "lock"
    /\ mutex' = holder
    /\ collected' = [collected EXCEPT ![s] = {}]
    /\ pc' = [pc EXCEPT ![s] = "collect"]
    /\ UNCHANGED <<metrics, update, answer>>

CollectUnlocked(s) == Collects(s, mutex)  \* mutant of Collect
Collect(s) == mutex = "none" /\ Collects(s, s)

Send(s) ==
    /\ pc[s] = "collect"
    /\ \E m \in metrics \ collected[s] :
          collected' = [collected EXCEPT ![s] = @ \cup {m}]
    /\ UNCHANGED <<metrics, mutex, update, pc, answer>>

CollectReturns(s) ==
    /\ pc[s] = "collect"
    /\ metrics \subseteq collected[s]
    /\ mutex' = IF mutex = s THEN "none" ELSE mutex
    /\ pc' = [pc EXCEPT ![s] = "gather"]
    /\ UNCHANGED <<metrics, update, collected, answer>>

(* External: the registry's check, and promhttp's answer to its error. *)
Duplicates(c) == \E m, n \in c : m # n /\ m.labels = n.labels

Gather(s) ==
    /\ pc[s] = "gather"
    /\ answer' = [answer EXCEPT ![s] = IF Duplicates(collected[s]) THEN "error" ELSE "metrics"]
    /\ pc' = [pc EXCEPT ![s] = "idle"]
    /\ UNCHANGED <<metrics, mutex, update, collected>>

Next ==
    \/ UpdateEndpoints
    \/ LockAndEmpty
    \/ Push
    \/ NextEndpoint
    \/ PushFails
    \/ Updated
    \/ \E s \in Scrape : ScrapeStarts(s)
    \/ \E s \in Scrape : Collect(s)
    \/ \E s \in Scrape : Send(s)
    \/ \E s \in Scrape : CollectReturns(s)
    \/ \E s \in Scrape : Gather(s)

SafeSpec == Init /\ [][Next]_vars

(* Goroutines run on, the registry reads what is sent, and a sync.Mutex is *)
(* handed to whoever waited long enough: strong fairness of the two locks. *)
Fairness ==
    /\ SF_vars(LockAndEmpty)
    /\ WF_vars(Push \/ NextEndpoint \/ PushFails \/ Updated)
    /\ \A s \in Scrape :
          /\ SF_vars(Collect(s))
          /\ WF_vars(Send(s) \/ CollectReturns(s))
          /\ WF_vars(Gather(s))

Spec == SafeSpec /\ Fairness

-------------------------------------------------------------------------------
(* Every variable has its type; the holder of the mutex is where it should be. *)
TypeOK ==
    /\ \A m \in metrics : m.place \in (Nat \ {0}) \X (Nat \ {0}) /\ m.labels.host \in Host \ Refused
    /\ mutex \in {"none", "update"} \cup Scrape
    /\ mutex = "update" <=> upc = "push"
    /\ upc \in {"idle", "lock", "push"}
    /\ batch \in Batches \cup {<<>>}
    /\ at \in (Nat \ {0}) \X (Nat \ {0})
    /\ outcome \in {"none", "ok", "error"}
    /\ pc \in [Scrape -> {"idle", "lock", "collect", "gather"}]
    /\ \A s \in Scrape : mutex = s <=> pc[s] = "collect"
    /\ DOMAIN collected = Scrape
    /\ answer \in [Scrape -> {"none", "metrics", "error"}]

(* What an update makes of a list: the metrics before the first refused one. *)
Pushed(b) ==
    {Metric(b, p) : p \in {q \in Place(b) : \A e \in 1..q[1] : b[e].host \notin Refused}}

(* A scrape sees the metrics of one update, all there are of it: never a   *)
(* list that is empty or growing, never two updates in one answer.         *)
ScrapesAreSnapshots ==
    \A s \in Scrape :
        pc[s] = "gather" => \E b \in Batches \cup {<<>>} : collected[s] = Pushed(b)

(* The pairs of addresses of a list's endpoints, one of each family or     *)
(* none, and the labels that a pair is shown with.                         *)
Pair(b) ==
    UNION {{e} \X (1..Len(OrNone(b[e].v4))) \X (1..Len(OrNone(b[e].v6))) : e \in 1..Len(b)}

PairLabels(b, p) ==
    [host |-> b[p[1]].host,
     ipv4 |-> OrNone(b[p[1]].v4)[p[2]],
     ipv6 |-> OrNone(b[p[1]].v6)[p[3]]]

(* After an update that returned no error there is one metric for each     *)
(* pair of addresses of each of its endpoints, with the labels of that     *)
(* pair, and there is no other: nothing is missing, nothing left from      *)
(* before (UpdateEndpoints, whatever the updates before it did).           *)
UpdateShowsAll ==
    upc = "idle" /\ outcome = "ok" =>
        \E shown \in Bijection(Pair(batch), metrics) :
            \A p \in Pair(batch) : shown[p].labels = PairLabels(batch, p)

(* Neither an update nor a scrape waits for ever, updates that fail included. *)
EveryoneReturns ==
    /\ upc # "idle" ~> upc = "idle"
    /\ \A s \in Scrape : pc[s] # "idle" ~> pc[s] = "idle"
===============================================================================
