----------------------------- MODULE ForwardSync ------------------------------
(***************************************************************************)
(* The control loop (Controller) with the forward half of the Route53      *)
(* provider (Route53Forward) as its only provider: what reaches the zone,  *)
(* and whether the zone comes to say what the sources say.                 *)
(*                                                                         *)
(* Everything of the two modules takes part: the provider's call is        *)
(* UpdateForward on the list of this run, its steps run while the loop     *)
(* waits in ProviderSucceeds or ProviderFails; a kill or a nil endpoint    *)
(* takes both down.  The environment may settle: from then on no call      *)
(* fails, nothing is killed, and every source repeats one answer.          *)
(***************************************************************************)
EXTENDS Route53Forward

CONSTANTS
    NSources, NilEndpoint, Answers, Interval, TickPeriod, MaxKills, Nothing,  \* Controller's
    Unsettled  \* the environment has not settled

Steady == Answers \cap Seq(Endpoint)  \* what a source may settle on

VARIABLES
    once, dryRun, loop, turn, endpoints, failedSources, failedProviders, due, tickIn,
    tickReady, cancelled, sourceUp, providerUp, lastStatus, received, answers, sinceStart,
    kills,     \* Controller's, with its pc called loop
    steady     \* the answers the sources have settled on, or Unsettled

Loop == INSTANCE Controller WITH
    pc <- loop, NProviders <- 1, OnceModes <- {FALSE}, DryRunModes <- {FALSE}

ASSUME SourcesAssumption == NSources \in Nat
ASSUME ReportedAssumption == Answers \subseteq Seq(Endpoint \cup {NilEndpoint})
ASSUME NilEndpointAssumption == NilEndpoint \notin Endpoint
ASSUME NothingHeldAssumption == Nothing \notin Seq(Loop!Tagged)
ASSUME LoopTimeAssumption == Interval \in Nat /\ TickPeriod \in Nat \ {0}
ASSUME LoopKillsAssumption == MaxKills \in Nat
ASSUME UnsettledAssumption == Unsettled \notin [1..NSources -> Steady]

loopVars == <<once, dryRun, loop, turn, endpoints, failedSources, failedProviders, due,
              tickIn, tickReady, cancelled, sourceUp, providerUp, lastStatus, received,
              answers, sinceStart, kills>>
syncVars == <<loopVars, vars, steady>>

settled == steady # Unsettled

SyncInit ==
    /\ Loop!Init
    /\ Init
    /\ steady = Unsettled

-------------------------------------------------------------------------------
(* Steps of the loop alone. *)
SourceReturns ==
    /\ \/ Loop!SourceAnswers
       \/ ~settled /\ (Loop!SourceAnswersNil \/ Loop!SourceFails)
    /\ settled /\ turn \in 1..NSources /\ turn' = turn + 1 => answers'[turn] = steady[turn]
    /\ UNCHANGED <<vars, steady>>

LoopGoesOn ==
    /\ Loop!Local
    /\ UNCHANGED <<vars, steady>>

TakeTick == Loop!TakeTick /\ UNCHANGED <<vars, steady>>
TakeDone == Loop!TakeDone /\ UNCHANGED <<vars, steady>>
TimePasses == Loop!TimePasses /\ UNCHANGED <<vars, steady>>

Disturbed ==
    /\ ~settled
    /\ Loop!Sigterm \/ Loop!Kill
    /\ UNCHANGED <<vars, steady>>

(* Steps of the provider while the loop waits for it.                      *)
Waiting == loop = "provider" /\ turn = 1
Untagged == [k \in DOMAIN endpoints |-> endpoints[k].endpoint]

UpdateEndpoints ==
    /\ Waiting
    /\ Begin(Untagged)
    /\ UNCHANGED <<loopVars, steady>>

ProviderGoesOn ==
    /\ Waiting
    /\ \/ GetZoneName
       \/ NothingToClean
       \/ CleanPage
       \/ \E h \in Host : PlanHost(h)
       \/ ~settled /\ (CleanupListFails \/ CleanPageFails)
    /\ UNCHANGED <<loopVars, steady>>

ProviderReturns ==
    /\ Waiting
    /\ \/ ForwardDisabled \/ NoForwardChanges \/ ChangesApplied
       \/ (settled => ~Acceptable(changes)) /\ ChangesRefused
       \/ ~settled /\ (GetZoneNameFails \/ AnswerLost)
    /\ IF outcome' = "ok" THEN Loop!ProviderSucceeds ELSE Loop!ProviderFails
    /\ UNCHANGED steady

EntryExpires == CacheExpires /\ UNCHANGED <<loopVars, steady>>

ProcessRestarts == Loop!Restart /\ Restart /\ UNCHANGED steady

Settle ==
    /\ ~settled
    /\ steady' \in [1..NSources -> Steady]
    /\ UNCHANGED <<loopVars, vars>>

Terminated == Loop!Terminated /\ UNCHANGED <<vars, steady>>

SyncNext ==
    \/ SourceReturns \/ LoopGoesOn \/ TakeTick \/ TakeDone \/ TimePasses
    \/ Disturbed
    \/ UpdateEndpoints \/ ProviderGoesOn \/ ProviderReturns
    \/ EntryExpires
    \/ ProcessRestarts
    \/ Settle
    \/ Terminated

SyncSafeSpec == SyncInit /\ [][SyncNext]_syncVars

(* The fairness of the two modules: calls return, the loop is scheduled,   *)
(* time passes, a supervisor restarts the process.                         *)
SyncFairness ==
    /\ WF_syncVars(SourceReturns)
    /\ WF_syncVars(LoopGoesOn)
    /\ WF_syncVars(TakeTick)
    /\ SF_syncVars(TakeDone)
    /\ WF_syncVars(TimePasses)
    /\ WF_syncVars(UpdateEndpoints \/ ProviderGoesOn \/ ProviderReturns)
    /\ WF_syncVars(ProcessRestarts)

SyncSpec == SyncSafeSpec /\ SyncFairness

-------------------------------------------------------------------------------
(* The addresses this run's sources have answered for host h.              *)
Told(h, type) ==
    UNION {UNION {IF type = "A" THEN answers[s][k].v4 ELSE answers[s][k].v6 :
                    k \in {j \in DOMAIN answers[s] : answers[s][j].host = h}} :
           s \in 1..NSources}

(* While the provider is in a call, the loop waits for it, and the batch   *)
(* is the list of this very run; or the process has died under both.       *)
Serving ==
    pc # "idle" => loop = "crashed" \/ (Waiting /\ batch = Untagged)

(* The zone changes only in a run all of whose sources answered, and what  *)
(* is written is what those answers, put together, say of a host: never a  *)
(* part of them, never an answer of an earlier run, whatever was cached,   *)
(* lost or restarted in between.                                           *)
ZoneTellsTheSources ==
    [][zone' # zone =>
        /\ failedSources = {}
        /\ \A s \in 1..NSources : sourceUp[s] = "up"
        /\ \A r \in zone' \ zone :
            \E h \in Host : r.name = Fqdn[h] /\ r.values = Told(h, r.type)]_syncVars

(* What the sources have settled on for host h, once they have. *)
SettledFor(h, type) ==
    UNION {UNION {IF type = "A" THEN steady[s][k].v4 ELSE steady[s][k].v6 :
                    k \in {j \in DOMAIN steady[s] : steady[s][j].host = h}} :
           s \in 1..NSources}

(* Every address family of every host the sources settled on has a record, *)
(* and no record of it an address they do not report.                      *)
ZoneMatches ==
    /\ settled
    /\ \A h \in Host, type \in {"A", "AAAA"} :
           SettledFor(h, type) # {} =>
               /\ \E r \in zone : r.name = Fqdn[h] /\ r.type = type
               /\ \A r \in zone :
                   r.name = Fqdn[h] /\ r.type = type => r.values \subseteq SettledFor(h, type)

(* Once the environment has settled, the zone of a loop that was not       *)
(* stopped comes to match the sources and stays so, from whatever failed   *)
(* calls, kills, lost answers and stale caches left behind: nothing has to *)
(* be repaired by hand.  (Without cleanup, which deletes records that the  *)
(* cache then takes for present.)                                          *)
Converges == settled /\ enabled /\ ~clean ~> [](loop = "stopped" \/ ZoneMatches)
===============================================================================
