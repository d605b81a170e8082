------------------------------ MODULE Controller ------------------------------
(***************************************************************************)
(* controller/controller.go and the process around it (main.go): a loop    *)
(* that, at most once per Interval, asks every source for its endpoints    *)
(* and hands the concatenation to every provider.  One step per call that  *)
(* leaves the controller (a source, a provider), per wait (the ticker, the *)
(* context), and per event of the environment (time, SIGTERM, a kill).     *)
(*                                                                         *)
(* Time is relative: `due' is nextRunAt - now, floored at 0, and the       *)
(* ticker is a countdown with its channel of capacity one, so the state    *)
(* space is finite without a bound on time.                                *)
(***************************************************************************)
EXTENDS Integers, Sequences

CONSTANTS
    NSources, NProviders,  \* length of Controller.Sources and .Providers
    Endpoint,              \* the endpoints a source may report
    NilEndpoint,           \* a nil *endpoint.Endpoint among them
    Answers,               \* the lists a source may answer with
    Nothing,               \* what a provider holds before its first batch
    Interval, TickPeriod,  \* Controller.Interval and the 1 s ticker, in units of time
    OnceModes,             \* the values of -once to consider
    DryRunModes,           \* the values of -dry-run to consider
    MaxKills               \* how often the process may be killed

Source == 1..NSources
Provider == 1..NProviders
Tagged == [endpoint : Endpoint, source : Source]

ASSUME SizesAssumption == NSources \in Nat /\ NProviders \in Nat
ASSUME AnswersAssumption == Answers \subseteq Seq(Endpoint \cup {NilEndpoint})
ASSUME NilAssumption == NilEndpoint \notin Endpoint
ASSUME NothingAssumption == Nothing \notin Seq(Tagged)
ASSUME TimeAssumption == Interval \in Nat /\ TickPeriod \in Nat \ {0}
ASSUME ModesAssumption == OnceModes \subseteq BOOLEAN /\ DryRunModes \subseteq BOOLEAN
ASSUME KillsAssumption == MaxKills \in Nat

VARIABLES
    once, dryRun,  \* the flags of the process
    pc,            \* where the control loop is
    turn,          \* the source or provider whose call comes next
    endpoints,     \* RunOnce's concatenated, tagged list
    failedSources, failedProviders,  \* the callers whose error is in RunOnce's `errors'
    due,           \* time until nextRunAt, 0 when it has passed
    tickIn,        \* time until the ticker fires
    tickReady,     \* a tick waits in ticker.C
    cancelled,     \* ctx is done: SIGTERM arrived
    sourceUp, providerUp, lastStatus,  \* the metrics
    received,      \* the batch each provider was handed last (outlives the process)
    answers,       \* history: each source's answer of this run
    sinceStart,    \* history: time since the last run started, capped at Interval
    kills          \* how often the process was killed, at most MaxKills

flags == <<once, dryRun>>
run == <<turn, endpoints, failedSources, failedProviders, answers>>
clock == <<due, tickIn, tickReady, sinceStart>>
metrics == <<sourceUp, providerUp, lastStatus>>
vars == <<flags, pc, run, clock, cancelled, metrics, received, kills>>

Gauge == {"unset", "up", "down"}
Down == {"stopped", "crashed"}

errored == failedSources # {} \/ failedProviders # {}

(* What a source's list becomes in RunOnce: each endpoint carries its source's name. *)
Tag(answer, s) ==
    [k \in DOMAIN answer |-> [endpoint |-> answer[k], source |-> s]]

-------------------------------------------------------------------------------
(* A new process: -once enters RunOnce at once, otherwise Run's loop decides. *)
Booted(isOnce) == IF isOnce THEN "source" ELSE "check"

Init ==
    /\ once \in OnceModes
    /\ dryRun \in DryRunModes
    /\ pc = Booted(once)
    /\ turn = 1
    /\ endpoints = <<>>
    /\ failedSources = {}
    /\ failedProviders = {}
    /\ answers = [s \in Source |-> <<>>]
    /\ due = 0
    /\ tickIn = TickPeriod
    /\ tickReady = FALSE
    /\ sinceStart = Interval
    /\ cancelled = FALSE
    /\ sourceUp = [s \in Source |-> "unset"]
    /\ providerUp = [p \in Provider |-> "unset"]
    /\ lastStatus = "unset"
    /\ received = [p \in Provider |-> Nothing]
    /\ kills = 0

(* RunOnce begins: nextRunAt has moved on before the run, not after it. *)
StartRun ==
    /\ pc = "check"
    /\ due' = Interval
    /\ sinceStart' = 0
    /\ pc' = "source"
    /\ turn' = 1
    /\ endpoints' = <<>>
    /\ failedSources' = {}
    /\ failedProviders' = {}
    /\ answers' = [s \in Source |-> <<>>]
    /\ UNCHANGED <<flags, tickIn, tickReady, cancelled, metrics, received, kills>>

RunEarly == due <= 1 /\ StartRun  \* mutant of ShouldRun
ShouldRun == due = 0 /\ StartRun

PostponeRun ==  \* mutant of ShouldNotRun
    /\ pc = "check"
    /\ due > 0
    /\ due' = Interval
    /\ pc' = "select"
    /\ UNCHANGED <<flags, run, tickIn, tickReady, sinceStart, cancelled, metrics,
                   received, kills>>
ShouldNotRun ==
    /\ pc = "check"
    /\ due > 0
    /\ pc' = "select"
    /\ UNCHANGED <<flags, run, clock, cancelled, metrics, received, kills>>

(* A source answers a list without a nil endpoint. *)
Gather(before) ==
    /\ pc = "source"
    /\ turn \in Source
    /\ \E answer \in Answers \cap Seq(Endpoint) :
          /\ endpoints' = before \o Tag(answer, turn)
          /\ answers' = [answers EXCEPT ![turn] = answer]
    /\ sourceUp' = [sourceUp EXCEPT ![turn] = "up"]
    /\ turn' = turn + 1
    /\ UNCHANGED <<flags, pc, failedSources, failedProviders, clock, cancelled,
                   providerUp, lastStatus, received, kills>>

LatestSourceOnly == Gather(<<>>)  \* mutant of SourceAnswers
SourceAnswers == Gather(endpoints)

(* Writing SourceProperties of a nil endpoint panics: RunOnce's deferred   *)
(* function counts a run by the errors so far, and the process dies.       *)
Status == IF errored THEN "errored" ELSE "success"

SourceAnswersNil ==
    /\ pc = "source"
    /\ turn \in Source
    /\ \E answer \in Answers : answer \notin Seq(Endpoint)
    /\ sourceUp' = [sourceUp EXCEPT ![turn] = "up"]
    /\ lastStatus' = Status
    /\ pc' = "crashed"
    /\ UNCHANGED <<flags, run, clock, cancelled, providerUp, received, kills>>

SourceFails ==
    /\ pc = "source"
    /\ turn \in Source
    /\ failedSources' = failedSources \cup {turn}
    /\ sourceUp' = [sourceUp EXCEPT ![turn] = "down"]
    /\ turn' = turn + 1
    /\ UNCHANGED <<flags, pc, endpoints, failedProviders, answers, clock, cancelled,
                   providerUp, lastStatus, received, kills>>

(* main returns.  Its deferred function panics unless logger.Sync fails    *)
(* with a PathError, as it does for a terminal or a pipe: a process whose  *)
(* stderr is a regular file ends by a panic.                               *)
MainReturns == Down

(* RunOnce returns: in the loop on to the select, with -once the process   *)
(* ends, by a panic when there is an error.                                *)
AfterRun == IF ~once THEN {"select"} ELSE IF errored THEN {"crashed"} ELSE MainReturns

(* One source failed: no provider is called. *)
BailWith(gauges) ==
    /\ pc = "source"
    /\ turn \notin Source
    /\ failedSources # {}
    /\ providerUp' = gauges
    /\ lastStatus' = Status
    /\ pc' \in AfterRun
    /\ UNCHANGED <<flags, run, clock, cancelled, sourceUp, received, kills>>

BailKeepingGauges == BailWith(providerUp)  \* mutant of Bail
Bail == BailWith([p \in Provider |-> "down"])

CallProviders ==
    /\ pc = "source"
    /\ turn \notin Source
    /\ ~dryRun
    /\ pc' = "provider"
    /\ turn' = 1
    /\ UNCHANGED <<flags, endpoints, failedSources, failedProviders, answers, clock,
                   cancelled, metrics, received, kills>>

PublishAnyway == CallProviders  \* mutant of Publish
Publish == failedSources = {} /\ CallProviders

SkipPublish ==
    /\ pc = "source"
    /\ turn \notin Source
    /\ failedSources = {}
    /\ dryRun
    /\ lastStatus' = Status
    /\ pc' \in AfterRun
    /\ UNCHANGED <<flags, run, clock, cancelled, sourceUp, providerUp, received, kills>>

(* UpdateEndpoints of one provider; its error does not end the loop. *)
ProviderUpdates(failed, gauge, next) ==
    /\ pc = "provider"
    /\ turn \in Provider
    /\ received' = [received EXCEPT ![turn] = endpoints]
    /\ failedProviders' = failedProviders \cup failed
    /\ providerUp' = [providerUp EXCEPT ![turn] = gauge]
    /\ turn' = next
    /\ UNCHANGED <<flags, pc, endpoints, failedSources, answers, clock, cancelled,
                   sourceUp, lastStatus, kills>>

ProviderSucceeds == ProviderUpdates({}, "up", turn + 1)

ErrorForgotten == ProviderUpdates({}, "down", turn + 1)               \* mutants of
FirstErrorReturns == ProviderUpdates({turn}, "down", NProviders + 1)  \* ProviderFails
ProviderFails == ProviderUpdates({turn}, "down", turn + 1)

FinishRun ==
    /\ pc = "provider"
    /\ turn \notin Provider
    /\ lastStatus' = Status
    /\ pc' \in AfterRun
    /\ UNCHANGED <<flags, run, clock, cancelled, sourceUp, providerUp, received, kills>>

(* The select of Run: when both channels are ready either branch may be taken. *)
TakeTick ==
    /\ pc = "select"
    /\ tickReady
    /\ tickReady' = FALSE
    /\ pc' = "check"
    /\ UNCHANGED <<flags, run, due, tickIn, sinceStart, cancelled, metrics, received, kills>>

LeaveLoop ==
    /\ pc = "select"
    /\ cancelled
    /\ pc' \in MainReturns
    /\ UNCHANGED <<flags, run, clock, cancelled, metrics, received, kills>>

TickFirst == ~tickReady /\ LeaveLoop  \* mutant of TakeDone
TakeDone == LeaveLoop

-------------------------------------------------------------------------------
(* The environment. *)

(* One unit of time; a tick that finds ticker.C full is dropped. *)
TimePasses ==
    /\ ~once
    /\ pc \notin Down
    /\ due' = IF due > 0 THEN due - 1 ELSE 0
    /\ sinceStart' = IF sinceStart < Interval THEN sinceStart + 1 ELSE Interval
    /\ tickIn' = IF tickIn = 1 THEN TickPeriod ELSE tickIn - 1
    /\ tickReady' = (tickReady \/ tickIn = 1)
    /\ UNCHANGED <<flags, pc, run, cancelled, metrics, received, kills>>

(* SIGTERM: handleSigterm cancels the context; a run in progress goes on. *)
Sigterm ==
    /\ pc \notin Down
    /\ ~cancelled
    /\ cancelled' = TRUE
    /\ UNCHANGED <<flags, pc, run, clock, metrics, received, kills>>

Kill ==
    /\ pc \notin Down
    /\ kills < MaxKills
    /\ kills' = kills + 1
    /\ pc' = "crashed"
    /\ UNCHANGED <<flags, run, clock, cancelled, metrics, received>>

(* A supervisor starts the process again: only the providers remember. *)
Restart ==
    /\ pc = "crashed"
    /\ pc' = Booted(once)
    /\ turn' = 1
    /\ endpoints' = <<>>
    /\ failedSources' = {}
    /\ failedProviders' = {}
    /\ answers' = [s \in Source |-> <<>>]
    /\ due' = 0
    /\ tickIn' = TickPeriod
    /\ tickReady' = FALSE
    /\ sinceStart' = Interval
    /\ cancelled' = FALSE
    /\ sourceUp' = [s \in Source |-> "unset"]
    /\ providerUp' = [p \in Provider |-> "unset"]
    /\ lastStatus' = "unset"
    /\ UNCHANGED <<flags, received, kills>>

(* A process that stopped, by SIGTERM or because -once is done, stays stopped. *)
Terminated == pc = "stopped" /\ UNCHANGED vars

-------------------------------------------------------------------------------
SourceReturns == SourceAnswers \/ SourceAnswersNil \/ SourceFails
ProviderReturns == ProviderSucceeds \/ ProviderFails
Local == ShouldRun \/ ShouldNotRun \/ Bail \/ Publish \/ SkipPublish \/ FinishRun

Next ==
    \/ ShouldRun
    \/ ShouldNotRun
    \/ SourceAnswers
    \/ SourceAnswersNil
    \/ SourceFails
    \/ Bail
    \/ Publish
    \/ SkipPublish
    \/ ProviderSucceeds
    \/ ProviderFails
    \/ FinishRun
    \/ TakeTick
    \/ TakeDone
    \/ TimePasses
    \/ Sigterm
    \/ Kill
    \/ Restart
    \/ Terminated

SafeSpec == Init /\ [][Next]_vars

(* The goroutine of the loop is scheduled; calls to sources and providers  *)
(* return; time passes; a supervisor restarts a crashed process.  A select *)
(* with both channels ready picks one at random, so a context that stays   *)
(* done is picked eventually however often a tick is ready too: strong     *)
(* fairness of TakeDone.                                                   *)
Fairness ==
    /\ WF_vars(Local)
    /\ WF_vars(SourceReturns)
    /\ WF_vars(ProviderReturns)
    /\ WF_vars(TakeTick)
    /\ SF_vars(TakeDone)
    /\ WF_vars(TimePasses)
    /\ WF_vars(Restart)

Spec == SafeSpec /\ Fairness
-------------------------------------------------------------------------------
(* Every variable has the type its code counterpart has. *)
TypeOK ==
    /\ once \in BOOLEAN /\ dryRun \in BOOLEAN
    /\ pc \in {"check", "source", "provider", "select"} \cup Down
    /\ turn \in Nat \ {0}
    /\ endpoints \in Seq(Tagged)
    /\ failedSources \subseteq Source
    /\ failedProviders \subseteq Provider
    /\ answers \in [Source -> Seq(Endpoint)]
    /\ due \in 0..Interval
    /\ tickIn \in 1..TickPeriod
    /\ tickReady \in BOOLEAN
    /\ sinceStart \in 0..Interval
    /\ cancelled \in BOOLEAN
    /\ sourceUp \in [Source -> Gauge]
    /\ providerUp \in [Provider -> Gauge]
    /\ lastStatus \in {"unset", "success", "errored"}
    /\ received \in [Provider -> Seq(Tagged) \cup {Nothing}]
    /\ kills \in 0..MaxKills

(* No run is in progress in a live or orderly stopped process. *)
Idle == pc \in {"check", "select", "stopped"}

(* provider_up is honest between runs: a provider shown as up took the     *)
(* whole list of the latest run, a run no source failed in; and so was     *)
(* every other provider handed that list, whether it failed or not.        *)
UpMeansCurrent ==
    \A p \in Provider :
        Idle /\ providerUp[p] = "up" =>
            /\ failedSources = {}
            /\ p \notin failedProviders
            /\ \A q \in Provider : received[q] = endpoints

(* The run counter agrees with the gauges: a run counted as errored left a *)
(* source or a provider down, one counted as success none (in a dry run    *)
(* the provider gauges are not refreshed and say nothing).                 *)
StatusMatchesGauges ==
    Idle /\ lastStatus # "unset" =>
        (lastStatus = "errored" <=>
            \/ \E s \in Source : sourceUp[s] = "down"
            \/ ~dryRun /\ \E p \in Provider : providerUp[p] = "down")

(* Source s's answer of this run stands in the list: whole, in one         *)
(* stretch, in its order and under its name, and nothing else under it.    *)
Included(s) ==
    \E before \in 0..Len(endpoints) :
        /\ \A k \in DOMAIN endpoints :
              endpoints[k].source = s <=> k \in before + 1..before + Len(answers[s])
        /\ \A k \in DOMAIN answers[s] :
              before + k \in DOMAIN endpoints /\ endpoints[before + k].endpoint = answers[s][k]

(* The list providers are called with is made of the sources' answers of   *)
(* this very run, each whole: nothing is lost, and nothing left from an    *)
(* earlier run.                                                            *)
BatchIsWhole ==
    pc = "provider" =>
        /\ \A k \in DOMAIN endpoints : endpoints[k].source \in Source
        /\ \A s \in Source : Included(s)

(* What the phases of a run have established: the inductive invariant from *)
(* which the two properties of the gauges above follow.                    *)
SourcePhase ==
    pc = "source" =>
        /\ turn \in 1..NSources + 1
        /\ failedSources \subseteq 1..turn - 1
        /\ failedProviders = {}
        /\ \A s \in 1..turn - 1 :
              sourceUp[s] = IF s \in failedSources THEN "down" ELSE "up"

ProviderPhase ==
    pc = "provider" =>
        /\ turn \in 1..NProviders + 1
        /\ ~dryRun
        /\ failedSources = {}
        /\ failedProviders \subseteq 1..turn - 1
        /\ \A s \in Source : sourceUp[s] = "up"
        /\ \A p \in 1..turn - 1 :
              /\ received[p] = endpoints
              /\ providerUp[p] = IF p \in failedProviders THEN "down" ELSE "up"

DryRunNeverUp == dryRun => \A p \in Provider : providerUp[p] # "up"

(* nextRunAt stays Interval after the start of the last run. *)
DueSinceStart == due = Interval - sinceStart

ControllerInv ==
    /\ SourcePhase
    /\ ProviderPhase
    /\ DryRunNeverUp
    /\ DueSinceStart
    /\ UpMeansCurrent
    /\ StatusMatchesGauges

(* The list already is whole while the sources are asked; the sources      *)
(* whose turn comes have not answered.                                     *)
Gathered ==
    pc \in {"source", "provider"} =>
        /\ \A k \in DOMAIN endpoints : endpoints[k].source \in Source
        /\ \A s \in Source : Included(s)
        /\ pc = "source" => \A s \in Source : s >= turn => answers[s] = <<>>

(* RunOnce bails out before the providers when a source failed, and a dry  *)
(* run touches none: a provider's records only change in a run that every  *)
(* source answered and that is not dry.                                    *)
DeliversHealthyRounds ==
    [][received' # received => ~dryRun /\ \A s \in Source : sourceUp[s] = "up"]_vars

(* "execution happens at most once per interval" (controller.go:113): two  *)
(* runs of one process start at least Interval apart, however long a run   *)
(* takes and however many ticks it misses.                                 *)
AtMostOncePerInterval ==
    [][pc = "check" /\ pc' = "source" => sinceStart >= Interval]_vars

(* "Run runs RunOnce in a loop with a delay until context is canceled"     *)
(* (controller.go:129): once SIGTERM arrived the process ends.             *)
CancelStops == cancelled ~> pc \in Down

(* The loop goes on: unless it is stopped, runs start again and again,     *)
(* after errors, panics and kills too.                                     *)
KeepsReconciling == ~once => []<><<ShouldRun>>_vars \/ <>(pc = "stopped")

-------------------------------------------------------------------------------
(* The abstract state: a round is open while providers are being called.   *)
Round == INSTANCE Reconciliation WITH
    Providers <- Provider,
    Endpoints <- Tagged,
    phase <- IF pc \in Down THEN (IF pc = "stopped" THEN "closed" ELSE "crashed")
             ELSE IF pc = "provider" THEN "serving" ELSE "idle",
    batch <- IF pc = "provider" THEN endpoints ELSE <<>>,
    served <- IF pc = "provider" THEN {p \in Provider : p < turn} ELSE {}

(* The control loop implements Reconciliation: one batch a round, to every *)
(* provider, exactly once, and nothing between rounds.                     *)
ImplementsReconciliation == Round!Spec
===============================================================================
