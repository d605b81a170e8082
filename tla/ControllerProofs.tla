--------------------------- MODULE ControllerProofs ---------------------------
(***************************************************************************)
(* Theorems about Controller, for any number of sources and providers, any *)
(* interval and any answers.  The inductive invariant ControllerInv says   *)
(* what each phase of a run has established so far; the properties of the  *)
(* idle loop follow from it at the end of the run.                         *)
(***************************************************************************)
EXTENDS Controller, SequenceTheorems, TLAPS

(* A tagged answer is a list of tagged endpoints. *)
LEMMA TagType ==
    ASSUME NEW answer \in Seq(Endpoint), NEW s \in Source
    PROVE  Tag(answer, s) \in Seq(Tagged)
<1>1. \A k \in 1..Len(answer) : answer[k] \in Endpoint
  OBVIOUS
<1>2. DOMAIN answer = 1..Len(answer) /\ Len(answer) \in Nat
  OBVIOUS
<1> QED
  BY <1>1, <1>2 DEF Tag, Tagged

(* A process starts in RunOnce or in the loop. *)
LEMMA BootedType == Booted(once) \in {"check", "source"}
BY DEF Booted

(* The answers of a run that has asked no source yet. *)
LEMMA NoAnswers == [s \in Source |-> <<>>] \in [Source -> Seq(Endpoint)]
<1>1. <<>> \in Seq(Endpoint)
  OBVIOUS
<1> QED
  BY <1>1

(* Every variable keeps its type: the step from TypeOK. *)
LEMMA TypeStep == TypeOK /\ [Next]_vars => TypeOK'
<1> SUFFICES ASSUME TypeOK, [Next]_vars PROVE TypeOK'
  OBVIOUS
<1> USE SizesAssumption, TimeAssumption, KillsAssumption, ModesAssumption
<1> USE DEF TypeOK, Down, Gauge, flags, run, clock, metrics
<1>1. CASE ShouldRun
  BY <1>1 DEF ShouldRun, StartRun
<1>2. CASE ShouldNotRun
  BY <1>2 DEF ShouldNotRun
<1>3. CASE SourceAnswers
  <2> PICK answer \in Answers \cap Seq(Endpoint) :
            /\ endpoints' = endpoints \o Tag(answer, turn)
            /\ answers' = [answers EXCEPT ![turn] = answer]
    BY <1>3 DEF SourceAnswers, Gather
  <2>1. endpoints' \in Seq(Tagged)
    BY <1>3, TagType DEF SourceAnswers, Gather
  <2> QED
    BY <1>3, <2>1 DEF SourceAnswers, Gather
<1>4. CASE SourceAnswersNil
  BY <1>4 DEF SourceAnswersNil, Status
<1>5. CASE SourceFails
  BY <1>5 DEF SourceFails
<1>6. CASE Bail
  BY <1>6 DEF Bail, BailWith, Status, AfterRun, MainReturns
<1>7. CASE Publish
  BY <1>7 DEF Publish, CallProviders
<1>8. CASE SkipPublish
  BY <1>8 DEF SkipPublish, Status, AfterRun, MainReturns
<1>9. CASE ProviderSucceeds
  BY <1>9 DEF ProviderSucceeds, ProviderUpdates
<1>10. CASE ProviderFails
  BY <1>10 DEF ProviderFails, ProviderUpdates
<1>11. CASE FinishRun
  BY <1>11 DEF FinishRun, Status, AfterRun, MainReturns
<1>12. CASE TakeTick
  BY <1>12 DEF TakeTick
<1>13. CASE TakeDone
  BY <1>13 DEF TakeDone, LeaveLoop, MainReturns
<1>14. CASE TimePasses
  BY <1>14 DEF TimePasses
<1>15. CASE Sigterm
  BY <1>15 DEF Sigterm
<1>16. CASE Kill
  BY <1>16 DEF Kill
<1>17. CASE Restart
  <2>1. once' \in BOOLEAN /\ dryRun' \in BOOLEAN /\ tickReady' \in BOOLEAN /\ cancelled' \in BOOLEAN
    BY <1>17, ModesAssumption DEF Restart
  <2>2. pc' \in {"check", "source", "provider", "select"} \cup Down
    BY <1>17, BootedType DEF Restart
  <2>3. turn' \in Nat \ {0} /\ endpoints' \in Seq(Tagged)
    BY <1>17 DEF Restart
  <2>4. failedSources' \subseteq Source /\ failedProviders' \subseteq Provider
    BY <1>17 DEF Restart
  <2>5. answers' \in [Source -> Seq(Endpoint)]
    BY <1>17, NoAnswers DEF Restart
  <2>6. due' \in 0..Interval /\ tickIn' \in 1..TickPeriod
    BY <1>17, TimeAssumption DEF Restart
  <2>7. sinceStart' \in 0..Interval
    BY <1>17, TimeAssumption DEF Restart
  <2>8. sourceUp' \in [Source -> Gauge] /\ providerUp' \in [Provider -> Gauge]
    BY <1>17 DEF Restart
  <2>9. lastStatus' \in {"unset", "success", "errored"}
    BY <1>17 DEF Restart
  <2>10. received' \in [Provider -> Seq(Tagged) \cup {Nothing}] /\ kills' \in 0..MaxKills
    BY <1>17, KillsAssumption DEF Restart
  <2> QED
    BY <2>1, <2>2, <2>3, <2>4, <2>5, <2>6, <2>7, <2>8, <2>9, <2>10 DEF TypeOK
<1>18. CASE Terminated \/ UNCHANGED vars
  BY <1>18 DEF Terminated, vars
<1> QED
  BY <1>1, <1>2, <1>3, <1>4, <1>5, <1>6, <1>7, <1>8, <1>9, <1>10, <1>11, <1>12,
     <1>13, <1>14, <1>15, <1>16, <1>17, <1>18 DEF Next

(* A new process has the types. *)
LEMMA TypeInit == Init => TypeOK
<1> SUFFICES ASSUME Init PROVE TypeOK
  OBVIOUS
<1> USE DEF Down, Gauge
<1>1. once \in BOOLEAN /\ dryRun \in BOOLEAN /\ tickReady \in BOOLEAN /\ cancelled \in BOOLEAN
  BY ModesAssumption DEF Init
<1>2. pc \in {"check", "source", "provider", "select"} \cup Down
  BY BootedType DEF Init
<1>3. turn \in Nat \ {0} /\ endpoints \in Seq(Tagged)
  BY DEF Init
<1>4. failedSources \subseteq Source /\ failedProviders \subseteq Provider
  BY DEF Init
<1>5. answers \in [Source -> Seq(Endpoint)]
  BY NoAnswers DEF Init
<1>6. due \in 0..Interval /\ tickIn \in 1..TickPeriod
  BY TimeAssumption DEF Init
<1>7. sinceStart \in 0..Interval
  BY TimeAssumption DEF Init
<1>8. sourceUp \in [Source -> Gauge] /\ providerUp \in [Provider -> Gauge]
  BY DEF Init
<1>9. lastStatus \in {"unset", "success", "errored"}
  BY DEF Init
<1>10. received \in [Provider -> Seq(Tagged) \cup {Nothing}] /\ kills \in 0..MaxKills
  BY KillsAssumption DEF Init
<1> QED
  BY <1>1, <1>2, <1>3, <1>4, <1>5, <1>6, <1>7, <1>8, <1>9, <1>10 DEF TypeOK

(* Every variable of the controller keeps its type in every behaviour. *)
THEOREM TypeCorrect == SafeSpec => []TypeOK
BY TypeInit, TypeStep, PTL DEF SafeSpec

(* Each step keeps what the phases of a run established. *)
LEMMA InvStep == TypeOK /\ ControllerInv /\ [Next]_vars => ControllerInv'
<1> SUFFICES ASSUME TypeOK, ControllerInv, [Next]_vars PROVE ControllerInv'
  OBVIOUS
<1> USE SizesAssumption, TimeAssumption
<1> USE DEF TypeOK, Down, Gauge, flags, run, clock, metrics, Source, Provider,
            ControllerInv, SourcePhase, ProviderPhase, DryRunNeverUp, DueSinceStart,
            UpMeansCurrent, StatusMatchesGauges, Idle
<1>1. CASE ShouldRun
  BY <1>1 DEF ShouldRun, StartRun
<1>2. CASE ShouldNotRun
  BY <1>2 DEF ShouldNotRun
<1>3. CASE SourceAnswers
  BY <1>3 DEF SourceAnswers, Gather
<1>4. CASE SourceAnswersNil
  BY <1>4 DEF SourceAnswersNil
<1>5. CASE SourceFails
  BY <1>5 DEF SourceFails
<1>6. CASE Bail
  BY <1>6 DEF Bail, BailWith, Status, AfterRun, MainReturns, errored
<1>7. CASE Publish
  BY <1>7 DEF Publish, CallProviders
<1>8. CASE SkipPublish
  <2>1. turn = NSources + 1 /\ failedSources = {} /\ failedProviders = {}
    BY <1>8 DEF SkipPublish
  <2>2. dryRun /\ lastStatus' = "success"
    BY <1>8, <2>1 DEF SkipPublish, Status, errored
  <2>3. \A s \in Source : sourceUp[s] = "up"
    BY <1>8, <2>1 DEF SkipPublish
  <2>4. StatusMatchesGauges'
    BY <1>8, <2>1, <2>2, <2>3 DEF SkipPublish
  <2>5. UpMeansCurrent'
    BY <1>8, <2>2 DEF SkipPublish
  <2>6. pc' \notin {"source", "provider"}
    BY <1>8 DEF SkipPublish, AfterRun, MainReturns
  <2> QED
    BY <1>8, <2>4, <2>5, <2>6 DEF SkipPublish
<1>9. CASE ProviderSucceeds
  BY <1>9 DEF ProviderSucceeds, ProviderUpdates
<1>10. CASE ProviderFails
  BY <1>10 DEF ProviderFails, ProviderUpdates
<1>11. CASE FinishRun
  <2>1. turn = NProviders + 1 /\ failedSources = {}
    BY <1>11 DEF FinishRun
  <2>2. lastStatus' = IF failedProviders = {} THEN "success" ELSE "errored"
    BY <1>11, <2>1 DEF FinishRun, Status, errored
  <2>3. ~dryRun /\ \A s \in Source : sourceUp[s] = "up"
    BY <1>11 DEF FinishRun
  <2>4. \A p \in Provider :
           /\ received[p] = endpoints
           /\ providerUp[p] = IF p \in failedProviders THEN "down" ELSE "up"
    BY <1>11, <2>1 DEF FinishRun
  <2>5. StatusMatchesGauges'
    BY <1>11, <2>1, <2>2, <2>3, <2>4 DEF FinishRun
  <2>6. UpMeansCurrent'
    BY <1>11, <2>1, <2>4 DEF FinishRun
  <2>7. pc' \notin {"source", "provider"}
    BY <1>11 DEF FinishRun, AfterRun, MainReturns
  <2> QED
    BY <1>11, <2>5, <2>6, <2>7 DEF FinishRun
<1>12. CASE TakeTick
  BY <1>12 DEF TakeTick
<1>13. CASE TakeDone
  BY <1>13 DEF TakeDone, LeaveLoop, MainReturns
<1>14. CASE TimePasses
  BY <1>14 DEF TimePasses
<1>15. CASE Sigterm
  BY <1>15 DEF Sigterm
<1>16. CASE Kill
  BY <1>16 DEF Kill
<1>17. CASE Restart
  BY <1>17 DEF Restart, Booted
<1>18. CASE Terminated \/ UNCHANGED vars
  <2>1. UNCHANGED <<pc, turn, endpoints, failedSources, failedProviders, due, sinceStart,
                    dryRun, sourceUp, providerUp, lastStatus, received>>
    BY <1>18 DEF Terminated, vars
  <2> QED
    BY <2>1
<1> QED
  BY <1>1, <1>2, <1>3, <1>4, <1>5, <1>6, <1>7, <1>8, <1>9, <1>10, <1>11, <1>12, <1>13, <1>14, <1>15, <1>16, <1>17, <1>18 DEF Next

(* A new process has run nothing: its gauges claim nothing. *)
LEMMA InvInit == Init => ControllerInv
BY SizesAssumption, TimeAssumption
   DEF Init, Booted, ControllerInv, SourcePhase, ProviderPhase, DryRunNeverUp, DueSinceStart,
       UpMeansCurrent, StatusMatchesGauges, Idle, Source, Provider

(* The inductive invariant holds in every behaviour. *)
THEOREM InvCorrect == SafeSpec => []ControllerInv
BY TypeInit, TypeStep, InvInit, InvStep, PTL DEF SafeSpec

(* For any number of sources and providers, a provider whose gauge is up   *)
(* between runs holds the latest list, and so does every other provider.   *)
THEOREM UpMeansCurrentHolds == SafeSpec => []UpMeansCurrent
<1>1. ControllerInv => UpMeansCurrent
  BY DEF ControllerInv
<1> QED
  BY <1>1, InvCorrect, PTL

(* The run counter and the gauges always agree between runs. *)
THEOREM StatusMatchesGaugesHolds == SafeSpec => []StatusMatchesGauges
<1>1. ControllerInv => StatusMatchesGauges
  BY DEF ControllerInv
<1> QED
  BY <1>1, InvCorrect, PTL

(* No provider is ever handed the list of a run with a failed source, nor  *)
(* one of a dry run.                                                       *)
THEOREM DeliversHealthyRoundsHolds == SafeSpec => DeliversHealthyRounds
<1>1. ASSUME TypeOK, ControllerInv, [Next]_vars, received' # received
      PROVE  ~dryRun /\ \A s \in Source : sourceUp[s] = "up"
  <2>1. ProviderSucceeds \/ ProviderFails
    BY <1>1 DEF Next, vars, flags, run, clock, metrics, ShouldRun, StartRun, ShouldNotRun,
                SourceAnswers, Gather, SourceAnswersNil, SourceFails, Bail, BailWith, Publish,
                CallProviders, SkipPublish, FinishRun, TakeTick, TakeDone, LeaveLoop, MainReturns,
                TimePasses, Sigterm, Kill, Restart, Terminated
  <2> QED
    BY <1>1, <2>1 DEF ProviderSucceeds, ProviderFails, ProviderUpdates, ControllerInv,
                      ProviderPhase
<1>2. TypeOK /\ ControllerInv /\ [Next]_vars
      => [received' # received => ~dryRun /\ \A s \in Source : sourceUp[s] = "up"]_vars
  BY <1>1
<1> QED
  BY <1>2, TypeCorrect, InvCorrect, PTL DEF SafeSpec, DeliversHealthyRounds

(* For every interval and tick length, two runs start at least Interval apart. *)
THEOREM AtMostOncePerIntervalHolds == SafeSpec => AtMostOncePerInterval
<1>1. ASSUME TypeOK, ControllerInv, [Next]_vars, pc = "check", pc' = "source"
      PROVE  sinceStart >= Interval
  <2>1. ShouldRun
    BY <1>1 DEF Next, vars, ShouldNotRun,
                SourceAnswers, Gather, SourceAnswersNil, SourceFails, Bail, BailWith, Publish,
                CallProviders, SkipPublish, FinishRun, TakeTick, TakeDone, LeaveLoop, MainReturns,
                TimePasses, Sigterm, Kill, Restart, Terminated, ProviderSucceeds,
                ProviderFails, ProviderUpdates
  <2> QED
    BY <1>1, <2>1, TimeAssumption DEF ShouldRun, TypeOK, ControllerInv, DueSinceStart
<1>2. TypeOK /\ ControllerInv /\ [Next]_vars
      => [pc = "check" /\ pc' = "source" => sinceStart >= Interval]_vars
  BY <1>1
<1> QED
  BY <1>2, TypeCorrect, InvCorrect, PTL DEF SafeSpec, AtMostOncePerInterval

-------------------------------------------------------------------------------
(* Nothing gathered yet: every source stands in the empty list, having     *)
(* answered nothing.                                                       *)
LEMMA NothingGathered ==
    ASSUME endpoints = <<>>, answers = [s \in Source |-> <<>>]
    PROVE  Gathered
<1>1. Len(endpoints) = 0 /\ DOMAIN endpoints = {}
  OBVIOUS
<1>2. \A s \in Source : answers[s] = <<>> /\ Len(answers[s]) = 0 /\ DOMAIN answers[s] = {}
  OBVIOUS
<1> QED
  BY <1>1, <1>2 DEF Gathered, Included

(* Where the elements of a concatenation stand. *)
Concatenated(a, b) ==
    /\ Len(a) \in Nat /\ Len(b) \in Nat
    /\ Len(a \o b) = Len(a) + Len(b)
    /\ DOMAIN (a \o b) = 1..Len(a) + Len(b)
    /\ \A k \in 1..Len(a) : (a \o b)[k] = a[k]
    /\ \A k \in 1..Len(b) : (a \o b)[Len(a) + k] = b[k]
    /\ \A k \in Len(a) + 1..Len(a) + Len(b) :
          k - Len(a) \in 1..Len(b) /\ (a \o b)[k] = b[k - Len(a)]

LEMMA Concatenation ==
    ASSUME NEW S, NEW a \in Seq(S), NEW b \in Seq(S)
    PROVE  Concatenated(a, b)
<1>1. Len(a) \in Nat /\ Len(b) \in Nat
  OBVIOUS
<1>2. a \o b \in Seq(S) /\ Len(a \o b) = Len(a) + Len(b)
  BY ConcatProperties
<1>3. DOMAIN (a \o b) = 1..Len(a) + Len(b)
  BY <1>2
<1>4. \A k \in 1..Len(a) + Len(b) : (a \o b)[k] = IF k <= Len(a) THEN a[k] ELSE b[k - Len(a)]
  BY ConcatProperties
<1>5. \A k \in 1..Len(a) : k \in 1..Len(a) + Len(b) /\ k <= Len(a)
  BY <1>1
<1>6. \A k \in 1..Len(b) :
         Len(a) + k \in 1..Len(a) + Len(b) /\ ~(Len(a) + k <= Len(a)) /\ Len(a) + k - Len(a) = k
  BY <1>1
<1>7. \A k \in Len(a) + 1..Len(a) + Len(b) :
         k \in 1..Len(a) + Len(b) /\ ~(k <= Len(a)) /\ k - Len(a) \in 1..Len(b)
  BY <1>1
<1> QED
  BY <1>1, <1>2, <1>3, <1>4, <1>5, <1>6, <1>7 DEF Concatenated

(* The answer of a source whose turn it is goes to the end of the list,    *)
(* and every other source stands where it stood.                           *)
LEMMA AppendedAnswer ==
    ASSUME TypeOK, Gathered, SourceAnswers, NEW s \in Source
    PROVE  Included(s)'
<1> USE SizesAssumption
<1> PICK answer \in Answers \cap Seq(Endpoint) :
          /\ endpoints' = endpoints \o Tag(answer, turn)
          /\ answers' = [answers EXCEPT ![turn] = answer]
  BY DEF SourceAnswers, Gather
<1> DEFINE n == Len(endpoints)
           m == Len(answer)
           tagged == Tag(answer, turn)
           old == Len(answers[s])
<1>1. /\ pc = "source" /\ turn \in Source /\ endpoints \in Seq(Tagged)
      /\ answers \in [Source -> Seq(Endpoint)] /\ answer \in Seq(Endpoint)
  BY DEF SourceAnswers, Gather, TypeOK
<1>2. tagged \in Seq(Tagged) /\ Len(tagged) = m
  <2>1. tagged \in Seq(Tagged)
    BY <1>1, TagType
  <2>2. DOMAIN tagged = 1..m
    BY <1>1 DEF Tag
  <2> QED
    BY <1>1, <2>1, <2>2
<1>3. \A k \in 1..m : tagged[k].source = turn /\ tagged[k].endpoint = answer[k]
  BY <1>1 DEF Tag
<1>4. PICK before \in 0..n :
          /\ \A k \in DOMAIN endpoints :
                endpoints[k].source = s <=> k \in before + 1..before + old
          /\ \A k \in DOMAIN answers[s] :
                /\ before + k \in DOMAIN endpoints
                /\ endpoints[before + k].endpoint = answers[s][k]
  BY <1>1 DEF Gathered, Included
<1>5. /\ DOMAIN endpoints = 1..n /\ DOMAIN answers[s] = 1..old /\ DOMAIN answer = 1..m
      /\ n \in Nat /\ m \in Nat /\ old \in Nat /\ before \in Nat /\ before <= n
  BY <1>1
<1> HIDE DEF n, m, old, tagged
<1>6. before + old <= n
  <2>1. CASE old = 0
    BY <1>5, <2>1
  <2>2. CASE old # 0
    <3>1. ASSUME NEW k \in 1..old PROVE before + k \in 1..n
      BY <1>4, <1>5
    <3>2. old \in 1..old
      BY <1>5, <2>2
    <3>3. before + old \in 1..n
      BY <3>1, <3>2
    <3> QED
      BY <1>5, <3>3
  <2> QED
    BY <2>1, <2>2
<1> DEFINE list == endpoints \o tagged
<1>7. /\ DOMAIN list = 1..n + m /\ Len(list) = n + m
      /\ \A k \in 1..n : list[k] = endpoints[k]
      /\ \A k \in 1..m : list[n + k] = tagged[k]
      /\ \A k \in n + 1..n + m : k - n \in 1..m /\ list[k] = tagged[k - n]
  <2>1. Concatenated(endpoints, tagged)
    BY <1>1, <1>2, Concatenation
  <2> QED
    BY <1>2, <2>1 DEF Concatenated, n
<1>8. endpoints' = list
  BY DEF tagged
<1> HIDE DEF list
<1>9. \A k \in n + 1..n + m : list[k].source = turn
  BY <1>3, <1>7
<1>10. \A k \in 1..n + m : k \in 1..n \/ k \in n + 1..n + m
  BY <1>5
<1>11. CASE s # turn
  <2>1. answers'[s] = answers[s]
    BY <1>1, <1>11
  <2>2. ASSUME NEW k \in 1..n + m
        PROVE  list[k].source = s <=> k \in before + 1..before + old
    <3>1. CASE k \in 1..n
      BY <1>4, <1>5, <1>7, <3>1
    <3>2. CASE k \in n + 1..n + m
      <4>1. list[k].source # s
        BY <1>9, <1>11, <3>2
      <4>2. k \notin before + 1..before + old
        BY <1>5, <1>6, <3>2
      <4> QED
        BY <4>1, <4>2
    <3> QED
      BY <1>10, <3>1, <3>2
  <2>3. ASSUME NEW k \in 1..old
        PROVE  before + k \in 1..n + m /\ list[before + k].endpoint = answers[s][k]
    <3>1. before + k \in 1..n /\ endpoints[before + k].endpoint = answers[s][k]
      BY <1>4, <1>5
    <3>2. before + k \in 1..n + m
      BY <1>5, <3>1
    <3> QED
      BY <1>7, <3>1, <3>2
  <2>4. before \in 0..Len(endpoints')
    BY <1>5, <1>7, <1>8
  <2>5. DOMAIN endpoints' = 1..n + m /\ DOMAIN answers'[s] = 1..old /\ Len(answers'[s]) = old
    BY <1>5, <1>7, <1>8, <2>1 DEF old
  <2> QED
    BY <1>8, <2>1, <2>2, <2>3, <2>4, <2>5 DEF Included
<1>12. CASE s = turn
  <2>1. answers'[s] = answer
    BY <1>1, <1>12
  <2>2. old = 0
    <3>1. turn \in Nat
      BY DEF TypeOK
    <3>2. answers[s] = <<>>
      BY <1>1, <1>12, <3>1 DEF Gathered
    <3> QED
      BY <3>2 DEF old
  <2>3. ASSUME NEW k \in 1..n + m
        PROVE  list[k].source = s <=> k \in n + 1..n + m
    <3>1. CASE k \in 1..n
      <4>1. list[k].source # s
        BY <1>4, <1>5, <1>7, <2>2, <3>1
      <4>2. k \notin n + 1..n + m
        BY <1>5, <3>1
      <4> QED
        BY <4>1, <4>2
    <3>2. CASE k \in n + 1..n + m
      BY <1>9, <1>12, <3>2
    <3> QED
      BY <1>10, <3>1, <3>2
  <2>4. ASSUME NEW k \in 1..m
        PROVE  n + k \in 1..n + m /\ list[n + k].endpoint = answer[k]
    <3>1. n + k \in 1..n + m
      BY <1>5
    <3> QED
      BY <1>3, <1>7, <3>1
  <2>5. n \in 0..Len(endpoints')
    BY <1>5, <1>7, <1>8
  <2>6. DOMAIN endpoints' = 1..n + m /\ DOMAIN answers'[s] = 1..m /\ Len(answers'[s]) = m
    BY <1>5, <1>7, <1>8, <2>1 DEF m
  <2> QED
    BY <1>8, <2>1, <2>3, <2>4, <2>5, <2>6 DEF Included
<1> QED
  BY <1>11, <1>12

(* Each step keeps the gathered list whole. *)
LEMMA GatheredStep == TypeOK /\ Gathered /\ [Next]_vars => Gathered'
<1> SUFFICES ASSUME TypeOK, Gathered, [Next]_vars PROVE Gathered'
  OBVIOUS
<1> USE SizesAssumption
<1>1. CASE ShouldRun \/ Restart
  BY <1>1, NothingGathered DEF ShouldRun, StartRun, Restart, Gathered, Included
<1>2. CASE SourceAnswers
  <2> PICK answer \in Answers \cap Seq(Endpoint) :
            /\ endpoints' = endpoints \o Tag(answer, turn)
            /\ answers' = [answers EXCEPT ![turn] = answer]
    BY <1>2 DEF SourceAnswers, Gather
  <2>1. /\ pc = "source" /\ pc' = "source" /\ turn \in Source /\ turn' = turn + 1
        /\ answers \in [Source -> Seq(Endpoint)] /\ endpoints \in Seq(Tagged)
    BY <1>2 DEF SourceAnswers, Gather, TypeOK
  <2>2. \A s \in Source : Included(s)'
    BY <1>2, AppendedAnswer
  <2>3. \A k \in DOMAIN endpoints' : endpoints'[k].source \in Source
    <3>1. Tag(answer, turn) \in Seq(Tagged)
      BY <2>1, TagType
    <3>2. endpoints' \in Seq(Tagged)
      BY <2>1, <3>1, ConcatProperties
    <3>3. \A k \in DOMAIN endpoints' : endpoints'[k] \in Tagged
      BY <3>2
    <3> QED
      BY <3>3 DEF Tagged
  <2>4. \A s \in Source : s >= turn' => answers'[s] = <<>>
    BY <2>1 DEF Gathered, Source
  <2> QED
    BY <2>1, <2>2, <2>3, <2>4 DEF Gathered
<1>3. CASE SourceFails
  <2>1. UNCHANGED <<pc, endpoints, answers>> /\ turn \in Source /\ turn' = turn + 1
    BY <1>3 DEF SourceFails
  <2>2. \A s \in Source : Included(s) => Included(s)'
    BY <2>1 DEF Included
  <2>3. \A s \in Source : s >= turn' => s >= turn
    BY <2>1 DEF Source
  <2> QED
    BY <2>1, <2>2, <2>3 DEF Gathered
<1>4. CASE Publish
  <2>1. UNCHANGED <<endpoints, answers>> /\ pc = "source" /\ pc' = "provider"
    BY <1>4 DEF Publish, CallProviders
  <2> QED
    BY <2>1 DEF Gathered, Included
<1>5. CASE ProviderSucceeds \/ ProviderFails
  <2>1. UNCHANGED <<endpoints, answers, pc>> /\ pc = "provider"
    BY <1>5 DEF ProviderSucceeds, ProviderFails, ProviderUpdates
  <2> QED
    BY <2>1 DEF Gathered, Included
<1>6. CASE ShouldNotRun \/ SourceAnswersNil \/ Bail \/ SkipPublish \/ FinishRun
           \/ TakeTick \/ TakeDone \/ Kill
  <2>1. pc' \notin {"source", "provider"}
    BY <1>6 DEF ShouldNotRun, SourceAnswersNil, Bail, BailWith, SkipPublish, FinishRun, AfterRun,
                MainReturns, Down, TakeTick, TakeDone, LeaveLoop, Kill
  <2> QED
    BY <2>1 DEF Gathered
<1>7. CASE TimePasses \/ Sigterm \/ Terminated \/ UNCHANGED vars
  <2>1. UNCHANGED <<pc, turn, endpoints, answers>>
    BY <1>7 DEF TimePasses, Sigterm, Terminated, vars, run
  <2> QED
    BY <2>1 DEF Gathered, Included
<1> QED
  BY <1>1, <1>2, <1>3, <1>4, <1>5, <1>6, <1>7 DEF Next

(* Providers are only ever called with the whole answers of the sources'   *)
(* latest calls, for any number of sources and whatever they answer.       *)
THEOREM BatchIsWholeHolds == SafeSpec => []BatchIsWhole
<1>1. Init => Gathered
  BY NothingGathered DEF Init
<1>2. Gathered => BatchIsWhole
  BY DEF Gathered, BatchIsWhole
<1> QED
  BY <1>1, <1>2, GatheredStep, TypeCorrect, PTL DEF SafeSpec

-------------------------------------------------------------------------------
(* The refinement: the steps of the loop are the steps of a round. *)
LEMMA RoundInit == Init => Round!Init
BY DEF Init, Booted, Down, Round!Init

(* Every step of the loop is a step of a round, or leaves the round alone. *)
LEMMA RoundStep ==
    TypeOK /\ ControllerInv /\ [Next]_vars => [Round!Next]_(Round!vars)
<1> SUFFICES ASSUME TypeOK, ControllerInv, [Next]_vars
             PROVE  [Round!Next]_(Round!vars)
  OBVIOUS
<1> USE SizesAssumption
<1> USE DEF Down, Provider
<1>1. ASSUME pc \notin Down \cup {"provider"}, pc' \notin Down \cup {"provider"},
             UNCHANGED received
      PROVE  UNCHANGED Round!vars
  BY <1>1 DEF Round!vars
<1>2. ASSUME pc \notin Down \cup {"provider"}, pc' \in Down, UNCHANGED received
      PROVE  Round!Next
  BY <1>2 DEF Round!Next, Round!Close, Round!Crash, Round!Reset
<1>3. CASE ShouldRun \/ ShouldNotRun \/ SourceAnswers \/ SourceFails \/ TakeTick
  BY <1>1, <1>3 DEF ShouldRun, StartRun, ShouldNotRun, SourceAnswers, Gather, SourceFails,
                    TakeTick, metrics
<1>4. CASE SourceAnswersNil \/ TakeDone
  BY <1>2, <1>4 DEF SourceAnswersNil, TakeDone, LeaveLoop, MainReturns
<1>5. CASE Bail \/ SkipPublish
  <2>1. pc = "source" /\ pc' \in {"select"} \cup Down /\ UNCHANGED received
    BY <1>5 DEF Bail, BailWith, SkipPublish, AfterRun, MainReturns
  <2> QED
    BY <1>1, <1>2, <2>1
<1>6. CASE Publish
  <2>1. endpoints' \in Seq(Tagged)
    BY <1>6 DEF Publish, CallProviders, TypeOK
  <2>2. Round!Open
    BY <1>6, <2>1 DEF Publish, CallProviders, Round!Open
  <2> QED
    BY <2>2 DEF Round!Next
<1>7. CASE ProviderSucceeds \/ ProviderFails
  <2>1. /\ pc = "provider" /\ pc' = "provider" /\ turn \in Provider /\ turn' = turn + 1
        /\ received' = [received EXCEPT ![turn] = endpoints]
        /\ UNCHANGED endpoints
    BY <1>7 DEF ProviderSucceeds, ProviderFails, ProviderUpdates
  <2>2. PICK p \in Provider : p = turn
    BY <2>1
  <2>3. {q \in Provider : q < turn'} = {q \in Provider : q < turn} \cup {p}
    BY <2>1, <2>2
  <2>4. Round!Serve(p)
    BY <2>1, <2>2, <2>3 DEF Round!Serve
  <2> QED
    BY <2>4 DEF Round!Next
<1>8. CASE FinishRun
  <2>1. pc = "provider" /\ pc' \in {"select"} \cup Down /\ UNCHANGED received
    BY <1>8 DEF FinishRun, AfterRun, MainReturns
  <2>2. turn = NProviders + 1
    BY <1>8 DEF FinishRun, ControllerInv, ProviderPhase
  <2>3. {p \in Provider : p < turn} = Provider
    BY <2>2
  <2>4. Round!Settle \/ Round!Crash
    BY <2>1, <2>3 DEF Round!Settle, Round!Crash, Round!Reset
  <2> QED
    BY <2>4 DEF Round!Next
<1>9. CASE TimePasses \/ Sigterm
  <2>1. UNCHANGED <<pc, turn, endpoints, received>>
    BY <1>9 DEF TimePasses, Sigterm, run
  <2> QED
    BY <2>1 DEF Round!vars
<1>10. CASE Kill
  BY <1>10 DEF Kill, Round!Next, Round!Crash, Round!Reset
<1>11. CASE Restart
  BY <1>11 DEF Restart, Booted, Round!Next, Round!Reopen, Round!Reset
<1>12. CASE Terminated \/ UNCHANGED vars
  <2>1. UNCHANGED <<pc, turn, endpoints, received>>
    BY <1>12 DEF Terminated, vars, run
  <2> QED
    BY <2>1 DEF Round!vars
<1> QED
  BY <1>3, <1>4, <1>5, <1>6, <1>7, <1>8, <1>9, <1>10, <1>11, <1>12 DEF Next

(* The loop implements Reconciliation, for any number of sources and       *)
(* providers: one list a round, to every provider, exactly once, and no    *)
(* provider is touched between rounds.                                     *)
THEOREM Refinement == SafeSpec => ImplementsReconciliation
BY RoundInit, RoundStep, TypeCorrect, InvCorrect, PTL
   DEF SafeSpec, ImplementsReconciliation, Round!Spec
===============================================================================
