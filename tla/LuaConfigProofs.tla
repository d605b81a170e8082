---------------------------- MODULE LuaConfigProofs ----------------------------
(***************************************************************************)
(* Whether a process starts, and with what, is decided by its script: for  *)
(* every set of scripts, whatever their declarations are and in whatever   *)
(* order they are visited.  The invariant says of each phase that what has *)
(* been built is what the declarations visited so far are for, and that    *)
(* none of them is broken or clashes with another.                         *)
(***************************************************************************)
EXTENDS LuaConfig, FiniteSetTheorems, WellFoundedInduction, TLAPS

Sound(d, kinds) == d.config # "missing" /\ (d.kind \in kinds => d.config = "ok")
ConfiguredKinds == ProviderKinds \ {"custom"}

(* A list without repetitions of finitely many names.                      *)
ListOf(s, names) == s \in Seq(Name) /\ IsFiniteSet(names) /\ Exactly(s, names)

SourcesSoFar(visited) ==
    /\ \A n \in visited : Sound(script.sources[n], {"vyos_ssh"})
    /\ ListOf(sources, visited \cap Wellformed(script.sources, SourceKinds))

ProvidersSoFar(visited) ==
    LET ps == script.providers IN
    /\ \A n \in visited :
        /\ Sound(ps[n], ConfiguredKinds)
        /\ Alone(ps[n])
    /\ \A m, n \in visited : m # n => ~Clash(ps[m], ps[n])
    /\ ListOf(providers, visited \cap Wellformed(ps, ProviderKinds))
    /\ handled = (\E n \in visited : ps[n].kind = "http")
    /\ registered = {ps[n].metric : n \in {m \in visited : ps[m].kind = "prometheus_metrics"}}

NothingBuilt == providers = <<>> /\ handled = FALSE /\ registered = {}

Building ==
    /\ phase = "parse" => sources = <<>> /\ todo = {} /\ NothingBuilt
    /\ phase = "sources" =>
        /\ Parses
        /\ todo \subseteq DOMAIN script.sources
        /\ SourcesSoFar(DOMAIN script.sources \ todo)
        /\ NothingBuilt
    /\ phase \in {"providers", "running"} =>
        /\ Parses
        /\ SourcesSoFar(DOMAIN script.sources)
        /\ todo \subseteq DOMAIN script.providers
        /\ ProvidersSoFar(DOMAIN script.providers \ todo)
    /\ phase = "running" => todo = {}
    /\ phase = "dead" /\ up => ~Startable

Inv == StartTypeOK /\ Building

-------------------------------------------------------------------------------
(* What the assumption about scripts says of the one that is run. *)
LEMMA ScriptTypes ==
    ASSUME StartTypeOK
    PROVE  /\ DOMAIN script.sources \subseteq Name /\ DOMAIN script.providers \subseteq Name
           /\ \A n \in DOMAIN script.sources : script.sources[n] \in Decl
           /\ \A n \in DOMAIN script.providers : script.providers[n] \in Decl
           /\ script.aws \in BOOLEAN
BY ScriptsAssumption DEF StartTypeOK, Script

(* Startable, with its local abbreviations expanded. *)
LEMMA StartableMeans ==
    Startable <=>
        /\ Parses
        /\ \A n \in DOMAIN script.sources : Sound(script.sources[n], {"vyos_ssh"})
        /\ \A n \in DOMAIN script.providers :
            /\ Sound(script.providers[n], ConfiguredKinds)
            /\ Alone(script.providers[n])
        /\ \A m, n \in DOMAIN script.providers :
            m # n => ~Clash(script.providers[m], script.providers[n])
BY DEF Startable, Sound, ConfiguredKinds

(* A declaration either is sound or ends the process. *)
LEMMA SoundOrFails ==
    ASSUME NEW d \in Decl, NEW kinds
    PROVE  Fails(d, kinds) <=> ~Sound(d, kinds)
BY DEF Fails, Sound, Decl

(* An empty list, and one more name at the end. *)
LEMMA EmptyList == ListOf(<<>>, {})
<1>1. Range(<<>>) = {}
    BY DEF Range
<1> QED
    BY <1>1, FS_EmptySet DEF ListOf, Exactly

LEMMA LongerList ==
    ASSUME NEW s, NEW names, ListOf(s, names), NEW n \in Name, n \notin names
    PROVE  ListOf(Append(s, n), names \cup {n})
<1>1. /\ s \in Seq(Name) /\ Append(s, n) \in Seq(Name)
      /\ Len(Append(s, n)) = Len(s) + 1
      /\ DOMAIN Append(s, n) = 1..Len(s) + 1 /\ DOMAIN s = 1..Len(s)
      /\ \A i \in 1..Len(s) : Append(s, n)[i] = s[i]
      /\ Append(s, n)[Len(s) + 1] = n
      /\ Len(s) \in Nat
    BY DEF ListOf
<1>2. Range(Append(s, n)) = Range(s) \cup {n}
    BY <1>1 DEF Range
<1>3. /\ IsFiniteSet(names \cup {n})
      /\ Cardinality(names \cup {n}) = Cardinality(names) + 1
    BY FS_AddElement DEF ListOf
<1> QED
    BY <1>1, <1>2, <1>3 DEF ListOf, Exactly

-------------------------------------------------------------------------------
LEMMA InitInv == Init => Inv
<1> SUFFICES ASSUME Init PROVE Inv
    OBVIOUS
<1>1. StartTypeOK
    <2>1. sources \in Seq(Name) /\ providers \in Seq(Name)
        BY DEF Init
    <2>2. handled \in BOOLEAN
        BY DEF Init
    <2> QED
        BY <2>1, <2>2 DEF Init, StartTypeOK, Phases
<1>2. Building
    BY DEF Init, Building, NothingBuilt
<1> QED
    BY <1>1, <1>2 DEF Inv

(* Nothing but the script and what has been built matters. *)
LEMMA SourcesStay ==
    ASSUME NEW visited, SourcesSoFar(visited), UNCHANGED <<script, sources>>
    PROVE  SourcesSoFar(visited)'
BY DEF SourcesSoFar, ListOf, Exactly, Range, Sound, Wellformed, Known

LEMMA ProvidersStay ==
    ASSUME NEW visited, ProvidersSoFar(visited),
           UNCHANGED <<script, providers, handled, registered>>
    PROVE  ProvidersSoFar(visited)'
<1>1. handled' = (\E n \in visited : script.providers'[n].kind = "http")
    BY DEF ProvidersSoFar
<1>2. registered' = {script.providers'[n].metric :
                        n \in {m \in visited : script.providers'[m].kind = "prometheus_metrics"}}
    BY DEF ProvidersSoFar
<1>3. ListOf(providers, visited \cap Wellformed(script.providers, ProviderKinds))'
    BY DEF ProvidersSoFar, ListOf, Exactly, Range, Wellformed, Known
<1>4. /\ \A n \in visited :
            /\ Sound(script.providers[n], ConfiguredKinds)'
            /\ Alone(script.providers[n])'
      /\ \A m, n \in visited : m # n => ~Clash(script.providers[m], script.providers[n])'
    BY DEF ProvidersSoFar, Sound, Alone, Clash
<1> QED
    BY <1>1, <1>2, <1>3, <1>4 DEF ProvidersSoFar

LEMMA StartableStays ==
    ASSUME UNCHANGED script
    PROVE  Startable' = Startable /\ Parses' = Parses
BY DEF Startable, Parses, IsTable, Alone, Clash

LEMMA Unchanged ==
    ASSUME Inv, UNCHANGED <<script, phase, todo, sources, providers, handled, registered>>,
           phase' = "dead" => up' = up
    PROVE  Inv'
<1>1. StartTypeOK'
    BY DEF Inv, StartTypeOK
<1>2. ASSUME phase \in {"providers", "running"}
      PROVE  ProvidersSoFar(DOMAIN script.providers \ todo)'
    BY <1>2, ProvidersStay DEF Inv, Building
<1>3. NothingBuilt' = NothingBuilt
    BY DEF NothingBuilt
<1>4. ASSUME phase = "sources" PROVE SourcesSoFar(DOMAIN script.sources \ todo)'
    BY <1>4, SourcesStay DEF Inv, Building
<1>5. ASSUME phase \in {"providers", "running"} PROVE SourcesSoFar(DOMAIN script.sources)'
    BY <1>5, SourcesStay DEF Inv, Building
<1> QED
    BY <1>1, <1>2, <1>3, <1>4, <1>5, StartableStays DEF Inv, Building

(* A process that dies of its script is one that cannot start. *)
LEMMA DieStep ==
    ASSUME Inv, Die, ~Startable
    PROVE  Inv'
<1>1. /\ UNCHANGED <<script, todo, sources, providers, handled, registered>> /\ phase' = "dead"
    BY DEF Die
<1>2. Startable' = Startable
    BY <1>1 DEF Startable, Parses, IsTable, Alone, Clash
<1> QED
    BY <1>1, <1>2 DEF Inv, StartTypeOK, Phases, Building

LEMMA ParseStep == ASSUME Inv, Parse PROVE Inv'
<1>1. /\ phase = "parse" /\ phase' = "sources" /\ Parses
      /\ todo' = DOMAIN script.sources
      /\ UNCHANGED <<script, sources, providers, handled, registered>>
    BY DEF Parse
<1>2. Parses' /\ NothingBuilt'
    BY <1>1 DEF Parses, IsTable, Inv, Building, NothingBuilt
<1>3. SourcesSoFar(DOMAIN script.sources \ todo)'
    <2>1. (DOMAIN script.sources \ todo)' = {} /\ sources' = <<>>
        BY <1>1 DEF Inv, Building
    <2> QED
        BY <2>1, EmptyList DEF SourcesSoFar, ListOf, Exactly, Range
<1>4. StartTypeOK'
    BY <1>1, ScriptTypes DEF Inv, StartTypeOK, Phases
<1> QED
    BY <1>1, <1>2, <1>3, <1>4 DEF Inv, Building

LEMMA ParsePanicsStep == ASSUME Inv, ParsePanics PROVE Inv'
<1>1. ~Startable
    BY DEF ParsePanics, Startable
<1> QED
    BY <1>1, DieStep DEF ParsePanics

(* Visiting one more source. *)
LEMMA SourceStep == ASSUME Inv, NEW n \in Name, Source(n) PROVE Inv'
<1> DEFINE before == DOMAIN script.sources \ todo
           known == Wellformed(script.sources, SourceKinds)
<1>1. /\ phase = "sources" /\ n \in todo /\ ~Fails(script.sources[n], {"vyos_ssh"})
      /\ todo' = todo \ {n}
      /\ sources' = IF Known(script.sources[n], SourceKinds) THEN Append(sources, n) ELSE sources
      /\ UNCHANGED <<script, phase, providers, handled, registered>>
    BY DEF Source
<1>2. /\ StartTypeOK /\ Parses /\ todo \subseteq DOMAIN script.sources
      /\ SourcesSoFar(before) /\ NothingBuilt
    BY <1>1 DEF Inv, Building
<1>3. /\ n \in DOMAIN script.sources /\ n \notin before
      /\ (DOMAIN script.sources \ todo)' = before \cup {n}
      /\ Sound(script.sources[n], {"vyos_ssh"})
    BY <1>1, <1>2, ScriptTypes, SoundOrFails
<1>4. ListOf(sources', (before \cup {n}) \cap known)
    <2>1. CASE Known(script.sources[n], SourceKinds)
        <3>1. (before \cup {n}) \cap known = (before \cap known) \cup {n}
            BY <1>3, <2>1 DEF Wellformed
        <3> QED
            BY <1>1, <1>2, <1>3, <2>1, <3>1, LongerList DEF SourcesSoFar
    <2>2. CASE ~Known(script.sources[n], SourceKinds)
        <3>1. (before \cup {n}) \cap known = before \cap known
            BY <1>3, <2>2 DEF Wellformed
        <3> QED
            BY <1>1, <1>2, <2>2, <3>1 DEF SourcesSoFar
    <2> QED
        BY <2>1, <2>2
<1>5. SourcesSoFar(DOMAIN script.sources \ todo)'
    <2>1. known' = known /\ script' = script
        BY <1>1 DEF Wellformed, Known
    <2> HIDE DEF known
    <2> QED
        BY <1>2, <1>3, <1>4, <2>1 DEF SourcesSoFar, ListOf, Exactly, Range, Sound, known
<1>6. StartTypeOK'
    BY <1>1, <1>2, <1>4 DEF StartTypeOK, ListOf
<1>7. Parses' /\ NothingBuilt'
    BY <1>1, <1>2 DEF Parses, IsTable, NothingBuilt
<1> QED
    BY <1>1, <1>2, <1>5, <1>6, <1>7 DEF Inv, Building

LEMMA SourceFailsStep == ASSUME Inv, NEW n \in Name, SourceFails(n) PROVE Inv'
<1>1. /\ n \in DOMAIN script.sources /\ Fails(script.sources[n], {"vyos_ssh"}) /\ Die
    BY DEF SourceFails, Inv, Building
<1>2. ~Startable
    BY <1>1, ScriptTypes, SoundOrFails, StartableMeans DEF Inv
<1> QED
    BY <1>1, <1>2, DieStep

(* All sources have been visited. *)
LEMMA SourcesDoneStep == ASSUME Inv, SourcesDone PROVE Inv'
<1>1. /\ phase = "sources" /\ todo = {} /\ phase' = "providers"
      /\ todo' = DOMAIN script.providers
      /\ UNCHANGED <<script, sources, providers, handled, registered>>
    BY DEF SourcesDone
<1>2. Parses' /\ NothingBuilt /\ SourcesSoFar(DOMAIN script.sources)
    <2>1. DOMAIN script.sources \ todo = DOMAIN script.sources
        BY <1>1
    <2> QED
        BY <1>1, <2>1 DEF Inv, Building, Parses, IsTable
<1>3. SourcesSoFar(DOMAIN script.sources)'
    BY <1>1, <1>2 DEF SourcesSoFar, ListOf, Exactly, Range, Sound, Wellformed, Known
<1>4. ProvidersSoFar(DOMAIN script.providers \ todo)'
    <2>1. /\ (DOMAIN script.providers \ todo)' = {} /\ providers' = <<>>
          /\ handled' = FALSE /\ registered' = {}
        BY <1>1, <1>2 DEF NothingBuilt
    <2> QED
        BY <2>1, EmptyList DEF ProvidersSoFar, ListOf, Exactly, Range
<1>5. StartTypeOK'
    BY <1>1, ScriptTypes DEF Inv, StartTypeOK, Phases
<1> QED
    BY <1>1, <1>2, <1>3, <1>4, <1>5 DEF Inv, Building

(* Visiting one more provider. *)
LEMMA ProviderVisited ==
    ASSUME Inv, NEW n \in Name, Provider(n)
    PROVE  ProvidersSoFar(DOMAIN script.providers \ todo)'
<1> DEFINE before == DOMAIN script.providers \ todo
           ps == script.providers
           known == Wellformed(script.providers, ProviderKinds)
<1>1. /\ phase = "providers" /\ n \in todo /\ n \in DOMAIN ps
      /\ ~Fails(ps[n], ConfiguredKinds) /\ ~CannotBuild(ps[n])
      /\ providers' = IF Known(ps[n], ProviderKinds) THEN Append(providers, n) ELSE providers
      /\ handled' = (handled \/ ps[n].kind = "http")
      /\ registered' = IF ps[n].kind = "prometheus_metrics"
                       THEN registered \cup {ps[n].metric} ELSE registered
      /\ script' = script
    BY DEF Provider, ConfiguredKinds, Inv, Building
<1>2. ProvidersSoFar(before) /\ n \notin before /\ before \subseteq DOMAIN ps
    BY <1>1 DEF Inv, Building
<1>3. /\ ps[n] \in Decl /\ Sound(ps[n], ConfiguredKinds)
    BY <1>1, ScriptTypes, SoundOrFails DEF Inv
<1>4. Alone(ps[n])
    BY <1>1 DEF CannotBuild, Alone
<1>5. \A m \in before : ~Clash(ps[m], ps[n]) /\ ~Clash(ps[n], ps[m])
    <2>1. CASE ps[n].kind = "http"
        <3>1. \A m \in before : ps[m].kind # "http"
            BY <1>1, <1>2, <2>1 DEF CannotBuild, ProvidersSoFar
        <3> QED
            BY <2>1, <3>1 DEF Clash
    <2>2. CASE ps[n].kind = "prometheus_metrics"
        <3>1. \A m \in before :
                ps[m].kind = "prometheus_metrics" => ps[m].metric # ps[n].metric
            BY <1>1, <1>2, <2>2 DEF CannotBuild, ProvidersSoFar
        <3> QED
            BY <2>2, <3>1 DEF Clash
    <2> QED
        BY <2>1, <2>2 DEF Clash
<1>6. ListOf(providers', (before \cup {n}) \cap known)
    <2>1. CASE Known(ps[n], ProviderKinds)
        <3>1. (before \cup {n}) \cap known = (before \cap known) \cup {n}
            BY <1>1, <2>1 DEF Wellformed
        <3> QED
            BY <1>1, <1>2, <2>1, <3>1, LongerList DEF ProvidersSoFar
    <2>2. CASE ~Known(ps[n], ProviderKinds)
        <3>1. (before \cup {n}) \cap known = before \cap known
            BY <1>2, <2>2 DEF Wellformed
        <3> QED
            BY <1>1, <1>2, <2>2, <3>1 DEF ProvidersSoFar
    <2> QED
        BY <2>1, <2>2
<1>7. handled' = (\E m \in before \cup {n} : ps[m].kind = "http")
    BY <1>1, <1>2 DEF ProvidersSoFar
<1>8. registered' = {ps[m].metric : m \in {k \in before \cup {n} : ps[k].kind = "prometheus_metrics"}}
    BY <1>1, <1>2 DEF ProvidersSoFar
<1>9. \A m \in before \cup {n} :
        Sound(ps[m], ConfiguredKinds) /\ Alone(ps[m])
    BY <1>2, <1>3, <1>4 DEF ProvidersSoFar
<1>10. \A k, m \in before \cup {n} : k # m => ~Clash(ps[k], ps[m])
    BY <1>2, <1>5 DEF ProvidersSoFar
<1>11. known' = known /\ (DOMAIN script.providers \ todo)' = before \cup {n}
    BY <1>1 DEF Provider, Wellformed, Known
<1> HIDE DEF before, known
<1>12. ListOf(providers, (DOMAIN script.providers \ todo) \cap known)'
    BY <1>6, <1>11 DEF ListOf, Exactly, Range
<1>13. \A m \in (DOMAIN script.providers \ todo)' :
        Sound(script.providers[m], ConfiguredKinds)'
        /\ Alone(script.providers[m])'
    BY <1>1, <1>9, <1>11 DEF Sound, Alone
<1>14. \A k, m \in (DOMAIN script.providers \ todo)' :
        k # m => ~Clash(script.providers[k], script.providers[m])'
    BY <1>1, <1>10, <1>11 DEF Clash
<1> QED
    BY <1>1, <1>7, <1>8, <1>11, <1>12, <1>13, <1>14 DEF ProvidersSoFar, known

LEMMA ProviderStep == ASSUME Inv, NEW n \in Name, Provider(n) PROVE Inv'
<1>1. /\ phase = "providers" /\ n \in todo /\ todo' = todo \ {n}
      /\ UNCHANGED <<script, phase, sources>>
    BY DEF Provider
<1>2. ProvidersSoFar(DOMAIN script.providers \ todo)'
    BY ProviderVisited
<1>3. Parses' /\ SourcesSoFar(DOMAIN script.sources)'
    BY <1>1, SourcesStay, StartableStays DEF Inv, Building
<1>4. StartTypeOK'
    <2>1. /\ providers' \in Seq(Name)
        BY <1>2 DEF ProvidersSoFar, ListOf
    <2>2. handled' \in BOOLEAN
        BY <1>2 DEF ProvidersSoFar
    <2>3. registered' \subseteq Metric
        <3>1. script.providers[n].metric \in Metric
            BY <1>1, ScriptTypes DEF Inv, Building, Decl
        <3> QED
            BY <3>1 DEF Provider, Inv, StartTypeOK
    <2> QED
        BY <1>1, <2>1, <2>2, <2>3 DEF Inv, StartTypeOK
<1> QED
    BY <1>1, <1>2, <1>3, <1>4 DEF Inv, Building

LEMMA ProviderFailsStep == ASSUME Inv, NEW n \in Name, ProviderFails(n) PROVE Inv'
<1> DEFINE ps == script.providers
           before == DOMAIN ps \ todo
<1>1. /\ phase = "providers" /\ n \in todo /\ n \in DOMAIN ps /\ Die
      /\ Fails(ps[n], ConfiguredKinds) \/ CannotBuild(ps[n])
    BY DEF ProviderFails, ConfiguredKinds, Inv, Building
<1>2. ps[n] \in Decl /\ ProvidersSoFar(before) /\ n \notin before
    BY <1>1, ScriptTypes DEF Inv, Building
<1>3. CASE Fails(ps[n], ConfiguredKinds)
    <2>1. ~Sound(ps[n], ConfiguredKinds)
        BY <1>2, <1>3, SoundOrFails
    <2> QED
        BY <1>1, <2>1, StartableMeans, DieStep
<1>4. CASE ~Alone(ps[n])
    BY <1>1, <1>4, StartableMeans, DieStep
<1>5. CASE CannotBuild(ps[n]) /\ Alone(ps[n])
    <2>1. \E m \in before : Clash(ps[m], ps[n])
        BY <1>2, <1>5 DEF CannotBuild, Alone, ProvidersSoFar, Clash
    <2>2. ~Startable
        BY <1>1, <1>2, <2>1, StartableMeans
    <2> QED
        BY <1>1, <2>2, DieStep
<1> QED
    BY <1>1, <1>3, <1>4, <1>5

LEMMA StartLoopStep == ASSUME Inv, StartLoop PROVE Inv'
<1>1. /\ phase = "providers" /\ todo = {} /\ phase' = "running"
      /\ UNCHANGED <<script, todo, sources, providers, handled, registered>>
    BY DEF StartLoop
<1>2. ProvidersSoFar(DOMAIN script.providers \ todo)'
    BY <1>1, ProvidersStay DEF Inv, Building
<1>3. Parses' /\ SourcesSoFar(DOMAIN script.sources)'
    BY <1>1, SourcesStay, StartableStays DEF Inv, Building
<1> QED
    BY <1>1, <1>2, <1>3 DEF Inv, StartTypeOK, Phases, Building

(* A panic of a filter leaves the process dead, but not up. *)
LEMMA RunStep == ASSUME Inv, Run PROVE Inv'
<1>1. /\ phase = "running" /\ phase' = IF up' THEN "running" ELSE "dead"
      /\ UNCHANGED <<script, todo, sources, providers, handled, registered>>
    BY DEF Run
<1>2. CASE up'
    BY <1>1, <1>2, Unchanged
<1>3. CASE ~up'
    BY <1>1, <1>3 DEF Inv, StartTypeOK, Phases, Building
<1> QED
    BY <1>2, <1>3

LEMMA RestartStep == ASSUME Inv, Restart PROVE Inv'
<1>1. /\ script' \in Scripts /\ phase' = "parse" /\ todo' = {}
      /\ sources' = <<>> /\ providers' = <<>> /\ handled' = FALSE /\ registered' = {}
    BY DEF Restart, Fresh
<1>2. sources' \in Seq(Name) /\ providers' \in Seq(Name)
    BY <1>1
<1>3. handled' \in BOOLEAN
    BY <1>1
<1>4. NothingBuilt'
    BY <1>1 DEF NothingBuilt
<1> QED
    BY <1>1, <1>2, <1>3, <1>4 DEF Inv, StartTypeOK, Phases, Building

-------------------------------------------------------------------------------
THEOREM Invariance == Spec => []Inv
<1>1. ASSUME Inv, [Next]_vars PROVE Inv'
    <2>1. CASE UNCHANGED vars
        BY <1>1, <2>1, Unchanged DEF vars, luaVars, startVars
    <2> QED
        BY <1>1, <2>1, ParseStep, ParsePanicsStep, SourceStep, SourceFailsStep, SourcesDoneStep,
            ProviderStep, ProviderFailsStep, StartLoopStep, RunStep, RestartStep DEF Next
<1> QED
    BY <1>1, InitInv, PTL DEF Spec

(* What start-up builds has its type, whatever the script.                 *)
THEOREM StartTypeCorrect == Spec => []StartTypeOK
BY Invariance, PTL DEF Inv

(* For every set of scripts: the order the declarations are visited in     *)
(* decides neither whether the process starts nor what it starts with.     *)
THEOREM StartIsDecided == Spec => []StartIsDecidedByTheScript
<1>1. Inv => StartIsDecidedByTheScript
    <2> SUFFICES ASSUME Inv PROVE StartIsDecidedByTheScript
        OBVIOUS
    <2>1. ASSUME phase = "running"
          PROVE  /\ Startable
                 /\ Exactly(sources, Wellformed(script.sources, SourceKinds))
                 /\ Exactly(providers, Wellformed(script.providers, ProviderKinds))
        <3>1. /\ Parses /\ SourcesSoFar(DOMAIN script.sources)
              /\ ProvidersSoFar(DOMAIN script.providers)
            <4>1. todo = {} /\ DOMAIN script.providers \ todo = DOMAIN script.providers
                BY <2>1 DEF Inv, Building
            <4> QED
                BY <2>1, <4>1 DEF Inv, Building
        <3>2. /\ DOMAIN script.sources \cap Wellformed(script.sources, SourceKinds)
                    = Wellformed(script.sources, SourceKinds)
              /\ DOMAIN script.providers \cap Wellformed(script.providers, ProviderKinds)
                    = Wellformed(script.providers, ProviderKinds)
            BY DEF Wellformed
        <3>3. Startable
            BY <3>1, StartableMeans DEF SourcesSoFar, ProvidersSoFar
        <3> QED
            BY <3>1, <3>2, <3>3 DEF SourcesSoFar, ProvidersSoFar, ListOf
    <2> QED
        BY <2>1 DEF Inv, Building, StartIsDecidedByTheScript
<1> QED
    BY <1>1, Invariance, PTL

-------------------------------------------------------------------------------
(* The calls of the loop.  What a call under way has kept is decided by    *)
(* the values its own coroutine has handed over: by the last one it is     *)
(* after, or for generate by the latest resumption.                        *)
Default(kind) == IF kind = "filter" THEN True ELSE Nothing

KeptIsDecided(c) ==
    IF c.kind = "generate"
    THEN /\ \A r \in DOMAIN c.seen : c.seen[r][1].type = "string"
         /\ c.seen # <<>> => c.kept = Last(c.seen)[1]
    ELSE c.kept = IF Decisive(c) = {} THEN Default(c.kind) ELSE LastFitting(c)

CallsInv ==
    /\ CallsTypeOK
    /\ \A k \in DOMAIN stack : KeptIsDecided(stack[k])
    /\ last.kind \notin Kinds => last.answer = "none"
    /\ AnswersAreOfThisCall

(* A set of naturals that is not empty has a least element. *)
LEMMA LeastNatural ==
    ASSUME NEW T, T \subseteq Nat, T # {}
    PROVE  \E k \in T : \A j \in T : k <= j
<1>1. PICK k \in T : \A j \in T : ~ (<<j, k>> \in OpToRel(<, Nat))
    BY NatLessThanWellFounded, WFMin
<1>2. \A j \in T : ~(j < k)
    BY <1>1 DEF OpToRel
<1> QED
    BY <1>2

(* A set of positions that is not empty has a last one. *)
LEMMA LastPosition ==
    ASSUME NEW n \in Nat, NEW S, S \subseteq 1..n, S # {}
    PROVE  Max(S) \in S /\ \A y \in S : Max(S) >= y
<1> DEFINE T == {k \in Nat : \E i \in S : i + k = n}
<1>1. T # {}
    <2>1. PICK i \in S : TRUE
        OBVIOUS
    <2>2. n - i \in Nat /\ i + (n - i) = n
        BY <2>1
    <2> QED
        BY <2>1, <2>2
<1>2. PICK k \in T : \A j \in T : k <= j
    BY <1>1, LeastNatural
<1>3. PICK i \in S : i + k = n
    OBVIOUS
<1>4. \A y \in S : i >= y
    <2> TAKE y \in S
    <2>1. n - y \in T
        <3>1. n - y \in Nat /\ y + (n - y) = n
            OBVIOUS
        <3> QED
            BY <3>1
    <2> QED
        BY <1>2, <1>3, <2>1
<1>5. \E x \in S : \A y \in S : x >= y
    BY <1>4
<1> QED
    BY <1>5 DEF Max

(* The last value of one resumption that a call is after is one of them. *)
LEMMA LastFitFits ==
    ASSUME NEW kind, NEW values \in Lists, Fits(kind, values) # {}
    PROVE  LastFit(kind, values) \in Value /\ LastFit(kind, values).type = Wanted(kind)
<1>1. values \in Seq(Value) /\ DOMAIN values = 1..Len(values) /\ Len(values) \in Nat
    BY ListsAssumption
<1>2. Fits(kind, values) \subseteq 1..Len(values)
    BY <1>1 DEF Fits
<1>3. Max(Fits(kind, values)) \in Fits(kind, values)
    BY <1>1, <1>2, LastPosition
<1>4. /\ Max(Fits(kind, values)) \in 1..Len(values)
      /\ values[Max(Fits(kind, values))].type = Wanted(kind)
    BY <1>2, <1>3 DEF Fits
<1> QED
    BY <1>1, <1>4 DEF LastFit

(* The last decisive resumption of a call is one of its resumptions. *)
LEMMA LastDecisive ==
    ASSUME NEW c, c.seen \in Seq(Lists), Decisive(c) # {}
    PROVE  /\ Max(Decisive(c)) \in DOMAIN c.seen /\ Max(Decisive(c)) \in Decisive(c)
           /\ \A r \in Decisive(c) : Max(Decisive(c)) >= r
           /\ LastFitting(c) \in Value /\ LastFitting(c).type = Wanted(c.kind)
<1>1. DOMAIN c.seen = 1..Len(c.seen) /\ Len(c.seen) \in Nat
    OBVIOUS
<1>2. Decisive(c) \subseteq 1..Len(c.seen)
    BY <1>1 DEF Decisive
<1>3. Max(Decisive(c)) \in Decisive(c) /\ \A r \in Decisive(c) : Max(Decisive(c)) >= r
    BY <1>1, <1>2, LastPosition
<1>4. Max(Decisive(c)) \in DOMAIN c.seen /\ Fits(c.kind, c.seen[Max(Decisive(c))]) # {}
    BY <1>3 DEF Decisive
<1>5. c.seen[Max(Decisive(c))] \in Lists
    BY <1>1, <1>4
<1> QED
    BY <1>3, <1>4, <1>5, LastFitFits DEF LastFitting

(* The first value of a list. *)
LEMMA FirstValue == ASSUME NEW values \in Lists PROVE values[1] \in Value
<1>1. values \in Seq(Value) /\ values # <<>>
    BY ListsAssumption
<1> QED
    BY <1>1

(* One more resumption keeps a call what it is. *)
LEMMA ResumedType ==
    ASSUME NEW c \in Called, NEW values \in Lists
    PROVE  Resumed(c, values) \in Called
<1>1. Append(c.seen, values) \in Seq(Lists)
    BY DEF Called
<1>2. Keep(c, values) \in Value
    <2>1. c.kept \in Value
        BY DEF Called
    <2> QED
        BY <2>1, FirstValue, LastFitFits DEF Keep
<1> QED
    BY <1>1, <1>2 DEF Resumed, Called

(* One more resumption, and what is kept is decided still: the resumption  *)
(* is the last, and so decides when it hands over a value the call is      *)
(* after.                                                                  *)
LEMMA ResumedIsDecided ==
    ASSUME NEW c \in Called, KeptIsDecided(c), NEW values \in Lists, Usable(c, values)
    PROVE  KeptIsDecided(Resumed(c, values))
<1> DEFINE d == Resumed(c, values)
           n == Len(c.seen)
<1>1. /\ c.seen \in Seq(Lists) /\ n \in Nat /\ DOMAIN c.seen = 1..n
      /\ d.kind = c.kind /\ d.seen = Append(c.seen, values) /\ d.kept = Keep(c, values)
    BY DEF Called, Resumed
<1>2. /\ d.seen \in Seq(Lists) /\ DOMAIN d.seen = 1..n + 1 /\ Len(d.seen) = n + 1
      /\ \A r \in 1..n : d.seen[r] = c.seen[r]
      /\ d.seen[n + 1] = values
    BY <1>1
<1>3. \A r \in 1..n + 1 : r \in 1..n \/ r = n + 1
    BY <1>1
<1> HIDE DEF d, n
<1>4. CASE c.kind = "generate"
    <2>1. \A r \in 1..n : c.seen[r][1].type = "string"
        BY <1>1, <1>4 DEF KeptIsDecided
    <2>2. values[1].type = "string" /\ d.kept = values[1] /\ Last(d.seen) = values
        BY <1>1, <1>2, <1>4 DEF Usable, Keep, Last
    <2>3. \A r \in DOMAIN d.seen : d.seen[r][1].type = "string"
        BY <1>2, <1>3, <2>1, <2>2
    <2>4. KeptIsDecided(d)
        BY <1>1, <1>4, <2>2, <2>3 DEF KeptIsDecided
    <2> QED
        BY <2>4 DEF d
<1>5. CASE c.kind # "generate" /\ Fits(c.kind, values) = {}
    <2>1. d.kept = c.kept
        BY <1>1, <1>5 DEF Keep
    <2>2. Decisive(d) = Decisive(c)
        BY <1>1, <1>2, <1>3, <1>5 DEF Decisive
    <2>3. Decisive(c) # {} => LastFitting(d) = LastFitting(c)
        BY <1>1, <1>2, <2>2, LastDecisive DEF LastFitting
    <2>4. KeptIsDecided(d)
        BY <1>1, <1>5, <2>1, <2>2, <2>3 DEF KeptIsDecided
    <2> QED
        BY <2>4 DEF d
<1>6. CASE c.kind # "generate" /\ Fits(c.kind, values) # {}
    <2>1. d.kept = LastFit(c.kind, values)
        BY <1>1, <1>6 DEF Keep
    <2>2. n + 1 \in Decisive(d)
        BY <1>1, <1>2, <1>6 DEF Decisive
    <2>3. Max(Decisive(d)) \in 1..n + 1 /\ Max(Decisive(d)) >= n + 1
        BY <1>2, <2>2, LastDecisive
    <2>4. Max(Decisive(d)) = n + 1
        BY <1>1, <2>3
    <2>5. LastFitting(d) = LastFit(c.kind, values)
        BY <1>1, <1>2, <2>4 DEF LastFitting
    <2>6. KeptIsDecided(d)
        BY <1>1, <1>6, <2>1, <2>2, <2>5 DEF KeptIsDecided
    <2> QED
        BY <2>6 DEF d
<1> QED
    BY <1>4, <1>5, <1>6

(* A call that begins has kept nothing but its default. *)
LEMMA NewCallIsDecided ==
    ASSUME NEW kind \in Kinds
    PROVE  NewCall(kind) \in Called /\ KeptIsDecided(NewCall(kind))
<1>1. <<>> \in Seq(Lists) /\ DOMAIN <<>> = {}
    OBVIOUS
<1>2. True \in Value /\ Nothing \in Value
    BY DEF True, Nothing, Value
<1>3. Decisive(NewCall(kind)) = {}
    BY <1>1 DEF NewCall, Decisive
<1> QED
    BY <1>1, <1>2, <1>3 DEF NewCall, Called, KeptIsDecided, Default

(* The value of each type. *)
LEMMA ValuesOfType ==
    ASSUME NEW v \in Value
    PROVE  /\ v.type = "boolean" => v.val \in {"true", "false"}
           /\ v.type = "table" => v.val \in Tables /\ v # Nothing
           /\ v.type = "string" => v.val \in Strings
BY DEF Value, Nothing


(* A call that runs to its end answers what its values decide. *)
LEMMA AnswerIsDecided ==
    ASSUME NEW c \in Called, KeptIsDecided(c), c.seen # <<>>
    PROVE  Answer(c) \in Answers /\ Answer(c) = Decided(Ended(c, Answer(c)))
<1> DEFINE e == Ended(c, Answer(c))
<1>1. e.kind = c.kind /\ e.seen = c.seen /\ c.kind \in Kinds /\ c.kept \in Value
    BY DEF Ended, Called
<1>2. c.seen \in Seq(Lists) /\ Last(c.seen) \in Lists
    BY DEF Called, Last
<1>3. Decisive(e) = Decisive(c) /\ LastFitting(e) = LastFitting(c)
    BY <1>1 DEF Decisive, LastFitting
<1>4. c.kind # "generate" /\ Decisive(c) # {} =>
        LastFitting(c) \in Value /\ LastFitting(c).type = Wanted(c.kind)
    BY <1>2, LastDecisive
<1> HIDE DEF e
<1>5. CASE c.kind = "filter"
    <2>1. c.kept = IF Decisive(c) = {} THEN True ELSE LastFitting(c)
        BY <1>5 DEF KeptIsDecided, Default
    <2>2. c.kept.val \in {"true", "false"}
        BY <1>4, <1>5, <2>1, ValuesOfType DEF True, Wanted
    <2>3. Answer(c) = c.kept.val
        BY <1>5 DEF Answer
    <2>4. Decided(e) = c.kept.val
        BY <1>1, <1>3, <1>5, <2>1 DEF Decided, True
    <2> QED
        BY <2>2, <2>3, <2>4 DEF Answers, e
<1>6. CASE c.kind = "source"
    <2>1. c.kept = IF Decisive(c) = {} THEN Nothing ELSE LastFitting(c)
        BY <1>6 DEF KeptIsDecided, Default
    <2>2. Decisive(c) # {} => c.kept # Nothing /\ c.kept.val \in Tables
        BY <1>4, <1>6, <2>1, ValuesOfType DEF Wanted
    <2>3. Answer(c) = IF c.kept = Nothing \/ c.kept.val \in Malformed THEN "error" ELSE c.kept.val
        BY <1>6 DEF Answer
    <2>4. Decided(e) = IF Decisive(c) = {} \/ LastFitting(c).val \in Malformed
                       THEN "error" ELSE LastFitting(c).val
        BY <1>1, <1>3, <1>6 DEF Decided
    <2> QED
        BY <2>1, <2>2, <2>3, <2>4 DEF Answers, e
<1>7. CASE c.kind = "generate"
    <2>1. /\ \A r \in DOMAIN c.seen : c.seen[r][1].type = "string"
          /\ c.kept = Last(c.seen)[1] /\ c.kept.type = "string"
        <3>1. Len(c.seen) \in DOMAIN c.seen
            BY <1>2
        <3> QED
            BY <1>7, <3>1 DEF KeptIsDecided, Last
    <2>2. c.kept.val \in Strings
        BY <1>1, <2>1, ValuesOfType
    <2>3. Answer(c) = c.kept.val
        BY <1>7 DEF Answer
    <2>4. Decided(e) = Last(c.seen)[1].val
        BY <1>1, <1>7, <2>1 DEF Decided
    <2> QED
        BY <2>1, <2>2, <2>3, <2>4 DEF Answers, e
<1>8. CASE c.kind = "provider"
    BY <1>1, <1>8 DEF Answer, Answers, Decided, e
<1> QED
    BY <1>1, <1>5, <1>6, <1>7, <1>8 DEF Kinds

-------------------------------------------------------------------------------
(* The stack without its last call, and with one more call. *)
LEMMA Popped ==
    ASSUME NEW S, NEW s \in Seq(S), s # <<>>
    PROVE  /\ Front(s) \in Seq(S) /\ Len(Front(s)) = Len(s) - 1
           /\ \A k \in 1..Len(s) - 1 : Front(s)[k] = s[k]
           /\ Last(s) \in S
<1>1. Len(s) \in Nat /\ Len(s) # 0
    OBVIOUS
<1>2. Len(s) - 1 \in Nat /\ \A k \in 1..Len(s) - 1 : k \in 1..Len(s)
    BY <1>1
<1>3. Front(s) = [k \in 1..Len(s) - 1 |-> s[k]]
    <2> DEFINE m == Len(s) - 1
    <2>1. SubSeq(s, 1, m) = [k \in 1..m |-> s[k]]
        <3> HIDE DEF m
        <3>1. m \in Nat
            BY <1>2 DEF m
        <3>2. m <= Len(s)
            BY <1>1 DEF m
        <3> QED
            BY <3>1, <3>2, <1>1
    <2> QED
        BY <2>1 DEF Front
<1>4. Front(s) \in Seq(S) /\ Len(Front(s)) = Len(s) - 1
    BY <1>2, <1>3
<1>5. Last(s) \in S
    BY <1>1 DEF Last
<1> QED
    BY <1>1, <1>3, <1>4, <1>5

(* What a step that takes the innermost call away leaves. *)
LEMMA PopStep ==
    ASSUME CallsInv, Running, stack' = Front(stack), up' = up,
           last'.kind \in Kinds, last'.answer \in Answers,
           last'.answer \in {"raised", "panic"} \/ last'.answer = Decided(last')
    PROVE  CallsInv'
<1>1. stack \in Seq(Called) /\ stack # <<>> /\ Len(stack) \in Nat /\ Len(stack) <= 2
    BY DEF Running, CallsInv, CallsTypeOK
<1>2. /\ stack' \in Seq(Called) /\ Len(stack') = Len(stack) - 1
      /\ \A k \in 1..Len(stack) - 1 : stack'[k] = stack[k]
    BY <1>1, Popped
<1>3. CallsTypeOK'
    BY <1>1, <1>2 DEF CallsInv, CallsTypeOK
<1>4. \A k \in DOMAIN stack' : KeptIsDecided(stack'[k])
    <2>1. \A k \in DOMAIN stack' : k \in DOMAIN stack /\ stack'[k] = stack[k]
        BY <1>1, <1>2
    <2> QED
        BY <2>1 DEF CallsInv
<1>5. AnswersAreOfThisCall'
    BY DEF AnswersAreOfThisCall
<1> QED
    BY <1>3, <1>4, <1>5 DEF CallsInv

(* What a step that puts a call on top, of one that is there or of a new   *)
(* one, leaves.                                                            *)
LEMMA PushStep ==
    ASSUME CallsInv, NEW below \in Seq(Called), NEW c \in Called, KeptIsDecided(c),
           Len(below) \in {0, 1}, Len(below) = 1 => below[1].kind = "provider" /\ c.kind = "filter",
           \A k \in DOMAIN below : KeptIsDecided(below[k]),
           stack' = Append(below, c), last' = NoCall, up' = up
    PROVE  CallsInv'
<1>1. /\ stack' \in Seq(Called) /\ Len(stack') = Len(below) + 1 /\ Len(below) \in Nat
      /\ \A k \in 1..Len(below) : stack'[k] = below[k]
      /\ stack'[Len(below) + 1] = c
    OBVIOUS
<1>2. last'.kind = "none" /\ last'.answer = "none" /\ "none" \notin Kinds
    BY DEF NoCall, Ended, Kinds
<1>3. CallsTypeOK'
    <2>1. Len(stack') <= 2
        BY <1>1
    <2>2. ASSUME Len(stack') = 2 PROVE stack'[1].kind = "provider" /\ stack'[2].kind = "filter"
        <3>1. Len(below) = 1
            <4>1. Len(below) = 0 => Len(stack') = 1
                BY <1>1
            <4> QED
                BY <2>2, <4>1
        <3>2. stack'[1] = below[1]
            BY <1>1, <3>1
        <3>3. stack'[2] = c
            BY <1>1, <3>1
        <3> QED
            BY <3>1, <3>2, <3>3
    <2> QED
        BY <1>1, <1>2, <2>1, <2>2 DEF CallsInv, CallsTypeOK
<1>4. \A k \in DOMAIN stack' : KeptIsDecided(stack'[k])
    <2>1. \A k \in DOMAIN stack' : k \in DOMAIN below \/ k = Len(below) + 1
        BY <1>1
    <2>2. \A k \in DOMAIN below : stack'[k] = below[k]
        BY <1>1
    <2> QED
        BY <1>1, <2>1, <2>2
<1> QED
    BY <1>2, <1>3, <1>4 DEF CallsInv, AnswersAreOfThisCall


(* The innermost call of a stack, and the calls below it. *)
LEMMA TopCall ==
    ASSUME CallsInv, Running
    PROVE  /\ stack \in Seq(Called) /\ stack # <<>> /\ Len(stack) \in {1, 2}
           /\ Top = stack[Len(stack)] /\ Top \in Called /\ KeptIsDecided(Top)
<1>1. stack \in Seq(Called) /\ stack # <<>> /\ Len(stack) <= 2
    BY DEF CallsInv, CallsTypeOK, Running
<1>2. Len(stack) \in {1, 2} /\ Len(stack) \in DOMAIN stack
    <2>1. Len(stack) \in Nat /\ Len(stack) # 0
        BY <1>1
    <2>2. \A n \in Nat : n <= 2 /\ n # 0 => n = 1 \/ n = 2
        OBVIOUS
    <2>3. Len(stack) = 1 \/ Len(stack) = 2
        BY <1>1, <2>1, <2>2
    <2> QED
        BY <1>1, <2>3
<1>3. Top = stack[Len(stack)]
    BY DEF Top, Last
<1> QED
    BY <1>1, <1>2, <1>3 DEF CallsInv

LEMMA CallStep == ASSUME CallsInv, NEW kind \in Kinds, Call(kind) PROVE CallsInv'
<1>1. stack' = Append(<<>>, NewCall(kind)) /\ last' = NoCall /\ up' = up
    BY DEF Call
<1> DEFINE below == <<>>
<1>2. below \in Seq(Called) /\ Len(below) = 0 /\ DOMAIN below = {}
    OBVIOUS
<1>3. stack' = Append(below, NewCall(kind))
    BY <1>1
<1> HIDE DEF below
<1>4. Len(below) \in {0, 1} /\ ~(Len(below) = 1)
    BY <1>2
<1> QED
    BY <1>1, <1>2, <1>3, <1>4, NewCallIsDecided, PushStep

LEMMA CallFilterStep == ASSUME CallsInv, CallFilter PROVE CallsInv'
<1>1. /\ stack' = Append(stack, NewCall("filter")) /\ last' = NoCall /\ up' = up
      /\ Len(stack) = 1 /\ stack[1].kind = "provider"
    BY DEF CallFilter, Top, Last
<1>2. stack \in Seq(Called) /\ \A k \in DOMAIN stack : KeptIsDecided(stack[k])
    BY DEF CallsInv, CallsTypeOK
<1>3. NewCall("filter") \in Called /\ KeptIsDecided(NewCall("filter"))
    BY NewCallIsDecided DEF Kinds
<1>4. NewCall("filter").kind = "filter"
    BY DEF NewCall
<1> QED
    BY <1>1, <1>2, <1>3, <1>4, PushStep

LEMMA YieldStep == ASSUME CallsInv, NEW values \in Lists, Yield(values) PROVE CallsInv'
<1> DEFINE below == Front(stack)
           c == Resumed(Top, values)
<1>1. /\ Running /\ Usable(Top, values)
      /\ stack' = Append(below, c) /\ last' = NoCall /\ up' = up
    BY DEF Yield
<1>2. /\ stack \in Seq(Called) /\ stack # <<>> /\ Len(stack) \in {1, 2}
      /\ Top = stack[Len(stack)] /\ Top \in Called /\ KeptIsDecided(Top)
    BY <1>1, TopCall
<1>3. c \in Called /\ KeptIsDecided(c) /\ c.kind = Top.kind
    BY <1>1, <1>2, ResumedType, ResumedIsDecided DEF Resumed
<1>4. /\ below \in Seq(Called) /\ Len(below) = Len(stack) - 1
      /\ \A k \in 1..Len(stack) - 1 : below[k] = stack[k]
    BY <1>2, Popped
<1> HIDE DEF below, c
<1>5. Len(below) \in {0, 1} /\ (Len(below) = 1 => Len(stack) = 2)
    BY <1>2, <1>4
<1>6. ASSUME Len(below) = 1 PROVE below[1].kind = "provider" /\ c.kind = "filter"
    <2>1. Len(stack) = 2 /\ below[1] = stack[1] /\ Top = stack[2]
        BY <1>2, <1>4, <1>5, <1>6
    <2> QED
        BY <1>3, <2>1 DEF CallsInv, CallsTypeOK
<1>7. \A k \in DOMAIN below : KeptIsDecided(below[k])
    <2>1. \A k \in DOMAIN below : k \in DOMAIN stack /\ below[k] = stack[k]
        BY <1>2, <1>4
    <2> QED
        BY <2>1 DEF CallsInv
<1> QED
    BY <1>1, <1>3, <1>4, <1>5, <1>6, <1>7, PushStep

LEMMA ReturnStep == ASSUME CallsInv, NEW values \in Lists, Return(values) PROVE CallsInv'
<1> DEFINE c == Resumed(Top, values)
<1>1. /\ Running /\ Usable(Top, values)
      /\ stack' = Front(stack) /\ last' = Ended(c, Answer(c)) /\ up' = up
    BY DEF Return
<1>2. c \in Called /\ KeptIsDecided(c)
    BY <1>1, TopCall, ResumedType, ResumedIsDecided
<1>3. c.seen # <<>>
    <2>1. Top.seen \in Seq(Lists)
        BY <1>1, TopCall DEF Called
    <2> QED
        BY <2>1 DEF Resumed
<1> HIDE DEF c
<1>4. Answer(c) \in Answers /\ Answer(c) = Decided(Ended(c, Answer(c)))
    BY <1>2, <1>3, AnswerIsDecided
<1>5. last'.kind = c.kind /\ last'.answer = Answer(c) /\ c.kind \in Kinds
    BY <1>1, <1>2 DEF Ended, Called
<1>6. Decided(last') = Decided(Ended(c, Answer(c)))
    BY <1>1
<1> QED
    BY <1>1, <1>4, <1>5, <1>6, PopStep

(* generate meets a value that is no string: the resumption it met it in   *)
(* is the last.                                                            *)
LEMMA WrongTypeStep == ASSUME CallsInv, NEW values \in Lists, WrongType(values) PROVE CallsInv'
<1> DEFINE c == Resumed(Top, values)
<1>1. /\ Running /\ ~Usable(Top, values)
      /\ stack' = Front(stack) /\ last' = Ended(c, "error") /\ up' = up
    BY DEF WrongType
<1>2. Top \in Called /\ Top.seen \in Seq(Lists)
    BY <1>1, TopCall DEF Called
<1>3. /\ c.kind = "generate" /\ c.seen = Append(Top.seen, values)
      /\ values[1].type # "string"
    BY <1>1 DEF Usable, Resumed
<1>4. \E k \in DOMAIN c.seen : c.seen[k][1].type # "string"
    <2>1. Len(Top.seen) + 1 \in DOMAIN c.seen /\ c.seen[Len(Top.seen) + 1] = values
        BY <1>2, <1>3
    <2> QED
        BY <1>3, <2>1
<1> HIDE DEF c
<1>5. last'.kind = "generate" /\ last'.answer = "error" /\ last'.seen = c.seen
    BY <1>1, <1>3 DEF Ended
<1>6. Decided(last') = "error"
    BY <1>4, <1>5 DEF Decided
<1> QED
    BY <1>1, <1>5, <1>6, PopStep DEF Kinds, Answers

LEMMA RuntimeErrorStep == ASSUME CallsInv, RuntimeError PROVE CallsInv'
<1>1. Running /\ stack' = Front(stack) /\ last' = Ended(Top, "raised") /\ up' = up
    BY DEF RuntimeError
<1>2. last'.kind \in Kinds /\ last'.answer = "raised"
    BY <1>1, TopCall DEF Ended, Called
<1> QED
    BY <1>1, <1>2, PopStep DEF Answers

LEMMA FilterPanicsStep == ASSUME CallsInv, FilterPanics PROVE CallsInv'
<1>1. Running /\ last' = Ended(Top, "panic")
    BY DEF FilterPanics
<1>2. last'.kind \in Kinds /\ last'.answer = "panic"
    BY <1>1, TopCall DEF Ended, Called
<1>3. CASE up' = FALSE /\ stack' = <<>>
    <2>1. stack' \in Seq(Called) /\ Len(stack') = 0 /\ DOMAIN stack' = {}
        BY <1>3
    <2>2. Len(stack') <= 2 /\ Len(stack') # 2
        BY <2>1
    <2>3. CallsTypeOK'
        BY <1>2, <1>3, <2>1, <2>2 DEF CallsTypeOK, Answers
    <2> QED
        BY <1>2, <2>1, <2>3 DEF CallsInv, AnswersAreOfThisCall
<1>4. CASE up' = up /\ stack' = Front(stack)
    BY <1>1, <1>2, <1>4, PopStep DEF Answers
<1> QED
    BY <1>3, <1>4 DEF FilterPanics

(* No call under way, and none that has just ended. *)
LEMMA NoCalls == ASSUME up = TRUE, stack = <<>>, last = NoCall PROVE CallsInv
<1>1. stack \in Seq(Called) /\ Len(stack) = 0 /\ DOMAIN stack = {}
    OBVIOUS
<1>2. last.kind = "none" /\ last.answer = "none" /\ "none" \notin Kinds
    BY DEF NoCall, Ended, Kinds
<1> QED
    BY <1>1, <1>2 DEF CallsInv, CallsTypeOK, AnswersAreOfThisCall

(* Start-up makes no call; the loop makes those of the script; a process   *)
(* that starts again has forgotten them.                                   *)
LEMMA CallsStep == CallsInv /\ [Next]_vars => CallsInv'
<1> SUFFICES ASSUME CallsInv, [Next]_vars PROVE CallsInv'
    OBVIOUS
<1>1. CASE UNCHANGED luaVars
    BY <1>1 DEF luaVars, CallsInv, CallsTypeOK, AnswersAreOfThisCall
<1>2. CASE Run
    <2>1. Callable \subseteq Kinds
        BY DEF Callable, Kinds
    <2> QED
        BY <1>2, <2>1, CallStep, CallFilterStep, YieldStep, ReturnStep, WrongTypeStep,
            RuntimeErrorStep, FilterPanicsStep DEF Run, Step
<1>3. CASE Restart
    <2>1. up' = TRUE /\ stack' = <<>> /\ last' = NoCall
        BY <1>3 DEF Restart
    <2>2. stack' \in Seq(Called) /\ Len(stack') = 0 /\ DOMAIN stack' = {}
        BY <2>1
    <2>3. last'.kind = "none" /\ last'.answer = "none" /\ "none" \notin Kinds
        BY <2>1 DEF NoCall, Ended, Kinds
    <2> QED
        BY <2>1, <2>2, <2>3 DEF CallsInv, CallsTypeOK, AnswersAreOfThisCall
<1> QED
    BY <1>1, <1>2, <1>3 DEF Next, vars, Parse, ParsePanics, Die, Source, SourceFails,
        SourcesDone, Provider, ProviderFails, StartLoop

THEOREM CallsInvariance == Spec => []CallsInv
<1>1. Init => CallsInv
    BY NoCalls DEF Init, InitCalls
<1> QED
    BY <1>1, CallsStep, PTL DEF Spec

(* Every variable of start-up and of the calls keeps its type, whatever    *)
(* the functions of the script hand over; a filter only ever runs in a     *)
(* custom provider.                                                        *)
THEOREM TypeCorrect == Spec => []TypeOK
<1>1. CallsInv /\ StartTypeOK => TypeOK
    BY DEF CallsInv, TypeOK
<1> QED
    BY <1>1, CallsInvariance, StartTypeCorrect, PTL

(* For every bound on resumptions and whatever the functions hand over: a  *)
(* call's answer is decided by the values of its own coroutine.            *)
THEOREM AnswersAreOfThisCallHolds == Spec => []AnswersAreOfThisCall
<1>1. CallsInv => AnswersAreOfThisCall
    BY DEF CallsInv
<1> QED
    BY <1>1, CallsInvariance, PTL
===============================================================================
