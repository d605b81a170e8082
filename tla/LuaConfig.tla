------------------------------ MODULE LuaConfig -------------------------------
(***************************************************************************)
(* Start-up: config/config.go runs the Lua script and turns the            *)
(* declarations it returns into sources and providers, and main.go starts  *)
(* the control loop on them or panics.  Declarations are kept in Go maps,  *)
(* which are ranged over in a different order every time.                  *)
(*                                                                         *)
(* Once the loop runs it calls the functions of the script (LuaCalls); a   *)
(* filter that raises an error ends the process.  A process that ended is  *)
(* started again by its supervisor, and the script may be edited meanwhile.*)
(***************************************************************************)
EXTENDS LuaCalls, FiniteSets

CONSTANTS
    Name,     \* names of declarations
    Metric,   \* namespace and subsystem of prometheus_metrics providers
    Unregistrable,  \* those with a name, or with labels, that no registry takes
    Scripts   \* scripts to consider

SourceKinds == {"custom", "vyos_ssh"}
ProviderKinds == {"aws_route53", "custom", "file", "hosts_file", "http", "prometheus_metrics"}

(* A declaration: it is a table; its kind; its config is a table that can  *)
(* be mapped, a table that cannot, or no table; a custom one's function is *)
(* there.                                                                  *)
Decl == [table : BOOLEAN, kind : SourceKinds \cup ProviderKinds \cup {"other"},
         config : {"ok", "unmappable", "missing"}, function : BOOLEAN, metric : Metric]

(* A script: it runs, it returns a table, that table's sources and         *)
(* providers are tables or not there; AWS credentials can be loaded.       *)
Script(s) ==
    /\ s.runs \in BOOLEAN /\ s.table \in BOOLEAN /\ s.lists \in BOOLEAN /\ s.aws \in BOOLEAN
    /\ \A decls \in {s.sources, s.providers} :
        DOMAIN decls \subseteq Name /\ \A n \in DOMAIN decls : decls[n] \in Decl

ASSUME MetricsAssumption == Unregistrable \subseteq Metric
ASSUME ScriptsAssumption == \A s \in Scripts : Script(s)

VARIABLES
    script,     \* the configuration file
    phase,      \* how far the process has come
    todo,       \* declarations the current range has not visited
    sources, providers,  \* what Sources() and Providers() have built so far, in order
    handled,    \* http.HandleFunc has registered the endpoints' paths
    registered  \* metrics registered with prometheus

startVars == <<script, phase, todo, sources, providers, handled, registered>>
vars == <<luaVars, startVars>>

Fresh ==
    /\ todo' = {}
    /\ sources' = <<>>
    /\ providers' = <<>>
    /\ handled' = FALSE
    /\ registered' = {}

-------------------------------------------------------------------------------
Init ==
    /\ InitCalls
    /\ script \in Scripts
    /\ phase = "parse"
    /\ todo = {}
    /\ sources = <<>>
    /\ providers = <<>>
    /\ handled = FALSE
    /\ registered = {}

(* A panic of main, or of the configuration itself. *)
Die ==
    /\ phase' = "dead"
    /\ UNCHANGED <<luaVars, script, todo, sources, providers, handled, registered>>

IsTable(decls) == \A n \in DOMAIN decls : decls[n].table
Parses ==
    /\ script.runs /\ script.table /\ script.lists
    /\ IsTable(script.sources) /\ IsTable(script.providers)

Parse ==
    /\ phase = "parse"
    /\ Parses
    /\ phase' = "sources"
    /\ todo' = DOMAIN script.sources
    /\ UNCHANGED <<luaVars, script, sources, providers, handled, registered>>

ParsePanics ==
    /\ phase = "parse"
    /\ ~Parses
    /\ Die

(* Custom declarations and unknown kinds are never mapped. *)
Fails(d, mapped) == d.config = "missing" \/ (d.kind \in mapped /\ d.config = "unmappable")

(* A declaration of another kind, and a custom one without its function,   *)
(* is passed over without an error.                                        *)
Known(d, kinds) == d.kind \in kinds /\ (d.kind = "custom" => d.function)

Source(n) ==
    LET d == script.sources[n] IN
    /\ phase = "sources"
    /\ n \in todo
    /\ ~Fails(d, {"vyos_ssh"})
    /\ todo' = todo \ {n}
    /\ sources' = IF Known(d, SourceKinds) THEN Append(sources, n) ELSE sources
    /\ UNCHANGED <<luaVars, script, phase, providers, handled, registered>>

SourceFails(n) ==
    /\ phase = "sources"
    /\ n \in todo
    /\ Fails(script.sources[n], {"vyos_ssh"})
    /\ Die

SourcesDone ==
    /\ phase = "sources"
    /\ todo = {}
    /\ phase' = "providers"
    /\ todo' = DOMAIN script.providers
    /\ UNCHANGED <<luaVars, script, sources, providers, handled, registered>>

(* A constructor that cannot: the AWS configuration cannot be loaded, a    *)
(* path of the default mux is taken (a panic), a metric of this name is    *)
(* registered, or cannot be: its name or a label is invalid or there twice.*)
CannotBuild(d) ==
    CASE d.kind = "aws_route53" -> ~script.aws
      [] d.kind = "http" -> handled
      [] d.kind = "prometheus_metrics" -> d.metric \in registered \cup Unregistrable
      [] OTHER -> FALSE

ProviderFails(n) ==
    LET d == script.providers[n] IN
    /\ phase = "providers"
    /\ n \in todo
    /\ Fails(d, ProviderKinds \ {"custom"}) \/ CannotBuild(d)
    /\ Die

SkipBroken(n) ==  \* mutant of Provider
    LET d == script.providers[n]
        built == Known(d, ProviderKinds) /\ ~Fails(d, ProviderKinds) /\ ~CannotBuild(d) IN
    /\ phase = "providers"
    /\ n \in todo
    /\ todo' = todo \ {n}
    /\ providers' = IF built THEN Append(providers, n) ELSE providers
    /\ handled' = (handled \/ d.kind = "http")
    /\ registered' =
        IF d.kind = "prometheus_metrics" THEN registered \cup {d.metric} ELSE registered
    /\ UNCHANGED <<luaVars, script, phase, sources>>

Provider(n) ==
    LET d == script.providers[n] IN
    /\ phase = "providers"
    /\ n \in todo
    /\ ~Fails(d, ProviderKinds \ {"custom"})
    /\ ~CannotBuild(d)
    /\ todo' = todo \ {n}
    /\ providers' = IF Known(d, ProviderKinds) THEN Append(providers, n) ELSE providers
    /\ handled' = (handled \/ d.kind = "http")
    /\ registered' =
        IF d.kind = "prometheus_metrics" THEN registered \cup {d.metric} ELSE registered
    /\ UNCHANGED <<luaVars, script, phase, sources>>

StartLoop ==
    /\ phase = "providers"
    /\ todo = {}
    /\ phase' = "running"
    /\ UNCHANGED <<luaVars, script, todo, sources, providers, handled, registered>>

-------------------------------------------------------------------------------
(* The functions a configuration gives the loop to call. *)
KindsOf(names, decls) == {decls[n].kind : n \in Range(names)}
Callable ==
    (IF providers = <<>> THEN {} ELSE {"filter"})
    \cup (IF "custom" \in KindsOf(sources, script.sources) THEN {"source"} ELSE {})
    \cup (IF "custom" \in KindsOf(providers, script.providers) THEN {"provider"} ELSE {})
    \cup (IF "file" \in KindsOf(providers, script.providers) THEN {"generate"} ELSE {})

(* The loop calls a function, or one that runs goes on; a panic of a       *)
(* filter ends the process.                                                *)
Run ==
    /\ phase = "running"
    /\ Step \/ \E kind \in Callable : Call(kind)
    /\ phase' = IF up' THEN "running" ELSE "dead"
    /\ UNCHANGED <<script, todo, sources, providers, handled, registered>>

(* The process is killed, or has ended, and is started again. *)
Restart ==
    /\ phase \in {"running", "dead"}
    /\ script' \in Scripts
    /\ phase' = "parse"
    /\ up' = TRUE
    /\ stack' = <<>>
    /\ last' = NoCall
    /\ Fresh

Next ==
    \/ Parse \/ ParsePanics
    \/ \E n \in Name : Source(n) \/ SourceFails(n)
    \/ SourcesDone
    \/ \E n \in Name : Provider(n) \/ ProviderFails(n)
    \/ StartLoop
    \/ Run
    \/ Restart

Spec == Init /\ [][Next]_vars

-------------------------------------------------------------------------------
Phases == {"parse", "sources", "providers", "running", "dead"}
StartTypeOK ==
    /\ script \in Scripts
    /\ phase \in Phases
    /\ todo \subseteq Name
    /\ sources \in Seq(Name) /\ providers \in Seq(Name)
    /\ handled \in BOOLEAN
    /\ registered \subseteq Metric

TypeOK == CallsTypeOK /\ StartTypeOK

(* A script whose every declaration can be built, alone and next to the    *)
(* others.                                                                 *)
Alone(d) ==
    /\ d.kind = "aws_route53" => script.aws
    /\ d.kind = "prometheus_metrics" => d.metric \notin Unregistrable
Clash(d, e) ==
    /\ d.kind = e.kind
    /\ \/ d.kind = "http"
       \/ d.kind = "prometheus_metrics" /\ d.metric = e.metric
Startable ==
    LET ps == script.providers
        Sound(d, kinds) == d.config # "missing" /\ (d.kind \in kinds => d.config = "ok")
    IN /\ Parses
       /\ \A n \in DOMAIN script.sources : Sound(script.sources[n], {"vyos_ssh"})
       /\ \A n \in DOMAIN ps :
            /\ Sound(ps[n], ProviderKinds \ {"custom"})
            /\ Alone(ps[n])
       /\ \A m, n \in DOMAIN ps : m # n => ~Clash(ps[m], ps[n])

Wellformed(decls, kinds) == {n \in DOMAIN decls : Known(decls[n], kinds)}
Exactly(s, names) == Len(s) = Cardinality(names) /\ Range(s) = names

(* Whether a process starts is decided by its script and never by the      *)
(* order a map was ranged over: a script that started once starts again,   *)
(* and one the loop refuses is refused every time.  A loop that runs has   *)
(* every declared source and provider of a known kind, once each, none     *)
(* left behind by an error half way.                                       *)
StartIsDecidedByTheScript ==
    /\ phase = "running" =>
        /\ Startable
        /\ Exactly(sources, Wellformed(script.sources, SourceKinds))
        /\ Exactly(providers, Wellformed(script.providers, ProviderKinds))
    /\ phase = "dead" /\ up => ~Startable
===============================================================================
