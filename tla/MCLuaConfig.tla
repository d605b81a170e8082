----------------------------- MODULE MCLuaConfig ------------------------------
EXTENDS LuaConfig, TLC

CONSTANTS t1, t2, bad, s1, s2, n1, n2, n3, m1, m2, badm

MCTables == {t1, t2, bad}
MCMalformed == {bad}
MCStrings == {s1, s2}

Bool(x) == [type |-> "boolean", val |-> x]
Table(x) == [type |-> "table", val |-> x]
Str(x) == [type |-> "string", val |-> x]

(* Lists of one value of every type, and of two where the second or the    *)
(* first decides.                                                          *)
MCLists ==
    {<<Nothing>>, <<Bool("true")>>, <<Bool("false")>>, <<Bool("true"), Bool("false")>>,
     <<Table(t1)>>, <<Table(t2), Table(bad)>>, <<Str(s1)>>, <<Str(s2), Table(t2)>>,
     <<Table(t1), Str(s1)>>}

MCName == {n1, n2, n3}
MCMetric == {m1, m2, badm}
MCUnregistrable == {badm}

D(kind, config, function, metric) ==
    [table |-> TRUE, kind |-> kind, config |-> config, function |-> function, metric |-> metric]
Ok(kind) == D(kind, "ok", TRUE, m1)
NoDecls == [n \in {} |-> Ok("custom")]
S(ss, ps) == [runs |-> TRUE, table |-> TRUE, lists |-> TRUE, aws |-> TRUE,
              sources |-> ss, providers |-> ps]

Good == S((n1 :> Ok("vyos_ssh")) @@ (n2 :> Ok("custom")),
          (n1 :> Ok("custom")) @@ (n2 :> Ok("file")))
MCScripts ==
    {Good,
     [Good EXCEPT !.runs = FALSE],
     [Good EXCEPT !.table = FALSE],
     [Good EXCEPT !.lists = FALSE],
     [Good EXCEPT !.sources[n1].table = FALSE],
     [Good EXCEPT !.sources[n1].config = "missing"],
     [Good EXCEPT !.sources[n1].config = "unmappable"],
     [Good EXCEPT !.sources[n2].config = "unmappable", !.providers[n1].function = FALSE,
                  !.providers[n2].kind = "other"],
     [Good EXCEPT !.providers[n2].config = "unmappable"],
     S(NoDecls, (n1 :> Ok("aws_route53")) @@ (n2 :> Ok("hosts_file"))),
     [S(NoDecls, (n1 :> Ok("aws_route53")) @@ (n2 :> Ok("hosts_file"))) EXCEPT !.aws = FALSE],
     S(NoDecls, (n1 :> Ok("http")) @@ (n2 :> Ok("http")) @@ (n3 :> Ok("prometheus_metrics"))),
     S(NoDecls, (n1 :> Ok("prometheus_metrics")) @@ (n2 :> Ok("prometheus_metrics"))
                @@ (n3 :> Ok("http"))),
     S(NoDecls, (n1 :> Ok("prometheus_metrics")) @@ (n2 :> D("prometheus_metrics", "ok", TRUE, m2))
                @@ (n3 :> Ok("other"))),
     S(NoDecls, (n1 :> D("prometheus_metrics", "ok", TRUE, badm)) @@ (n2 :> Ok("hosts_file")))}
===============================================================================
