-------------------------- MODULE MCPrometheusMetrics --------------------------
(* Two scrapes, and lists with two addresses of both families, with one    *)
(* endpoint twice (two sources report it), and with a label that is        *)
(* refused between two that are not.                                       *)
EXTENDS PrometheusMetrics

CONSTANTS s1, s2, h1, h2, bad, a1, a2, b1, b2

MCScrape == {s1, s2}
MCHost == {h1, h2, bad}

EP(h, v4, v6) == [host |-> h, v4 |-> v4, v6 |-> v6]
MCBatches == {
    <<EP(h1, <<a1, a2>>, <<b1, b2>>)>>,
    <<EP(h1, <<a1>>, <<>>), EP(h2, <<>>, <<b1>>)>>,
    <<EP(h1, <<a2>>, <<>>), EP(bad, <<a1>>, <<>>), EP(h2, <<>>, <<>>)>>,
    <<EP(h2, <<a1>>, <<>>), EP(h2, <<a1>>, <<>>)>>}
===============================================================================
