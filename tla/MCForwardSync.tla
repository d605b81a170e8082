---------------------------- MODULE MCForwardSync -----------------------------
(* Two sources that report one host, each with one of two addresses, and a *)
(* zone that begins with a record of it that may hold one too many; pages  *)
(* of one record, so that the cleanup has more than one to list.           *)
EXTENDS ForwardSync

CONSTANTS h1, n1, a1, a2, b1, txt

MCFqdn == [h \in {h1} |-> n1]

EP(v4, v6) == [host |-> h1, v4 |-> v4, v6 |-> v6, ttl |-> 60]
MCAnswers == {<<EP({a1}, {b1})>>, <<EP({a2}, {})>>, <<NilEndpoint>>}

MCInitialZones == {{[name |-> n1, type |-> "A", values |-> {a1, a2}, ttl |-> 60]}}

MCPosition == [k \in {n1} \X {"A", "AAAA", "TXT"} |->
    CASE k[2] = "A" -> 1 [] k[2] = "AAAA" -> 2 [] OTHER -> 3]
===============================================================================
