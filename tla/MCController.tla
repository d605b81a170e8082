----------------------------- MODULE MCController -----------------------------
(* Two sources, two providers, an interval that is no multiple of the tick. *)
EXTENDS Controller

CONSTANTS e1, nil

MCEndpoint == {e1}
MCAnswers == {<<>>, <<e1>>, <<nil>>}
===============================================================================
