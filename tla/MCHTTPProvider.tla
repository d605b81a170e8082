---------------------------- MODULE MCHTTPProvider ----------------------------
(* Two concurrent requests and updates of two contents. *)
EXTENDS HTTPProvider

CONSTANTS r1, r2, v1, v2

MCHandler == {r1, r2}
MCVersion == {v1, v2}
===============================================================================
