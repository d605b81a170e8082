---------------------------- MODULE Reconciliation ----------------------------
(***************************************************************************)
(* What ZonePop's control loop promises the providers it feeds, whatever   *)
(* happens inside a run: a round is opened with ONE batch, every provider  *)
(* is handed that very batch exactly once, in any order, and the round     *)
(* cannot be settled before all of them were.  Only a crash of the process *)
(* may leave a round half served.  Between rounds no provider is touched.  *)
(* Controller.tla is shown to implement it.                                *)
(***************************************************************************)
EXTENDS Sequences

CONSTANTS Providers,  \* the providers of the configuration
          Endpoints,  \* the endpoints a batch is made of
          Nothing     \* what a provider holds before its first batch

VARIABLES
    phase,     \* "idle", "serving", "closed" or "crashed"
    batch,     \* the batch of the open round, <<>> when there is none
    served,    \* the providers the open round has reached
    received   \* the batch each provider was handed last

vars == <<phase, batch, served, received>>

Init ==
    /\ phase = "idle"
    /\ batch = <<>>
    /\ served = {}
    /\ received = [p \in Providers |-> Nothing]

Open ==
    /\ phase = "idle"
    /\ phase' = "serving"
    /\ batch' \in Seq(Endpoints)
    /\ UNCHANGED <<served, received>>

Serve(p) ==
    /\ phase = "serving"
    /\ p \notin served
    /\ served' = served \cup {p}
    /\ received' = [received EXCEPT ![p] = batch]
    /\ UNCHANGED <<phase, batch>>

Reset(next) ==
    /\ phase' = next
    /\ batch' = <<>>
    /\ served' = {}
    /\ UNCHANGED received

Settle ==
    /\ phase = "serving"
    /\ served = Providers
    /\ \/ Reset("idle")
       \/ Reset("closed")

Close == phase = "idle" /\ Reset("closed")

Crash == phase \in {"idle", "serving"} /\ Reset("crashed")

Reopen == phase \in {"closed", "crashed"} /\ Reset("idle")

Next ==
    \/ Open
    \/ \E p \in Providers : Serve(p)
    \/ Settle
    \/ Close
    \/ Crash
    \/ Reopen

Spec == Init /\ [][Next]_vars
===============================================================================
