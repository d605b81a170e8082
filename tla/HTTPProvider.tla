----------------------------- MODULE HTTPProvider -----------------------------
(***************************************************************************)
(* provider/http/http.go: the control loop replaces the three documents of *)
(* CurrentEndpointData under the write lock of a sync.RWMutex, and every   *)
(* request goroutine reads one of them under its read lock - which the     *)
(* handler takes around the getter, and the getter takes once more.        *)
(*                                                                         *)
(* The mutex is Go's: a writer first announces itself, from then on new    *)
(* readers wait; it holds the lock when the readers before it have gone;   *)
(* its Unlock admits every waiting reader.                                 *)
(***************************************************************************)
EXTENDS Integers, FiniteSets

CONSTANTS
    Handler,     \* requests in flight at the same time
    Version,     \* contents of an update
    Empty        \* the documents before the first update: "[]"

Slot == {"forward", "reverse-ipv4", "reverse-ipv6"}

ASSUME EmptyAssumption == Empty \notin Version
ASSUME HandlerAssumption == IsFiniteSet(Handler)

VARIABLES
    data,      \* CurrentEndpointData: the version of each document
    readers,   \* RWMutex: read locks held
    writer,    \* RWMutex: "none", "pending" or "holding"
    upc,       \* where UpdateEndpoints is
    version,   \* the update in progress
    pc,        \* where each request is
    slot,      \* the document a request is for
    answer     \* what a request's getter returned

mutex == <<readers, writer>>
update == <<upc, version>>
requests == <<pc, slot, answer>>
vars == <<data, mutex, update, requests>>

Init ==
    /\ data = [s \in Slot |-> Empty]
    /\ readers = 0
    /\ writer = "none"
    /\ upc = "idle"
    /\ version = Empty
    /\ pc = [h \in Handler |-> "idle"]
    /\ slot = [h \in Handler |-> "forward"]
    /\ answer = [h \in Handler |-> Empty]

-------------------------------------------------------------------------------
(* sync.RWMutex, external. *)
Waiting == {h \in Handler : pc[h] \in {"outerWait", "innerWait"}}

RLock(h, entered, blocked) ==
    IF writer = "none"
    THEN readers' = readers + 1 /\ pc' = [pc EXCEPT ![h] = entered]
    ELSE readers' = readers /\ pc' = [pc EXCEPT ![h] = blocked]

RUnlock(h, next) ==
    /\ readers' = readers - 1
    /\ pc' = [pc EXCEPT ![h] = next]

Admitted(where) ==
    CASE where = "outerWait" -> "getter"
      [] where = "innerWait" -> "read"
      [] OTHER -> where

-------------------------------------------------------------------------------
(* UpdateEndpoints: the documents are made before the lock is asked for.   *)
UpdateStarts ==
    /\ upc = "idle"
    /\ version' \in Version
    /\ upc' = "marshal"
    /\ UNCHANGED <<data, mutex, requests>>

(* json.Marshal or PTRsForEndpoints fails. *)
UpdateFails ==
    /\ upc = "marshal"
    /\ upc' = "idle"
    /\ UNCHANGED <<version, data, mutex, requests>>

LockAnnounced ==
    /\ upc = "marshal"
    /\ writer = "none"
    /\ writer' = "pending"
    /\ upc' = "lock"
    /\ UNCHANGED <<version, data, readers, requests>>

Locked ==
    /\ upc = "lock"
    /\ writer' = "holding"
    /\ upc' = "forward"
    /\ UNCHANGED <<version, data, readers, requests>>

NoWait == Locked  \* mutant of LockAcquired
LockAcquired == readers = 0 /\ Locked

Replace(s, next) ==
    /\ upc = s
    /\ data' = [data EXCEPT ![s] = version]
    /\ upc' = next
    /\ UNCHANGED <<version, mutex, requests>>

Unlock ==
    /\ writer' = "none"
    /\ readers' = readers + Cardinality(Waiting)
    /\ pc' = [h \in Handler |-> Admitted(pc[h])]
    /\ upc' = "idle"
    /\ UNCHANGED <<version, data, slot, answer>>

Unlocked == upc = "unlock" /\ Unlock

-------------------------------------------------------------------------------
(* A request of one of the three registered paths. *)
Request(h) ==
    /\ pc[h] = "idle"
    /\ \E s \in Slot : slot' = [slot EXCEPT ![h] = s]
    /\ pc' = [pc EXCEPT ![h] = "handler"]
    /\ UNCHANGED <<data, mutex, update, answer>>

OuterRLock(h) ==
    /\ pc[h] = "handler"
    /\ RLock(h, "getter", "outerWait")
    /\ UNCHANGED <<data, writer, update, slot, answer>>

InnerRLock(h) ==
    /\ pc[h] = "getter"
    /\ RLock(h, "read", "innerWait")
    /\ UNCHANGED <<data, writer, update, slot, answer>>

(* The getter's return, with its deferred RUnlock. *)
LockLeaked(h) ==  \* mutant of Getter
    /\ pc[h] = "read"
    /\ answer' = [answer EXCEPT ![h] = data[slot[h]]]
    /\ pc' = [pc EXCEPT ![h] = "write"]
    /\ UNCHANGED <<data, readers, writer, update, slot>>
Getter(h) ==
    /\ pc[h] = "read"
    /\ answer' = [answer EXCEPT ![h] = data[slot[h]]]
    /\ RUnlock(h, "write")
    /\ UNCHANGED <<data, writer, update, slot>>

(* w.Write, and the handler's return with its deferred RUnlock. *)
Respond(h) ==
    /\ pc[h] = "write"
    /\ RUnlock(h, "idle")
    /\ UNCHANGED <<data, writer, update, slot, answer>>

Update ==
    \/ UpdateFails
    \/ LockAnnounced
    \/ LockAcquired
    \/ Replace("forward", "reverse-ipv4")
    \/ Replace("reverse-ipv4", "reverse-ipv6")
    \/ Replace("reverse-ipv6", "unlock")
    \/ Unlocked

Handle(h) == OuterRLock(h) \/ InnerRLock(h) \/ Getter(h) \/ Respond(h)

Next ==
    \/ UpdateStarts
    \/ UpdateFails
    \/ LockAnnounced
    \/ LockAcquired
    \/ Replace("forward", "reverse-ipv4")
    \/ Replace("reverse-ipv4", "reverse-ipv6")
    \/ Replace("reverse-ipv6", "unlock")
    \/ Unlocked
    \/ \E h \in Handler : Request(h)
    \/ \E h \in Handler : OuterRLock(h)
    \/ \E h \in Handler : InnerRLock(h)
    \/ \E h \in Handler : Getter(h)
    \/ \E h \in Handler : Respond(h)

SafeSpec == Init /\ [][Next]_vars

(* Each goroutine that is not blocked runs on, and clients read what they  *)
(* are answered.  Neither updates nor requests have to arrive.             *)
Fairness == WF_vars(Update) /\ \A h \in Handler : WF_vars(Handle(h))

Spec == SafeSpec /\ Fairness

-------------------------------------------------------------------------------
HoldsOuter(h) == pc[h] \in {"getter", "innerWait", "read", "write"}
Writing == {"forward", "reverse-ipv4", "reverse-ipv6", "unlock"}

(* Every variable has its type. *)
TypeOK ==
    /\ data \in [Slot -> Version \cup {Empty}]
    /\ readers \in Nat
    /\ writer \in {"none", "pending", "holding"}
    /\ upc \in {"idle", "marshal", "lock"} \cup Writing
    /\ version \in Version \cup {Empty}
    /\ pc \in [Handler -> {"idle", "handler", "outerWait", "getter", "innerWait", "read", "write"}]
    /\ slot \in [Handler -> Slot]
    /\ answer \in [Handler -> Version \cup {Empty}]

(* A request sees one update: while any is past the handler's RLock the    *)
(* three documents are those of one update, and what a request is about to *)
(* write is still the document that is there.                              *)
OneUpdateIsSeen ==
    /\ (\E h \in Handler : HoldsOuter(h)) => \A s, t \in Slot : data[s] = data[t]
    /\ \A h \in Handler : pc[h] = "write" => answer[h] = data[slot[h]]

(* The one way an update does not return: a request took the handler's     *)
(* read lock, and found the update waiting when the getter took another.   *)
ReturnsUnlessNested ==
    upc # "idle" ~> (upc = "idle" \/ \E h \in Handler : pc[h] = "innerWait")

-------------------------------------------------------------------------------
(* "Exposes a JSON list representation accessible via ... HTTP"            *)
(* (README.md:28): a request for one of the documents is answered.         *)
RequestsAreAnswered == \A h \in Handler : pc[h] = "handler" ~> pc[h] = "idle"
===============================================================================
