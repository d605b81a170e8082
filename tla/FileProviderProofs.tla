-------------------------- MODULE FileProviderProofs --------------------------
(***************************************************************************)
(* What FileProvider promises for every configuration and every list of    *)
(* endpoints.  The argument is one inductive invariant: the results are    *)
(* always renderings of this call's endpoints, in order, and the files     *)
(* before the one being written hold the last rendering of their name.     *)
(***************************************************************************)
EXTENDS FileProvider, TLAPS

Writing == pc \in {"write", "opened"}

ResultsAreOfThisCall ==
    /\ Len(results) <= Len(Files)
    /\ \A i \in 1..Len(results) : results[i] = Rendering(i, batch)
    /\ pc \in {"connect", "write", "opened"} => Len(results) = Len(Files)

NamesBefore == Writing => \A i \in 1..next - 1 : Files[i].name \in FileName

WrittenSoFar ==
    /\ pc = "connect" => next = 1
    /\ pc = "write" => next <= Len(Files) + 1 /\ Written(next - 1)
    /\ pc = "opened" =>
        /\ next <= Len(Files)
        /\ Target \in FileName
        /\ \A i \in 1..next - 1 :
            IsLast(i, next - 1) /\ Files[i].name # Target =>
                disk[Files[i].name] = Rendering(i, batch)

Connected ==
    /\ conn => setup.remote /\ Writing
    /\ pc = "connect" => setup.remote

OkOnlyIdle == outcome = "ok" => pc = "idle" /\ Written(Len(Files))

Inv ==
    /\ TypeOK
    /\ ResultsAreOfThisCall
    /\ NamesBefore
    /\ WrittenSoFar
    /\ Connected
    /\ OkOnlyIdle

(* The configurations considered are configurations. *)
LEMMA FilesType == ASSUME TypeOK PROVE Files \in Seq(Entry) /\ setup \in Setup
BY SetupsAssumption DEF TypeOK, Files, Setup

LEMMA InitInv == Init => Inv
<1> SUFFICES ASSUME Init PROVE Inv
    OBVIOUS
<1>1. TypeOK
    <2>1. disk \in [FileName -> Content]
        BY DEF Init, Content
    <2>2. results \in Seq([file : Nat \ {0}, batch : Batch])
        BY DEF Init
    <2>3. conn \in BOOLEAN /\ calm \in BOOLEAN /\ setup \in Setups
        BY Zenon DEF Init
    <2> QED
        BY <2>1, <2>2, <2>3 DEF Init, TypeOK
<1>2. Files \in Seq(Entry)
    BY <1>1, FilesType
<1> QED
    BY <1>1, <1>2 DEF Init, Inv, ResultsAreOfThisCall, NamesBefore, WrittenSoFar,
        Connected, OkOnlyIdle, Writing

LEMMA InvStep == Inv /\ [Next]_vars => Inv'
<1> SUFFICES ASSUME Inv, [Next]_vars PROVE Inv'
    OBVIOUS
<1>t. TypeOK /\ Files \in Seq(Entry) /\ Len(Files) \in Nat /\ setup \in Setup
    BY FilesType DEF Inv
<1> USE DEF Inv
<1>1. CASE UpdateEndpoints
    <2>1. TypeOK'
        BY <1>1, <1>t DEF UpdateEndpoints, TypeOK
    <2> QED
        BY <2>1, <1>1, <1>t DEF UpdateEndpoints, TypeOK, ResultsAreOfThisCall, NamesBefore,
            WrittenSoFar, Connected, OkOnlyIdle, Writing, Files
<1>2. CASE Render
    <2> USE <1>2, <1>t DEF Render, ToRender, TypeOK
    <2>0. Len(results) \in Nat /\ results' \in Seq([file : Nat \ {0}, batch : Batch])
        BY DEF Rendering
    <2>1. TypeOK'
        BY <2>0
    <2>2. Len(results') = Len(results) + 1
        BY <2>0
    <2>3. \A i \in 1..Len(results') : results'[i] = Rendering(i, batch)
        BY <2>0, <2>2 DEF ResultsAreOfThisCall
    <2>4. ResultsAreOfThisCall'
        BY <2>0, <2>2, <2>3 DEF ResultsAreOfThisCall, Files, Rendering
    <2> QED
        BY <2>1, <2>4 DEF NamesBefore, WrittenSoFar, Connected, OkOnlyIdle, Writing, Files
<1>3. CASE MissingFilename \/ RenderFails \/ ConnectFails \/ OpenFails \/ FillFails
    <2>1. /\ pc' = "idle" /\ outcome' = "error" /\ conn' = FALSE
          /\ UNCHANGED <<setup, disk, batch, results, next, calm>>
        BY <1>3 DEF MissingFilename, RenderFails, ConnectFails, OpenFails, FillFails, Return
    <2> QED
        BY <2>1, <1>t DEF TypeOK, ResultsAreOfThisCall, NamesBefore, WrittenSoFar, Connected,
            OkOnlyIdle, Writing, Files
<1>4. CASE AllRendered
    <2>1. TypeOK'
        BY <1>4, <1>t DEF AllRendered, TypeOK
    <2>2. outcome # "ok" /\ conn = FALSE
        BY <1>4, <1>t DEF AllRendered, OkOnlyIdle, Connected, Writing, TypeOK
    <2> QED
        BY <2>1, <2>2, <1>4, <1>t DEF AllRendered, TypeOK, ResultsAreOfThisCall, NamesBefore,
            WrittenSoFar, Connected, OkOnlyIdle, Writing, Files, Written, IsLast
<1>5. CASE Connect
    <2>1. TypeOK'
        BY <1>5, <1>t DEF Connect, TypeOK
    <2> QED
        BY <2>1, <1>5, <1>t DEF Connect, TypeOK, ResultsAreOfThisCall, NamesBefore,
            WrittenSoFar, Connected, OkOnlyIdle, Writing, Files, Written, IsLast
<1>6. CASE Open
    <2>0. /\ ToWrite /\ Writable /\ pc = "write" /\ pc' = "opened"
          /\ disk' = [disk EXCEPT ![Target] = Torn]
          /\ UNCHANGED <<setup, batch, results, next, conn, outcome, calm>>
        BY <1>6 DEF Open, ToWrite
    <2>1. next \in 1..Len(Files) /\ Target \in FileName
        <3>1. next \in 1..Len(Files)
            BY <2>0, <1>t DEF ToWrite, ResultsAreOfThisCall, TypeOK
        <3>2. Files[next] \in Entry
            BY <3>1, <1>t
        <3> QED
            BY <3>1, <3>2, <2>0 DEF Writable, Target, Entry
    <2>2. TypeOK'
        BY <2>0, <1>t DEF TypeOK, Content
    <2>3. WrittenSoFar'
        BY <2>0, <2>1, <1>t DEF WrittenSoFar, NamesBefore, Writing, Written, IsLast, Writers,
            Files, Target, Rendering, TypeOK
    <2> QED
        BY <2>0, <2>1, <2>2, <2>3 DEF ResultsAreOfThisCall, NamesBefore, Connected, OkOnlyIdle,
            Writing, Files
<1>7. CASE Fill
    <2>0. /\ pc = "opened" /\ pc' = "write" /\ next' = next + 1
          /\ disk' = [disk EXCEPT ![Target] = results[next]]
          /\ UNCHANGED <<setup, batch, results, conn, outcome, calm>>
        BY <1>7 DEF Fill
    <2>1. /\ next \in 1..Len(Files) /\ next \in Nat /\ Target \in FileName
          /\ Len(results) = Len(Files)
          /\ results[next] = Rendering(next, batch)
        BY <2>0, <1>t DEF WrittenSoFar, ResultsAreOfThisCall, TypeOK
    <2>2. disk'[Target] = Rendering(next, batch)
        BY <2>0, <2>1 DEF TypeOK
    <2>3. TypeOK'
        <3>1. Rendering(next, batch) \in Content
            BY <2>1, <1>t DEF Rendering, Content, TypeOK
        <3> QED
            BY <3>1, <2>0, <2>1, <1>t DEF TypeOK
    <2>4. ASSUME NEW i \in 1..next, IsLast(i, next)
          PROVE  disk'[Files[i].name] = Rendering(i, batch)
        <3>1. CASE Files[i].name = Target
            <4>1. i = next
                BY <3>1, <2>1, <2>4 DEF IsLast, Writers, Target
            <4> QED
                BY <4>1, <2>2, <3>1
        <3>2. CASE Files[i].name # Target
            <4>1. i \in 1..next - 1 /\ IsLast(i, next - 1)
                BY <3>2, <2>1, <2>4 DEF IsLast, Writers, Target
            <4>2. disk[Files[i].name] = Rendering(i, batch) /\ Files[i].name \in FileName
                BY <4>1, <3>2, <2>0 DEF WrittenSoFar, NamesBefore, Writing
            <4> QED
                BY <4>2, <3>2, <2>0 DEF TypeOK
        <3> QED
            BY <3>1, <3>2
    <2>5. WrittenSoFar'
        <3>0. next' - 1 = next /\ Files' = Files /\ batch' = batch /\ next' <= Len(Files) + 1
            BY <2>0, <2>1, <1>t DEF Files
        <3>1. (Written(next - 1))'
            BY <2>4, <3>0 DEF Written, IsLast, Writers, Rendering
        <3> QED
            BY <3>0, <3>1, <2>0 DEF WrittenSoFar
    <2> QED
        BY <2>0, <2>1, <2>3, <2>5, <1>t DEF ResultsAreOfThisCall, NamesBefore, Connected, OkOnlyIdle,
            Writing, Files, Target
<1>8. CASE Finish
    <2>0. /\ pc = "write" /\ next > Len(results) /\ pc' = "idle" /\ outcome' = "ok" /\ conn' = FALSE
          /\ UNCHANGED <<setup, disk, batch, results, next, calm>>
        BY <1>8 DEF Finish, Return
    <2>1. next - 1 = Len(Files) /\ Written(next - 1)
        BY <2>0, <1>t DEF WrittenSoFar, ResultsAreOfThisCall, TypeOK
    <2>2. Written(Len(Files))'
        BY <2>0, <2>1 DEF Written, IsLast, Writers, Files, Rendering
    <2>3. TypeOK'
        BY <2>0, <1>t DEF TypeOK
    <2> QED
        BY <2>0, <2>2, <2>3 DEF ResultsAreOfThisCall, NamesBefore, WrittenSoFar, Connected,
            OkOnlyIdle, Writing, Files
<1>9. CASE Restart
    <2>0. /\ pc' = "idle" /\ outcome' = "none" /\ conn' = FALSE /\ results' = <<>> /\ next' = 1
          /\ UNCHANGED <<setup, disk, batch, calm>>
        BY <1>9 DEF Restart, Return
    <2>1. TypeOK'
        <3>1. results' \in Seq([file : Nat \ {0}, batch : Batch]) /\ next' \in Nat \ {0}
            BY <2>0
        <3>2. conn' \in BOOLEAN
            BY <2>0, Zenon
        <3> QED
            BY <2>0, <3>1, <3>2 DEF TypeOK
    <2> QED
        BY <2>0, <2>1, <1>t DEF ResultsAreOfThisCall, NamesBefore, WrittenSoFar, Connected,
            OkOnlyIdle, Writing, Files
<1>10. CASE Settle \/ UNCHANGED vars
    <2>0. UNCHANGED <<setup, disk, pc, batch, results, next, conn, outcome>> /\ calm' \in BOOLEAN
        BY <1>10, <1>t DEF Settle, vars, call, TypeOK
    <2>1. TypeOK'
        BY <2>0, <1>t DEF TypeOK
    <2> QED
        BY <2>0, <2>1 DEF ResultsAreOfThisCall, NamesBefore, WrittenSoFar, Connected, OkOnlyIdle,
            Writing, Files, Written, IsLast, Writers, Rendering, Target
<1> QED
    BY <1>1, <1>2, <1>3, <1>4, <1>5, <1>6, <1>7, <1>8, <1>9, <1>10 DEF Next, Progress

LEMMA Invariance == Spec => []Inv
<1>1. Init => Inv
    BY InitInv
<1>2. Inv /\ [Next]_vars => Inv'
    BY InvStep
<1> QED
    BY <1>1, <1>2, PTL DEF Spec

(* Every variable keeps its type, for every set of configurations.         *)
THEOREM TypeCorrect == Spec => []TypeOK
BY Invariance, PTL DEF Inv

(* A call that returned no error wrote every file of the configuration     *)
(* from the endpoints it was given, however many entries share a name.     *)
THEOREM OkCallsWroteEverything == Spec => []OkMeansWritten
<1>1. Inv => OkMeansWritten
    BY DEF Inv, OkOnlyIdle, OkMeansWritten
<1> QED
    BY <1>1, Invariance, PTL

(* An SSH connection is open only while files are copied over it.          *)
THEOREM NoConnectionIsLeaked == Spec => []ConnectionsClosed
<1>1. Inv => ConnectionsClosed
    BY DEF Inv, Connected, Writing, ConnectionsClosed
<1> QED
    BY <1>1, Invariance, PTL

(* No file changes before every file of the call has been rendered from    *)
(* the endpoints of the call.                                              *)
THEOREM FilesChangeOnlyWhenAllAreRendered == Spec => RenderedBeforeWritten
<1>1. ASSUME Inv, [Next]_vars, disk' # disk
      PROVE  results = [i \in 1..Len(Files) |-> Rendering(i, batch)]
    <2>1. Open \/ Fill
        BY <1>1 DEF Next, Progress, UpdateEndpoints, Render, MissingFilename, RenderFails, AllRendered,
            Connect, ConnectFails, OpenFails, FillFails, Finish, Restart, Settle, vars, call
    <2>2. Len(results) = Len(Files)
        BY <2>1, <1>1 DEF Open, ToWrite, Fill, Inv, ResultsAreOfThisCall
    <2>3. \A i \in 1..Len(results) : results[i] = Rendering(i, batch)
        BY <1>1 DEF Inv, ResultsAreOfThisCall
    <2>4. results \in Seq([file : Nat \ {0}, batch : Batch])
        BY <1>1 DEF Inv, TypeOK
    <2> QED
        BY <2>2, <2>3, <2>4
<1>2. Inv /\ [Next]_vars =>
        [disk' # disk => results = [i \in 1..Len(Files) |-> Rendering(i, batch)]]_vars
    BY <1>1
<1> QED
    BY <1>2, Invariance, PTL DEF Spec, RenderedBeforeWritten
===============================================================================
