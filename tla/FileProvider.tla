----------------------------- MODULE FileProvider -----------------------------
(***************************************************************************)
(* UpdateEndpoints of provider/file/file.go and of                         *)
(* provider/hosts_file/hosts_file.go: every file is rendered in memory     *)
(* first, then the files are written in place one after the other, to the  *)
(* local disk or over one SSH connection.                                  *)
(*                                                                         *)
(* One step per file rendered, per connection, per open and per write;     *)
(* each may fail, and the process may die between any two (a panic of an   *)
(* endpoint filter or of PTRsForEndpoints is one way to die).  What a file *)
(* holds is abstracted to the entry of the configuration and the endpoints *)
(* it was rendered from.                                                   *)
(***************************************************************************)
EXTENDS Naturals, Sequences, FiniteSets

CONSTANTS
    FileName, NoName,  \* names of files; Filename left out of the configuration
    Batch,             \* lists of endpoints, as far as the files tell them apart
    Setups             \* configurations to consider

Entry == [name : FileName \cup {NoName}, octal : BOOLEAN]
Setup == [kind : {"file", "hosts_file"}, remote : BOOLEAN, files : Seq(Entry)]

ASSUME NameAssumption == NoName \notin FileName
ASSUME SetupsAssumption ==
    \A s \in Setups :
        /\ s \in Setup
        /\ s.kind = "hosts_file" => Len(s.files) = 1

VARIABLES
    setup,    \* the provider's configuration; never changes
    disk,     \* external: what every file holds; survives the process
    pc,       \* where UpdateEndpoints is
    batch,    \* the endpoints of the call
    results,  \* rendered so far
    next,     \* the result to be written next
    conn,     \* the SSH connection is open
    outcome,  \* what the last call returned
    calm      \* the environment has settled: nothing fails by chance any more

call == <<pc, batch, results, next, conn, outcome>>
vars == <<setup, disk, call, calm>>

Files == setup.files
Rendering(i, b) == [file |-> i, batch |-> b]

(* A file nobody wrote yet; one that was truncated and not yet filled.     *)
Absent == [file |-> 0, batch |-> "absent"]
Torn == [file |-> 0, batch |-> "torn"]
Content == [file : Nat \ {0}, batch : Batch] \cup {Absent, Torn}

(* The last of the entries 1..n that writes to name f. *)
Writers(f, n) == {i \in 1..n : Files[i].name = f}
IsLast(i, n) == i \in 1..n /\ \A j \in Writers(Files[i].name, n) : j <= i

-------------------------------------------------------------------------------
Init ==
    /\ setup \in Setups
    /\ disk = [f \in FileName |-> Absent]
    /\ pc = "idle"
    /\ batch \in Batch
    /\ results = <<>>
    /\ next = 1
    /\ conn = FALSE
    /\ outcome = "none"
    /\ calm = FALSE

(* An early return, with the deferred Disconnect. *)
KeepConnection(o) ==  \* mutant of Return
    /\ pc' = "idle"
    /\ outcome' = o
    /\ conn' = IF o = "ok" THEN FALSE ELSE conn

Return(o) ==
    /\ pc' = "idle"
    /\ outcome' = o
    /\ conn' = FALSE

UpdateEndpoints ==
    /\ pc = "idle"
    /\ batch' \in Batch
    /\ pc' = "render"
    /\ results' = <<>>
    /\ next' = 1
    /\ outcome' = "none"
    /\ UNCHANGED <<setup, disk, conn, calm>>

(* Only the file provider checks the name while it renders, and only its   *)
(* rendering can fail: PTRs, the generate function, the template.          *)
ToRender == pc = "render" /\ Len(results) < Len(Files)
Named == setup.kind = "file" => Files[Len(results) + 1].name # NoName

WriteEarly ==  \* mutant of Render
    /\ ToRender
    /\ Named
    /\ LET i == Len(results) + 1 IN
        /\ results' = Append(results, Rendering(i, batch))
        /\ disk' = [f \in FileName |->
                        IF f = Files[i].name THEN Rendering(i, batch) ELSE disk[f]]
    /\ UNCHANGED <<setup, pc, batch, next, conn, outcome, calm>>

Render ==
    /\ ToRender
    /\ Named
    /\ results' = Append(results, Rendering(Len(results) + 1, batch))
    /\ UNCHANGED <<setup, disk, pc, batch, next, conn, outcome, calm>>

MissingFilename ==
    /\ ToRender
    /\ ~Named
    /\ Return("error")
    /\ UNCHANGED <<setup, disk, batch, results, next, calm>>

RenderFails ==
    /\ ToRender
    /\ setup.kind = "file"
    /\ ~calm
    /\ Return("error")
    /\ UNCHANGED <<setup, disk, batch, results, next, calm>>

AllRendered ==
    /\ pc = "render"
    /\ Len(results) = Len(Files)
    /\ pc' = IF setup.remote THEN "connect" ELSE "write"
    /\ next' = 1
    /\ UNCHANGED <<setup, disk, batch, results, conn, outcome, calm>>

Connect ==
    /\ pc = "connect"
    /\ pc' = "write"
    /\ conn' = TRUE
    /\ UNCHANGED <<setup, disk, batch, results, next, outcome, calm>>

ConnectFails ==
    /\ pc = "connect"
    /\ ~calm
    /\ Return("error")
    /\ UNCHANGED <<setup, disk, batch, results, next, calm>>

(* Permissions are parsed only on the way to a local file and by the scp   *)
(* of the remote host (external); hosts_file finds a missing name only     *)
(* when it opens it.                                                       *)
ToWrite == pc = "write" /\ next <= Len(results)
Target == Files[next].name
Recognised == Target # NoName /\ Files[next].octal /\ disk[Target] # Torn  \* mutant of Writable
Writable == Target # NoName /\ Files[next].octal

(* os.WriteFile and scp both truncate the file in place ... *)
Open ==
    /\ ToWrite
    /\ Writable
    /\ disk' = [disk EXCEPT ![Target] = Torn]
    /\ pc' = "opened"
    /\ UNCHANGED <<setup, batch, results, next, conn, outcome, calm>>

OpenFails ==
    /\ ToWrite
    /\ Writable => ~calm
    /\ Return("error")
    /\ UNCHANGED <<setup, disk, batch, results, next, calm>>

(* ... and then fill it. *)
Fill ==
    /\ pc = "opened"
    /\ disk' = [disk EXCEPT ![Target] = results[next]]
    /\ next' = next + 1
    /\ pc' = "write"
    /\ UNCHANGED <<setup, batch, results, conn, outcome, calm>>

IgnoreFillError ==  \* mutant of FillFails
    /\ pc = "opened"
    /\ ~calm
    /\ next' = next + 1
    /\ pc' = "write"
    /\ UNCHANGED <<setup, disk, batch, results, conn, outcome, calm>>

(* A full disk, a lost connection, or the context of an scp cancelled. *)
FillFails ==
    /\ pc = "opened"
    /\ ~calm
    /\ Return("error")
    /\ UNCHANGED <<setup, disk, batch, results, next, calm>>

Finish ==
    /\ pc = "write"
    /\ next > Len(results)
    /\ Return("ok")
    /\ UNCHANGED <<setup, disk, batch, results, next, calm>>

(* The process dies at any point and is started again. *)
Restart ==
    /\ ~calm
    /\ Return("none")
    /\ results' = <<>>
    /\ next' = 1
    /\ UNCHANGED <<setup, disk, batch, calm>>

Settle ==
    /\ ~calm
    /\ calm' = TRUE
    /\ UNCHANGED <<setup, disk, call>>

Progress ==
    \/ UpdateEndpoints
    \/ Render \/ MissingFilename \/ AllRendered
    \/ Connect \/ Open \/ Fill \/ Finish
    \/ OpenFails

Next == Progress \/ RenderFails \/ ConnectFails \/ FillFails \/ Restart \/ Settle

(* The control loop calls the provider again every interval, and a call    *)
(* that is under way goes on.                                              *)
Spec == Init /\ [][Next]_vars /\ WF_vars(Progress)

-------------------------------------------------------------------------------
TypeOK ==
    /\ setup \in Setups
    /\ disk \in [FileName -> Content]
    /\ pc \in {"idle", "render", "connect", "write", "opened"}
    /\ batch \in Batch
    /\ results \in Seq([file : Nat \ {0}, batch : Batch])
    /\ next \in Nat \ {0}
    /\ conn \in BOOLEAN
    /\ outcome \in {"none", "ok", "error"}
    /\ calm \in BOOLEAN

(* Name f holds what the last entry of that name renders from the          *)
(* endpoints of the latest call.                                           *)
Written(n) ==
    \A i \in 1..n : IsLast(i, n) => disk[Files[i].name] = Rendering(i, batch)

(* A call that returned no error left every configured file complete and   *)
(* rendered from exactly the endpoints it was given, two entries of one    *)
(* name included; none is torn or of an earlier run.                       *)
OkMeansWritten == outcome = "ok" => Written(Len(Files))

(* A file is touched only after every file of the call has been rendered:  *)
(* a template or a generate function that fails keeps the whole            *)
(* configuration on the files of the last good run.                        *)
RenderedBeforeWritten ==
    [][disk' # disk =>
        results = [i \in 1..Len(Files) |-> Rendering(i, batch)]]_vars

(* No way out of UpdateEndpoints, and no restart, leaves an SSH connection *)
(* behind: a provider called every interval for months would exhaust the   *)
(* host's sessions.                                                        *)
ConnectionsClosed == conn => setup.remote /\ pc \in {"write", "opened"}

(* Whatever crashes and failures left behind, torn files included, once    *)
(* nothing fails any more the files of a well-formed configuration come to *)
(* hold what the latest endpoints render to.                               *)
WellFormed == \A i \in 1..Len(Files) : Files[i].name # NoName /\ Files[i].octal
Heals == calm /\ WellFormed ~> outcome = "ok" /\ Written(Len(Files))
===============================================================================
