------------------------------ MODULE VyOSSource ------------------------------
(***************************************************************************)
(* Endpoints of source/vyos/vyos_ssh.go with lease.go, neighbor.go and     *)
(* tabulate_parse.go: over one SSH connection it asks the router how it    *)
(* keeps leases, then for the leases, then for the IPv6 neighbours, and    *)
(* gives each lease the addresses its hardware address was seen at.        *)
(*                                                                         *)
(* One step per command; the router goes on between two of them and any    *)
(* may fail.  Its output is text: leases are a table of bytes, neighbours  *)
(* lines of words.                                                         *)
(***************************************************************************)
EXTENDS Tabulate

CONSTANTS
    Byte,          \* what texts are made of
    Fold,          \* Fold[m]: hardware address m in lower case
    LinkLocal,     \* IPv6 addresses with the prefix fe80
    Routers,       \* what the router may hold: version, leases, neighbours
    Trims,         \* external: whether its table loses blanks at the ends of lines
    CollectModes   \* values of CollectIPv6Neighbors to consider

(* A text: its bytes, and how many characters they are.  A word is ASCII   *)
(* and has no blank at its ends.  A lease has an address, so that no row   *)
(* of the router's table is blank.                                         *)
Text == {t \in [bytes : Seq(Byte), chars : Nat] : t.chars <= Len(t.bytes)}
Word == {t \in Text : t.chars = Len(t.bytes) /\ Trim(t.bytes) = t.bytes}
Nothing == <<>>
Lease == [ip : {w \in Word : w.bytes # Nothing}, mac : Word, host : Text, origin : Word]

Versions == {"equuleus", "sagitta"}
Nuds == {<<"PERMANENT">>, <<"NOARP">>, <<"REACHABLE">>, <<"STALE">>, <<"NONE">>,
         <<"INCOMPLETE">>, <<"DELAY">>, <<"PROBE">>, <<"FAILED">>}
Neighbor == [to : Seq(Byte) \ {Nothing}, lladdr : DOMAIN Fold, nud : Nuds]

(* The IPv6 addresses of a lease, in no order; and a nil slice, which is   *)
(* no set of addresses.                                                    *)
Nil == {Nothing}

ASSUME ByteAssumption == {Blank, Dash, "A", "C", "H", "I", "M", "O", "P"} \subseteq Byte
ASSUME RoutersAssumption ==
    /\ Routers \subseteq [version : Versions, leases : Seq(Lease), neighbours : Seq(Neighbor)]
    /\ \A r \in Routers : \A k \in DOMAIN r.leases : r.leases[k].mac.bytes \in DOMAIN Fold
ASSUME ModesAssumption == Trims \subseteq BOOLEAN /\ CollectModes \subseteq BOOLEAN

VARIABLES
    collect, trim,  \* configuration: CollectIPv6Neighbors; how the router prints
    router,         \* external
    pc,             \* where Endpoints is
    conn,           \* the SSH connection is open
    leases,         \* read so far, with the addresses associated
    answer,         \* the endpoints of the last call
    outcome,        \* what it returned
    leasesThen, neighboursThen, \* what the router held when its answers were made
    heard           \* what it has answered in this call

setup == <<collect, trim>>
then == <<leasesThen, neighboursThen, heard>>
vars == <<setup, router, pc, conn, leases, answer, outcome, then>>

-------------------------------------------------------------------------------
(* External: the output of show_server_leases, tabulate's simple format.   *)
Ascii(bytes) == [bytes |-> bytes, chars |-> Len(bytes)]
Header == [ip |-> Ascii(<<"I", "P">>), mac |-> Ascii(<<"M", "A", "C">>),
           host |-> Ascii(<<"H">>), origin |-> Ascii(<<"O">>)]
Width(table, f) == Max({table[k][f].chars : k \in DOMAIN table} \cup {Header[f].chars})

Fill(n, with) == [i \in 1..n |-> with]
Pad(text, width) == text.bytes \o Fill(width - text.chars, Blank)
Gap == Fill(2, Blank)
Line(table, row) ==
    Pad(row.ip, Width(table, "ip")) \o Gap \o Pad(row.mac, Width(table, "mac")) \o Gap
    \o Pad(row.host, Width(table, "host")) \o Gap \o Pad(row.origin, Width(table, "origin"))
Rule(table) ==
    Fill(Width(table, "ip"), Dash) \o Gap \o Fill(Width(table, "mac"), Dash) \o Gap
    \o Fill(Width(table, "host"), Dash) \o Gap \o Fill(Width(table, "origin"), Dash)
Output(table) ==
    LET Printed(row) == IF trim THEN TrimRight(Line(table, row)) ELSE Line(table, row)
    IN <<Printed(Header), Rule(table)>> \o [k \in DOMAIN table |-> Printed(table[k])]

(* strings.TrimSpace of the whole output cuts the end of its last line.    *)
Lines(output) == [output EXCEPT ![Len(output)] = TrimRight(output[Len(output)])]

(* LeasesFromShowOutput, and LeasesFromJSON, which cannot mistake a byte.  *)
LeasesFromShowOutput(lines) ==
    [k \in 1..Len(lines) - 2 |->
        [ip |-> Field(lines, lines[k + 2], Header.ip.bytes),
         mac |-> Field(lines, lines[k + 2], Header.mac.bytes),
         host |-> Field(lines, lines[k + 2], Header.host.bytes),
         v6 |-> Nil]]
LeasesFromJSON(table) ==
    [k \in DOMAIN table |->
        [ip |-> table[k].ip.bytes, mac |-> table[k].mac.bytes,
         host |-> table[k].host.bytes, v6 |-> Nil]]

(* External: a line of "ip -f inet6 neigh show", split at blanks; an entry *)
(* nothing is known of has no lladdr and two blanks in its place.          *)
NeighborWords(n) ==
    IF n.lladdr = Nothing THEN <<n.to, <<"dev">>, <<"eth0">>, Nothing, n.nud>>
    ELSE <<n.to, <<"dev">>, <<"eth0">>, <<"lladdr">>, n.lladdr, n.nud>>

(* ParseNeighborLine, word by word: the word after dev or lladdr belongs   *)
(* to it.                                                                  *)
Parsed(n, w) ==
    CASE n.after = <<"lladdr">> -> [n EXCEPT !.after = Nothing, !.lladdr = w]
      [] n.after = <<"dev">> -> [n EXCEPT !.after = Nothing]
      [] n.after = Nothing /\ w \in {<<"dev">>, <<"lladdr">>} -> [n EXCEPT !.after = w]
      [] n.after = Nothing /\ w \in Nuds -> [n EXCEPT !.nud = w]
      [] OTHER -> n
ParseNeighborLine(words) ==
    LET upTo[i \in 1..Len(words)] ==
            IF i = 1 THEN [to |-> words[1], after |-> Nothing, lladdr |-> Nothing, nud |-> Nothing]
            ELSE Parsed(upTo[i - 1], words[i])
    IN upTo[Len(words)]

(* The output ends in a newline: the last line is empty. *)
ParseNeighborLines(table) ==
    {ParseNeighborLine(NeighborWords(table[k])) : k \in DOMAIN table}
    \cup {ParseNeighborLine(<<Nothing>>)}

FoldOf(mac) == IF mac \in DOMAIN Fold THEN Fold[mac] ELSE mac
Counts(n) == n.nud \in {<<"REACHABLE">>, <<"STALE">>}
AssociatePotentialIPv6s(l, neighbours) ==
    LET own == {n \in neighbours :
                  /\ n.to # Nothing
                  /\ n.to \notin LinkLocal
                  /\ FoldOf(n.lladdr) = FoldOf(l.mac)
                  /\ Counts(n)}
    IN [l EXCEPT !.v6 = IF own = {} THEN Nil ELSE {n.to : n \in own}]

NilStaysNil(l) ==  \* mutant of LeaseToEndpoint
    [ip |-> l.ip, host |-> l.host, v6 |-> IF collect THEN l.v6 ELSE Nil]

LeaseToEndpoint(l) ==
    [ip |-> l.ip, host |-> l.host,
     v6 |-> IF ~collect THEN Nil ELSE IF l.v6 = Nil THEN {} ELSE l.v6]

-------------------------------------------------------------------------------
Init ==
    /\ collect \in CollectModes
    /\ trim \in Trims
    /\ router \in Routers
    /\ pc = "idle"
    /\ conn = FALSE
    /\ leases = <<>>
    /\ answer = <<>>
    /\ outcome = "none"
    /\ leasesThen = <<>>
    /\ neighboursThen = <<>>
    /\ heard = {}

(* A return, with the deferred Disconnect.  An error returns no endpoints. *)
KeepOnError(o, endpoints) ==  \* mutant of Return
    /\ pc' = "idle"
    /\ conn' = (o = "error" /\ conn)
    /\ outcome' = o
    /\ answer' = endpoints

Return(o, endpoints) ==
    /\ pc' = "idle"
    /\ conn' = FALSE
    /\ outcome' = o
    /\ answer' = endpoints

Fails ==
    /\ Return("error", <<>>)
    /\ UNCHANGED <<setup, router, leases, then>>

Connect ==
    /\ pc = "idle"
    /\ pc' = "strategy"
    /\ conn' = TRUE
    /\ leases' = <<>>
    /\ leasesThen' = <<>>
    /\ neighboursThen' = <<>>
    /\ heard' = {}
    /\ outcome' = "none"
    /\ answer' = <<>>
    /\ UNCHANGED <<setup, router>>

ConnectFails == pc = "idle" /\ Fails

(* file /usr/libexec/vyos/op_mode/show_dhcp.py *)
Strategy ==
    /\ pc = "strategy"
    /\ pc' = router.version
    /\ UNCHANGED <<setup, router, conn, leases, answer, outcome, then>>

NeighboursSwallowed ==  \* mutant of CommandFails
    \/ pc \in {"strategy", "equuleus", "sagitta"} /\ Fails
    \/ /\ pc = "neighbours"
       /\ Return("ok", [k \in DOMAIN leases |-> LeaseToEndpoint(leases[k])])
       /\ UNCHANGED <<setup, router, leases, then>>

CommandFails == pc \in {"strategy", "equuleus", "sagitta", "neighbours"} /\ Fails

(* After the leases: the neighbours, or the answer. *)
Got(ls) ==
    /\ leases' = ls
    /\ leasesThen' = router.leases
    /\ heard' = heard \cup {"leases"}
    /\ IF collect
       THEN pc' = "neighbours" /\ UNCHANGED <<conn, answer, outcome>>
       ELSE Return("ok", [k \in DOMAIN ls |-> LeaseToEndpoint(ls[k])])
    /\ UNCHANGED <<setup, router, neighboursThen>>

GetLeasesEquuleus ==
    /\ pc = "equuleus"
    /\ Got(LeasesFromJSON(router.leases))

GetLeasesSagitta ==
    LET lines == Lines(Output(router.leases)) IN
    /\ pc = "sagitta"
    /\ ~TooShort(lines)
    /\ ~Panics(lines)
    /\ Got(LeasesFromShowOutput(lines))

(* A slice out of range ends the process, and its connections. *)
TabulatePanics ==
    /\ pc = "sagitta"
    /\ Panics(Lines(Output(router.leases)))
    /\ pc' = "dead"
    /\ conn' = FALSE
    /\ leasesThen' = router.leases
    /\ heard' = heard \cup {"leases"}
    /\ UNCHANGED <<setup, router, leases, answer, outcome, neighboursThen>>

GetNeighbors ==
    LET neighbours == ParseNeighborLines(router.neighbours)
        associated == [k \in DOMAIN leases |-> AssociatePotentialIPv6s(leases[k], neighbours)]
    IN /\ pc = "neighbours"
       /\ leases' = associated
       /\ neighboursThen' = router.neighbours
       /\ heard' = heard \cup {"neighbours"}
       /\ Return("ok", [k \in DOMAIN associated |-> LeaseToEndpoint(associated[k])])
       /\ UNCHANGED <<setup, router, leasesThen>>

(* External: leases and neighbours come and go. *)
RouterGoesOn ==
    /\ router' \in {r \in Routers : r.version = router.version}
    /\ UNCHANGED <<setup, pc, conn, leases, answer, outcome, then>>

Restart ==
    /\ pc = "dead"
    /\ pc' = "idle"
    /\ UNCHANGED <<setup, router, conn, leases, answer, outcome, then>>

Next ==
    \/ Connect \/ ConnectFails
    \/ Strategy \/ CommandFails
    \/ GetLeasesEquuleus \/ GetLeasesSagitta \/ TabulatePanics
    \/ GetNeighbors
    \/ RouterGoesOn
    \/ Restart

Spec == Init /\ [][Next]_vars

-------------------------------------------------------------------------------
TypeOK ==
    /\ collect \in CollectModes
    /\ trim \in Trims
    /\ router \in Routers
    /\ pc \in {"idle", "strategy", "equuleus", "sagitta", "neighbours", "dead"}
    /\ conn \in BOOLEAN
    /\ \A k \in DOMAIN leases : DOMAIN leases[k] = {"ip", "mac", "host", "v6"}
    /\ \A k \in DOMAIN answer :
        /\ DOMAIN answer[k] = {"ip", "host", "v6"}
        /\ answer[k].v6 = Nil <=> ~collect
    /\ outcome \in {"none", "ok", "error"}
    /\ heard \subseteq {"leases", "neighbours"}

(* Whatever way the call ends, and a panic, the connection is closed.      *)
ConnectionsClosed == conn <=> pc \notin {"idle", "dead"}

(* The addresses lease l should have, of the router's neighbours ns.       *)
Seen(l, ns) ==
    {ns[k].to : k \in {j \in DOMAIN ns :
        /\ Fold[ns[j].lladdr] = Fold[l.mac.bytes]
        /\ ns[j].nud \in {<<"REACHABLE">>, <<"STALE">>}
        /\ ns[j].to \notin LinkLocal}}

(* What a text reads as: a table counts columns in characters and is read  *)
(* in bytes, so a name of more bytes than its column is wide is cut.       *)
Read(text, f) ==
    IF router.version = "equuleus" THEN text.bytes
    ELSE Trim(SubSeq(text.bytes, 1, Min({Len(text.bytes), Width(leasesThen, f)})))

(* An answer without an error is complete: the router has answered each    *)
(* command of this call, there is an endpoint for every lease it had when  *)
(* it listed them, in order, with that lease's address and name, and with  *)
(* exactly the usable IPv6 addresses of its hardware address when the      *)
(* neighbours were listed.  A call any command of which failed answers     *)
(* nothing, and never the leases without their neighbours.                 *)
AllHeard ==
    outcome = "ok" => heard = IF collect THEN {"leases", "neighbours"} ELSE {"leases"}

LeasesComplete ==
    outcome = "ok" =>
        /\ Len(answer) = Len(leasesThen)
        /\ \A k \in DOMAIN answer :
            /\ answer[k].ip = Read(leasesThen[k].ip, "ip")
            /\ answer[k].host = Read(leasesThen[k].host, "host")

NeighboursComplete ==
    outcome = "ok" =>
        \A k \in DOMAIN answer :
            IF collect
            THEN answer[k].v6 = Seen(leasesThen[k], neighboursThen)
            ELSE answer[k].v6 = Nil

ErrorsAnswerNothing == outcome = "error" => answer = <<>>

CompleteOrError == AllHeard /\ LeasesComplete /\ NeighboursComplete /\ ErrorsAnswerNothing

(* The only output that ends the process is a table of which a line was    *)
(* cut where its last cell is empty.                                       *)
PanicsExplained ==
    pc = "dead" =>
        /\ router.version = "sagitta"
        /\ \E k \in DOMAIN leasesThen :
            leasesThen[k].origin.bytes = Nothing /\ (trim \/ k = Len(leasesThen))
===============================================================================
