------------------------------- MODULE Tabulate -------------------------------
(***************************************************************************)
(* TabulateParse of source/vyos/tabulate_parse.go: a table as Python's     *)
(* tabulate prints it, read back by byte offsets.  A line is a sequence of *)
(* bytes; offsets count from 0 and a column is start <= offset < end, as   *)
(* in the code.                                                            *)
(***************************************************************************)
EXTENDS Naturals, Sequences, FiniteSetsExt

Dash == "-"
Blank == " "

(* strings.TrimSpace *)
Solid(s) == {i \in DOMAIN s : s[i] # Blank}
Trim(s) == IF Solid(s) = {} THEN <<>> ELSE SubSeq(s, Min(Solid(s)), Max(Solid(s)))
TrimRight(s) == IF Solid(s) = {} THEN <<>> ELSE SubSeq(s, 1, Max(Solid(s)))

(* The columns of the rule in line 2: one for each longest run of dashes,  *)
(* and at the end always one more than the runs that something follows,    *)
(* which is empty when the line does not end in a dash.                    *)
Dashes(l, c) == \A j \in c.start + 1..c.end : l[j] = Dash
StartsRun(l, c) == c.start = 0 \/ l[c.start] # Dash
Columns(l) ==
    {c \in [start : 0..Len(l), end : 0..Len(l)] :
        /\ c.start <= c.end
        /\ Dashes(l, c)
        /\ StartsRun(l, c)
        /\ \/ c.end = Len(l)
           \/ c.start < c.end /\ l[c.end + 1] # Dash}

(* line[column.start:min(len(line), column.end)] panics when the line ends *)
(* before the column starts.                                               *)
UpToEnd(line, c) == c.end > Len(line)  \* mutant of OutOfRange
OutOfRange(line, c) == c.start > Len(line)
Cell(line, c) == Trim(SubSeq(line, c.start + 1, Min({Len(line), c.end})))

TooShort(lines) == Len(lines) < 2
Panics(lines) ==
    ~TooShort(lines) /\ \E c \in Columns(lines[2]), k \in DOMAIN lines \ {2} : OutOfRange(lines[k], c)

(* row[header] of a line; of columns with one header the last counts, and  *)
(* a header the table does not have reads as the empty string.             *)
Field(lines, line, header) ==
    LET fitting == {c \in Columns(lines[2]) : Cell(lines[1], c) = header} IN
    IF fitting = {} THEN <<>>
    ELSE Cell(line, CHOOSE c \in fitting : \A d \in fitting : d.end <= c.end)
===============================================================================
