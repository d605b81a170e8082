------------------------------- MODULE LuaCalls -------------------------------
(***************************************************************************)
(* The calls the control loop makes into the Lua state of the              *)
(* configuration: an endpoint filter (config/config.go), the function of a *)
(* custom source (source/custom), of a custom provider (provider/custom)   *)
(* and the generate function of a file (provider/file).                    *)
(*                                                                         *)
(* Each runs its function in a new coroutine and resumes it until it       *)
(* returns, looking at the values of every resumption; what it keeps of    *)
(* them differs.  A custom provider hands its filters to its function, so  *)
(* a filter may run nested in it.                                          *)
(***************************************************************************)
EXTENDS Integers, Sequences, SequencesExt

CONSTANTS
    Tables, Malformed,  \* tables a function may return; those with an element that is no table
    Strings,
    Lists,              \* what one resumption may hand over
    MaxResumes          \* bound: resumptions of one coroutine; one that has yielded so
                        \* often goes no further, like one that yields for ever

Kinds == {"filter", "source", "provider", "generate"}

Value == [type : {"nil"}, val : {"nil"}]
         \cup [type : {"boolean"}, val : {"true", "false"}]
         \cup [type : {"table"}, val : Tables]
         \cup [type : {"string"}, val : Strings]
True == [type |-> "boolean", val |-> "true"]
Nothing == [type |-> "nil", val |-> "nil"]

ASSUME TablesAssumption == Malformed \subseteq Tables
ASSUME ListsAssumption ==
    Lists \subseteq Seq(Value) /\ <<>> \notin Lists  \* external: Resume hands over at least nil
ASSUME ResumesAssumption == MaxResumes \in Nat \ {0}

VARIABLES
    up,     \* the process has not been killed by a panic
    stack,  \* the calls under way, the innermost last
    last    \* the call that has just ended, and what its coroutine handed over

luaVars == <<up, stack, last>>

(* The type of the values a call is after. *)
Wanted(kind) ==
    CASE kind = "filter" -> "boolean" [] kind = "source" -> "table"
      [] kind = "generate" -> "string" [] kind = "provider" -> "none"

-------------------------------------------------------------------------------
(* A call under way: what it has kept, and every list handed over so far.  *)
KeptFromBefore(kind) ==  \* mutant of NewCall
    [kind |-> kind, seen |-> <<>>,
     kept |-> IF kind = last.kind THEN last.kept
              ELSE IF kind = "filter" THEN True ELSE Nothing]

NewCall(kind) ==
    [kind |-> kind, seen |-> <<>>, kept |-> IF kind = "filter" THEN True ELSE Nothing]

(* The positions of the values a call of this kind is after, and the last  *)
(* of these values.                                                        *)
Fits(kind, values) == {i \in DOMAIN values : values[i].type = Wanted(kind)}
LastFit(kind, values) == values[Max(Fits(kind, values))]

(* Of the values of one resumption a filter and a source keep the last one *)
(* of their type, and what they had if there is none; generate takes the   *)
(* first.                                                                  *)
Keep(c, values) ==
    IF c.kind = "generate" THEN values[1]
    ELSE IF Fits(c.kind, values) = {} THEN c.kept ELSE LastFit(c.kind, values)

Resumed(c, values) ==
    [kind |-> c.kind, seen |-> Append(c.seen, values), kept |-> Keep(c, values)]

Usable(c, values) == c.kind = "generate" => values[1].type = "string"

(* What a call that ran to its end answers. *)
Answer(c) ==
    CASE c.kind = "provider" -> "ok"
      [] c.kind = "source" ->
            IF c.kept = Nothing \/ c.kept.val \in Malformed THEN "error" ELSE c.kept.val
      [] OTHER -> c.kept.val

Ended(c, answer) == [kind |-> c.kind, seen |-> c.seen, kept |-> c.kept, answer |-> answer]

-------------------------------------------------------------------------------
NoCall == Ended([kind |-> "none", seen |-> <<>>, kept |-> Nothing], "none")

InitCalls ==
    /\ up = TRUE
    /\ stack = <<>>
    /\ last = NoCall

Top == Last(stack)
Running == up /\ stack # <<>> /\ Len(Top.seen) < MaxResumes

Call(kind) ==
    /\ up
    /\ stack = <<>>
    /\ stack' = <<NewCall(kind)>>
    /\ last' = NoCall
    /\ UNCHANGED up

FilterInAny ==  \* mutant of CallFilter
    /\ up
    /\ Len(stack) = 1
    /\ stack' = Append(stack, NewCall("filter"))
    /\ last' = NoCall
    /\ UNCHANGED up

(* configLt.forward_lookup_filter and reverse_lookup_filter. *)
CallFilter ==
    /\ up
    /\ Len(stack) = 1
    /\ Top.kind = "provider"
    /\ stack' = Append(stack, NewCall("filter"))
    /\ last' = NoCall
    /\ UNCHANGED up

Yield(values) ==
    /\ Running
    /\ Usable(Top, values)
    /\ stack' = Append(Front(stack), Resumed(Top, values))
    /\ last' = NoCall
    /\ UNCHANGED up

Return(values) ==
    /\ Running
    /\ Usable(Top, values)
    /\ stack' = Front(stack)
    /\ last' = LET c == Resumed(Top, values) IN Ended(c, Answer(c))
    /\ UNCHANGED up

(* generate yields or returns something else than a string. *)
WrongType(values) ==
    /\ Running
    /\ ~Usable(Top, values)
    /\ stack' = Front(stack)
    /\ last' = Ended(Resumed(Top, values), "error")
    /\ UNCHANGED up

(* The function raises an error, which the call returns. *)
RuntimeError ==
    /\ Running
    /\ Top.kind # "filter"
    /\ stack' = Front(stack)
    /\ last' = Ended(Top, "raised")
    /\ UNCHANGED up

(* A filter turns an error of its function into a panic of Go.  Nothing    *)
(* recovers it when the loop called the filter; when a custom provider's   *)
(* function did, the Lua machine in between may (external), and the        *)
(* provider's function sees an error.                                      *)
FilterPanics ==
    /\ Running
    /\ Top.kind = "filter"
    /\ last' = Ended(Top, "panic")
    /\ \/ /\ up' = FALSE
          /\ stack' = <<>>
       \/ /\ Len(stack) = 2
          /\ stack' = Front(stack)
          /\ UNCHANGED up

Step ==
    \/ CallFilter
    \/ \E values \in Lists : Yield(values) \/ Return(values) \/ WrongType(values)
    \/ RuntimeError
    \/ FilterPanics

-------------------------------------------------------------------------------
Called == [kind : Kinds, seen : Seq(Lists), kept : Value]
Answers == Tables \cup Strings \cup {"true", "false", "ok", "error", "raised", "panic"}

CallsTypeOK ==
    /\ up \in BOOLEAN
    /\ stack \in Seq(Called)
    /\ Len(stack) <= 2
    /\ Len(stack) = 2 => stack[1].kind = "provider" /\ stack[2].kind = "filter"
    /\ last.kind \in Kinds => last.answer \in Answers

(* The resumptions that handed over a value the call was after, and the    *)
(* last such value of the whole coroutine.                                 *)
Decisive(c) == {r \in DOMAIN c.seen : Fits(c.kind, c.seen[r]) # {}}
LastFitting(c) == LastFit(c.kind, c.seen[Max(Decisive(c))])

(* The answer the values a call's own coroutine handed over decide.        *)
Decided(c) ==
    CASE c.kind = "filter" ->
            IF Decisive(c) = {} THEN "true" ELSE LastFitting(c).val
      [] c.kind = "source" ->
            IF Decisive(c) = {} \/ LastFitting(c).val \in Malformed
            THEN "error" ELSE LastFitting(c).val
      [] c.kind = "generate" ->
            IF \E k \in DOMAIN c.seen : c.seen[k][1].type # "string"
            THEN "error" ELSE Last(c.seen)[1].val
      [] c.kind = "provider" -> "ok"

(* What a call answers is decided by the values its own coroutine handed   *)
(* over, at whichever resumption, and by nothing an earlier or an          *)
(* enclosing call left behind: a filter by the last boolean, TRUE when     *)
(* there is none; a source by the last table, which must be well formed;   *)
(* generate by the first value of the last resumption, and every           *)
(* resumption must begin with a string.                                    *)
AnswersAreOfThisCall ==
    last.answer \notin {"none", "raised", "panic"} => last.answer = Decided(last)
===============================================================================
