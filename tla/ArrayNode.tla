------------------------------- MODULE ArrayNode -------------------------------
(* Array subscripts of the JSONPath engine: how the parser turns the text      *)
(* between brackets into an ArrayNode (parseArray, internal/util/jsonpath/     *)
(* parser.go) and how evalArray and evalUnion (jsonpath.go) select elements    *)
(* with it.  "[1]", "[-1]", "[1:3]", "[::2]" and "[*]" are ArrayNodes; "[0,2]" *)
(* is a union of them.                                                         *)
(*                                                                             *)
(* Only the shape of a value matters here: a nil, the invalid reflect.Value    *)
(* that reflect.ValueOf(nil) is, a list with a length, or something else.  An  *)
(* element is named by where it is: <<k, i>> is element i of input k.          *)
EXTENDS SliceParams

CONSTANTS
    MaxLen,         \* bound: the longest list
    Subscripts,     \* the sequences of subscripts between brackets, parsed
    Inputs          \* the sequences of values they are evaluated on

Kinds == {"nil", "invalid", "other", "list"}
Value == {v \in [kind : Kinds, len : 0..MaxLen] : v.kind # "list" => v.len = 0}

(* Lists held in memory are shorter than half of the int range.                *)
ASSUME ArrayAssumption ==
    /\ MaxInt \in Nat
    /\ MaxLen \in Nat
    /\ 2 * MaxLen <= MaxInt
    /\ Subscripts \subseteq Seq(Subscript)
    /\ Inputs \subseteq Seq(Value)

--------------------------------------------------------------------------------
VARIABLES
    pc,         \* "parse", then a loop of the evaluator, then how it ended
    subs,       \* the subscripts between the brackets
    input,      \* the values they are evaluated on
    m,          \* the member of the union being evaluated
    k,          \* the input evalArray is looking at
    i,          \* the inner loop's index into value.Slice(from, to)
    result,     \* evalArray's result
    union,      \* evalUnion's result
    returned    \* what the caller is given

vars == <<pc, subs, input, m, k, i, result, union, returned>>

Elements == Nat \X Int

(* `return input, err`: every input value, instead of a selection.             *)
WholeInput == [a \in 1..Len(input) |-> <<a>>]

params == ParseArray(subs[m])
value  == input[k]
from   == From(params, value.len)
to     == To(params, value.len)

Init ==
    /\ pc = "parse"
    /\ subs \in Subscripts
    /\ input \in Inputs
    /\ m = 1
    /\ k = 1
    /\ i = 0
    /\ result = <<>>
    /\ union = <<>>
    /\ returned = <<>>

Parse ==
    /\ pc = "parse"
    /\ pc' = IF \A a \in 1..Len(subs) : Parses(subs[a]) THEN "union" ELSE "syntax error"
    /\ UNCHANGED <<subs, input, m, k, i, result, union, returned>>

(* evalUnion: the next member starts with the same input, or all are done.     *)
NextMember ==
    /\ pc = "union"
    /\ m <= Len(subs)
    /\ k' = 1
    /\ result' = <<>>
    /\ pc' = "range"
    /\ UNCHANGED <<subs, input, m, i, union, returned>>

Done ==
    /\ pc = "union"
    /\ m > Len(subs)
    /\ returned' = union
    /\ pc' = "ok"
    /\ UNCHANGED <<subs, input, m, k, i, result, union>>

(* `return result, nil`: evalUnion appends what evalArray returned.            *)
ReturnResult ==
    /\ union' = union \o result
    /\ m' = m + 1
    /\ pc' = "union"
    /\ UNCHANGED <<subs, input, k, i, result, returned>>

Fail(status) ==
    /\ returned' = WholeInput
    /\ pc' = status
    /\ UNCHANGED <<subs, input, m, k, i, result, union>>

EndRange ==
    /\ pc = "range"
    /\ k > Len(input)
    /\ ReturnResult

SkipNil ==
    /\ pc = "range"
    /\ k <= Len(input)
    /\ value.kind = "nil"
    /\ k' = k + 1
    /\ UNCHANGED <<pc, subs, input, m, i, result, union, returned>>

(* Not a list: an error whose text asks for value.Type(), which panics on the  *)
(* invalid Value.                                                              *)
NotAList ==
    /\ pc = "range"
    /\ k <= Len(input)
    /\ value.kind \in {"invalid", "other"}
    /\ Fail(IF value.kind = "invalid" THEN "panic" ELSE "error")

(* "if you're requesting zero elements, allow it through": evalArray returns   *)
(* what it has, without looking at the remaining inputs.                       *)
ZeroSelection ==
    /\ pc = "range"
    /\ k <= Len(input)
    /\ value.kind = "list"
    /\ ZeroElements(params, value.len)
    /\ ReturnResult

OutOfBounds ==
    /\ pc = "range"
    /\ k <= Len(input)
    /\ value.kind = "list"
    /\ ~ZeroElements(params, value.len)
    /\ ~Bounded(params, value.len) \/ BadStep(params)
    /\ Fail("error")

(* Mutant: the index starts at from, as if into the list and not the slice.    *)
SliceFromStart ==
    /\ pc = "range"
    /\ k <= Len(input)
    /\ value.kind = "list"
    /\ ~ZeroElements(params, value.len)
    /\ Bounded(params, value.len)
    /\ ~BadStep(params)
    /\ i' = from
    /\ pc' = "step"
    /\ UNCHANGED <<subs, input, m, k, result, union, returned>>

Slice ==
    /\ pc = "range"
    /\ k <= Len(input)
    /\ value.kind = "list"
    /\ ~ZeroElements(params, value.len)
    /\ Bounded(params, value.len)
    /\ ~BadStep(params)
    /\ i' = 0
    /\ pc' = "step"
    /\ UNCHANGED <<subs, input, m, k, result, union, returned>>

(* `for i := 0; i < value.Len(); i += step`, over the slice from..to-1; a      *)
(* negative index would panic in value.Index.                                  *)
Element ==
    /\ pc = "step"
    /\ i < to - from
    /\ result' = Append(result, <<k, from + i>>)
    /\ i' = Add(i, StepOf(params))
    /\ UNCHANGED <<pc, subs, input, m, k, union, returned>>

(* Mutant: the loop ends at i = value.Len() only, which a step may pass over;  *)
(* the code would panic behind it.                                             *)
EndStepExactly ==
    /\ pc = "step" /\ i = to - from
    /\ k' = k + 1
    /\ pc' = "range"
    /\ UNCHANGED <<subs, input, m, i, result, union, returned>>

EndStep ==
    /\ pc = "step"
    /\ i >= to - from
    /\ k' = k + 1
    /\ pc' = "range"
    /\ UNCHANGED <<subs, input, m, i, result, union, returned>>

Next ==
    \/ Parse
    \/ NextMember \/ Done
    \/ EndRange \/ SkipNil \/ NotAList \/ ZeroSelection \/ OutOfBounds \/ Slice
    \/ Element \/ EndStep

Spec     == Init /\ [][Next]_vars
FairSpec == Spec /\ WF_vars(Next)       \* sequential code: the next step is taken
--------------------------------------------------------------------------------
Stopped == {"syntax error", "ok", "error", "panic"}

(* The evaluator's locals have their Go types; in particular the inner loop's  *)
(* index never wraps around to a negative int.                                 *)
TypeOK ==
    /\ pc \in {"parse", "union", "range", "step"} \cup Stopped
    /\ subs \in Subscripts
    /\ input \in Inputs
    /\ m \in 1..(Len(subs) + 1)
    /\ k \in 1..(Len(input) + 1)
    /\ i \in 0..MaxInt
    /\ result \in Seq(Elements)
    /\ union \in Seq(Elements)

(* Every element a selection names exists: neither value.Slice nor value.Index *)
(* is ever called out of range, whatever the three numbers are.                *)
InBounds ==
    \A e \in 1..Len(result) :
        /\ result[e][1] \in 1..Len(input)
        /\ input[result[e][1]].kind = "list"
        /\ result[e][2] \in 0..(input[result[e][1]].len - 1)

(* "[n]" selects exactly one element of each list, counted from the end when n *)
(* is negative, or fails: it is never mistaken for an empty selection.  The    *)
(* derived stop, n+1, is 0 for "[-1]" and wraps around for the largest int.    *)
TheIndex(sub, n) == LET p == NumberEntry(sub.start).value
                    IN  IF p < 0 THEN p + n ELSE p

IndexSelectsOne ==
    pc = "range" /\ IsIndex(subs[m]) =>
        /\ \A e, f \in 1..Len(result) : result[e][1] = result[f][1] => e = f
        /\ {result[e] : e \in 1..Len(result)} =
               {<<a, TheIndex(subs[m], input[a].len)>> :
                    a \in {b \in 1..(k - 1) : input[b].kind = "list"}}
        /\ k <= Len(input) /\ value.kind = "list" => ~ZeroElements(params, value.len)

(* What a subscript stands for in a list of n elements, by the usual           *)
(* definition of a slice: every step-th position from the start up to the stop.*)
Position(x, n, default) == IF x = <<>> THEN default
                           ELSE IF x[1] < 0 THEN x[1] + n ELSE x[1]

Selects(sub, n, e) ==
    IF IsIndex(sub) THEN e = Position(sub.start, n, 0)
    ELSE LET lo == Position(sub.start, n, 0)
             hi == Position(sub.stop.num, n, n)
             st == IF sub.step.num = <<>> THEN 1 ELSE sub.step.num[1]
         IN  e < hi /\ \E j \in 0..n : e = lo + j * st

Chosen(sub) ==
    {p \in (1..Len(input)) \X (0..MaxLen) :
        input[p[1]].kind = "list" /\ Selects(sub, input[p[1]].len, p[2])}

Precedes(p, q) == p[1] < q[1] \/ (p[1] = q[1] /\ p[2] < q[2])

(* s[lo + 1], ..., s[hi]: what a subscript selects, list by list, in order.    *)
Selection(sub, s, lo, hi) ==
    /\ \A e, f \in (lo + 1)..hi : e < f => Precedes(s[e], s[f])
    /\ {s[e] : e \in (lo + 1)..hi} = Chosen(sub)

(* s: the selections of the first n subscripts, one after the other.           *)
Selections(n, s) ==
    \E cut \in [0..n -> 0..Len(s)] :
        /\ cut[0] = 0 /\ cut[n] = Len(s)
        /\ \A a \in 1..n : /\ cut[a - 1] <= cut[a]
                          /\ Selection(subs[a], s, cut[a - 1], cut[a])

NothingEmpty ==
    \A a \in 1..Len(subs), b \in 1..Len(input) :
        input[b].kind = "list" =>
            ~ZeroElements(ParseArray(subs[a]), input[b].len)

(* When no list is asked for zero elements, a union of subscripts that does    *)
(* not fail selects what its members select from each list, in that order.     *)
MatchesSlices == pc = "ok" /\ NothingEmpty => Selections(Len(subs), returned)

(* "if you're requesting zero elements, allow it through": asking one list for *)
(* an empty slice contributes nothing, and the other lists keep their share.   *)
EmptySliceAllowed == pc = "ok" => Selections(Len(subs), returned)

(* Evaluation ends, and not by a panic in the middle of a slice: a step of     *)
(* zero or less never reaches the inner loop, and one past the end leaves it.  *)
Terminates == <>(pc \in Stopped)
================================================================================
