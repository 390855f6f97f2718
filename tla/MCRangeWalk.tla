------------------------------ MODULE MCRangeWalk ------------------------------
(* Instances of RangeWalk: every template of up to MaxNodes nodes over a small *)
(* alphabet, on a document whose lists are empty, single or longer depending   *)
(* on where they are.                                                          *)
EXTENDS RangeWalk

CONSTANTS MaxNodes, MaxMixed      \* bounds: the longest templates

Action(cmd, expr, fan) == [cmd |-> cmd, expr |-> expr, fan |-> fan]

End        == Action("end", "self", <<>>)
Name       == Action("value", "field", <<1, 0>>)         \* {.name}
Range2     == Action("range", "list", <<2, 0>>)          \* {range .items[*]}
RangeUp    == Action("range", "list", <<1, 2>>)
RangeNone  == Action("range", "list", <<0, 0>>)          \* over an empty list
First      == Action("value", "index", <<1, 1>>)         \* {@[0]}
RangeSelf  == Action("range", "self", <<>>)              \* {range @}
Absent     == Action("value", "index", <<1, -1>>)        \* fails on the second
Typo       == Action("unknown", "self", <<>>)
Comma      == Action("value", "text", <<>>)

LoopAlphabet  == {Name, Range2, RangeUp, End}
MixedAlphabet == {First, RangeSelf, RangeNone, Range2, Absent, Typo, Comma, End}

MCTemplates == BoundedSeq(LoopAlphabet, MaxNodes) \cup BoundedSeq(MixedAlphabet, MaxMixed)
--------------------------------------------------------------------------------
(* Does one of the nodes fail on a value it is really evaluated on?            *)
RECURSIVE Breaks(_, _, _)
Breaks(a, b, v) ==
    /\ a <= b
    /\ \/ template[a].cmd = "unknown"
       \/ Eval(template[a], v).st # "ok"
       \/ IF template[a].cmd = "range"
          THEN LET vals == Eval(template[a], v).vals
                   e    == MatchingEnd(template, a)
               IN  \/ \E c \in 1..Len(vals) : Breaks(a + 1, e - 1, vals[c])
                   \/ Breaks(e + 1, b, v)
          ELSE Breaks(a + 1, b, v)

(* "If the range has no results, we still need to process the nodes within the *)
(* range so the position will advance to the end node": that, and no more.  A  *)
(* balanced template fails only if a node fails on a value of the document.    *)
EmptyRangeHarmless ==
    calls = 1 /\ status \in {"error", "panic"} /\ Balanced(template) =>
        Breaks(1, Len(template), Root)
================================================================================
