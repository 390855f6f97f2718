------------------------------ MODULE MCArrayNode ------------------------------
(* Instances of ArrayNode: every subscript over a few numbers around zero,     *)
(* around the list lengths and around the end of the int range, and unions of  *)
(* two, on up to two values.                                                   *)
EXTENDS ArrayNode, SequencesExt, FiniteSetsExt

Opt(S)     == {<<>>} \cup {<<n>> : n \in S}
NoPart     == [colon |-> FALSE, num |-> <<>>]
Part(S)    == {[colon |-> TRUE, num |-> x] : x \in Opt(S)}
Sub(a, b, c) == [start |-> a, stop |-> b, step |-> c]

Numbers == {-4, -1, 0, 1, 3, 7, 8}
Steps   == {0, 2, 7}

Indices == {Sub(a, NoPart, NoPart) : a \in Opt(Numbers)}
Slices  == {Sub(a, b, c) : a \in Opt(Numbers), b \in Part(Numbers),
                           c \in {NoPart} \cup {[colon |-> TRUE, num |-> <<n>>] : n \in Steps}}
Few     == {s \in Indices : s.start \in {<<0>>, <<-1>>, <<7>>}}
           \cup {s \in Slices : /\ s.start \in {<<>>, <<1>>}
                                /\ s.stop.num \in {<<>>, <<1>>}
                                /\ s.step = NoPart}

MCSubscripts == {<<s>> : s \in Indices \cup Slices} \cup {<<s, t>> : s, t \in Few}
MCInputs     == BoundedSeq(Value, 2)
================================================================================
