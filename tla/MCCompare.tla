------------------------------- MODULE MCCompare -------------------------------
(* Every integer of three bits, signed and unsigned, and some of each other    *)
(* kind, compared in all combinations of three.                                *)
EXTENDS Compare

Of(kind, nums) == {[kind |-> kind, num |-> n, nan |-> FALSE] : n \in nums}
NaN(kind)      == [kind |-> kind, num |-> 0, nan |-> TRUE]

MCOperands == Of("int", -Half..(Half - 1)) \cup Of("uint", 0..(2 * Half - 1))
              \cup Of("float", 0..2) \cup Of("string", 0..2) \cup Of("bool", 0..1)
              \cup Of("complex", 0..1) \cup Of("invalid", {0})
              \cup {NaN("float"), NaN("complex")}
================================================================================
