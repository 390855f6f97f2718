-------------------------------- MODULE Compare --------------------------------
(* The comparisons a filter of the JSONPath engine makes (internal/util/       *)
(* jsonpath/template/funcs.go): six operators over numbers of different Go     *)
(* kinds, strings, booleans, and everything else a document may hold.          *)
(*                                                                             *)
(* A string is its rank in the order of strings, a float its rank among the    *)
(* floats, NaN apart.  Any operands may meet: args is what a run compares.     *)
EXTENDS Integers, Sequences

CONSTANTS
    Half,           \* an int64 is less than this, and a uint64 less than twice
    Operands        \* the values compared

Kinds == {"bool", "complex", "float", "int", "string", "uint"}

(* basicKind.  Nil, lists and maps have none: they are "invalid".              *)
Arg == [kind : Kinds \cup {"invalid"}, num : Int, nan : BOOLEAN]

Fits(a) == /\ a.kind = "int"  => -Half <= a.num /\ a.num < Half
           /\ a.kind = "uint" => 0 <= a.num /\ a.num < 2 * Half
           /\ a.nan => a.kind \in {"float", "complex"}

ASSUME CompareAssumption ==
    /\ Half \in Nat
    /\ Operands \subseteq {a \in Arg : Fits(a)}

Is(b) == [pass |-> b, err |-> FALSE]
Bad   == [pass |-> FALSE, err |-> TRUE]

AsUint(n)  == IF n < 0 THEN n + 2 * Half ELSE n         \* uint64(v.Int())
Sound(a, b) == ~a.nan /\ ~b.nan
Both(a, b, ka, kb) == a.kind = ka /\ b.kind = kb

Equal(a, b) ==
    CASE a.kind = "invalid" \/ b.kind = "invalid" -> Bad
      [] Both(a, b, "int", "uint") -> Is(a.num >= 0 /\ AsUint(a.num) = b.num)
      [] Both(a, b, "uint", "int") -> Is(b.num >= 0 /\ a.num = AsUint(b.num))
      [] a.kind = b.kind /\ a.kind \in Kinds -> Is(Sound(a, b) /\ a.num = b.num)
      [] OTHER -> Bad

NotEqual(a, b) == [pass |-> ~Equal(a, b).pass, err |-> Equal(a, b).err]

(* Mutants: the sign is not looked at; booleans are ordered like numbers.      *)
LessUnsigned(a, b) ==
    CASE Both(a, b, "int", "uint") -> Is(AsUint(a.num) < b.num)
      [] Both(a, b, "uint", "int") -> Is(a.num < AsUint(b.num))
      [] a.kind = b.kind /\ a.kind \in {"float", "int", "string", "uint"} ->
             Is(Sound(a, b) /\ a.num < b.num)
      [] OTHER -> Bad

Less(a, b) ==
    CASE Both(a, b, "int", "uint") -> Is(a.num < 0 \/ AsUint(a.num) < b.num)
      [] Both(a, b, "uint", "int") -> Is(b.num >= 0 /\ a.num < AsUint(b.num))
      [] a.kind = b.kind /\ a.kind \in {"float", "int", "string", "uint"} ->
             Is(Sound(a, b) /\ a.num < b.num)
      [] OTHER -> Bad

(* Mutant: an error of Less is not looked at.                                  *)
LessEqualUnchecked(a, b) == IF Less(a, b).pass THEN Less(a, b) ELSE Equal(a, b)

LessEqual(a, b) == IF Less(a, b).pass \/ Less(a, b).err THEN Less(a, b) ELSE Equal(a, b)

(* Mutant: > taken for the inverse of <.                                       *)
NotLess(a, b) == IF Less(a, b).err THEN Bad ELSE Is(~Less(a, b).pass)

Greater(a, b) == IF LessEqual(a, b).err THEN Bad ELSE Is(~LessEqual(a, b).pass)

GreaterEqual(a, b) == IF Less(a, b).err THEN Bad ELSE Is(~Less(a, b).pass)

(* The switch of evalFilter (jsonpath.go): an operator it does not know.       *)
Operators == {"<", ">", "==", "!=", "<=", ">="}

Apply(op, a, b) ==
    CASE op = "<"  -> Less(a, b)      [] op = ">"  -> Greater(a, b)
      [] op = "==" -> Equal(a, b)     [] op = "!=" -> NotEqual(a, b)
      [] op = "<=" -> LessEqual(a, b) [] op = ">=" -> GreaterEqual(a, b)
      [] OTHER -> Bad
--------------------------------------------------------------------------------
VARIABLE args

Init == args = <<>>

(* Bound: three operands, as many as transitivity needs.                       *)
Next == Len(args) < 3 /\ \E a \in Operands : args' = Append(args, a)

Spec == Init /\ [][Next]_args

Compared == {args[n] : n \in DOMAIN args}

(* Integers compare by their values whatever their Go types, though one kind   *)
(* holds negative numbers and the other numbers no int64 holds: every one of   *)
(* the six operators passes exactly when it does for the numbers.              *)
Integer(a) == a.kind \in {"int", "uint"}

Exact(a, b) ==
    /\ Less(a, b)    = Is(a.num < b.num) /\ Equal(a, b)    = Is(a.num = b.num)
    /\ Greater(a, b) = Is(a.num > b.num) /\ NotEqual(a, b) = Is(a.num # b.num)
    /\ LessEqual(a, b) = Is(a.num <= b.num) /\ GreaterEqual(a, b) = Is(a.num >= b.num)

IntegersExact == \A a, b \in Compared : Integer(a) /\ Integer(b) => Exact(a, b)

Ordered(a, b) == ~Less(a, b).err /\ ~a.nan /\ ~b.nan

OneHolds(a, b) ==
    /\ Less(a, b).pass <=> Greater(b, a).pass
    /\ Less(a, b).pass \/ Less(b, a).pass <=> NotEqual(a, b).pass
    /\ ~(Less(a, b).pass /\ Less(b, a).pass)

(* Whether a comparison fails depends on the operands only, not on their order *)
(* nor on which ordering is asked for; what can be ordered can be equated.     *)
FailAlike(a, b) ==
    /\ \A op \in {"<=", ">", ">="} : Apply(op, a, b).err = Less(a, b).err
    /\ \A op \in Operators : Apply(op, a, b).err = Apply(op, b, a).err
    /\ NotEqual(a, b).err = Equal(a, b).err
    /\ Equal(a, b).err => Less(a, b).err

ErrorsAlike == \A a, b \in Compared : FailAlike(a, b)

Transitive(a, b, c) ==
    /\ Less(a, b).pass /\ Less(b, c).pass => Less(a, c).pass
    /\ Equal(a, b).pass /\ Less(b, c).pass => Less(a, c).pass
    /\ Equal(a, b).pass /\ Equal(b, c).pass => Equal(a, c).pass

(* The operators agree on one order.  Of two operands that can be ordered, and *)
(* are not NaN, exactly one is less, or they are equal, so no element escapes  *)
(* both a filter and its opposite; and less is transitive, also across kinds,  *)
(* and respects equality.                                                      *)
TotalOrder ==
    /\ \A a, b \in Compared : Ordered(a, b) => OneHolds(a, b)
    /\ \A a, b, c \in Compared : Transitive(a, b, c)
================================================================================
