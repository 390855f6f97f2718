------------------------------ MODULE EvalMeaning ------------------------------
(* What the expressions of Eval denote, value by value and depth first.        *)
(*                                                                             *)
(* An outcome is a value or a failure; a list of nodes denotes, for one value, *)
(* the sequence of its outcomes.  A field that is missing denotes nothing.     *)
EXTENDS Eval, FiniteSets, SequencesExt

CONSTANTS
    Failure,        \* the outcome that is not a value
    Size            \* larger for a list than for what is nested in it

Nested(n) == IF n.type = "filter" THEN {n.left, n.right}
             ELSE IF n.type = "union" THEN Range(n.members) ELSE {}

(* Documents are finite, and so is what the parser makes of a text.            *)
ASSUME MeaningAssumption ==
    /\ Failure \notin Seq(Steps)
    /\ \A d \in Documents : IsFiniteSet(DOMAIN d)
    /\ Size \in [Lists -> Nat]
    /\ \A l \in Lists :
           /\ Len(l) <= Size[l]
           /\ \A s \in DOMAIN l : \A o \in Nested(l[s]) : Len(l) + Size[o] <= Size[l]

Outcomes(d) == DOMAIN d \cup {Failure}
Fails(r)    == Failure \in Range(r)
Each(F, s)  == FlattenSeq([i \in 1..Len(s) |-> F[s[i]]])

Kids(d, v) == [s \in DOMAIN d[v].kids |-> Append(v, d[v].kids[s])]

FieldOf(d, v, name) ==
    IF d[v].kind = "map" /\ name \in Range(d[v].kids) THEN <<Append(v, name)>> ELSE <<>>

(* The values with contents from v down, each before what is in it.            *)
Descent(d) ==
    LET below[v \in DOMAIN d] ==
            IF d[v].kids = <<>> THEN <<>> ELSE <<v>> \o Each(below, Kids(d, v))
    IN  below

(* Every step-th position from the start up to the stop.                       *)
Chosen(p, n, s) == /\ From(p, n) < s /\ s <= To(p, n)
                   /\ (s - 1 - From(p, n)) % StepOf(p) = 0

Subscripted(d, p, v) ==
    LET n == Len(d[v].kids)
    IN  IF d[v].kind = "null" THEN <<>>
        ELSE IF d[v].kind # "list" THEN <<Failure>>
        ELSE IF ZeroElements(p, n) THEN <<>>
        ELSE IF ~Bounded(p, n) \/ BadStep(p) THEN <<Failure>>
        ELSE FlattenSeq([s \in 1..n |-> IF Chosen(p, n, s) THEN <<Kids(d, v)[s]>> ELSE <<>>])

(* The nodes of a list, from one of them on.                                   *)
Tails == Lists \X (Nat \ {0})

Shown(d, v) == [kind |-> IF d[v].kind \in Contents THEN "invalid" ELSE d[v].kind,
                num |-> d[v].num, nan |-> FALSE]

(* An element stays if its operand exists, or compares; one without an operand *)
(* goes, and what cannot be compared is a failure.  M: what lists denote.      *)
Test(d, M, n, e) ==
    LET l == M[<<n.left, 1>>][e]
        r == M[<<n.right, 1>>][e]
        v == C!Apply(n.op, Shown(d, l[1]), Shown(d, r[1]))
    IN  IF n.op = "exists" THEN IF ~Fails(l) /\ l # <<>> THEN <<e>> ELSE <<>>
        ELSE IF Fails(l) \/ Len(l) > 1 THEN <<Failure>>
        ELSE IF l = <<>> THEN <<>>
        ELSE IF Fails(r) \/ Len(r) > 1 THEN <<Failure>>
        ELSE IF r = <<>> THEN <<>>
        ELSE IF v.err THEN <<Failure>>
        ELSE IF v.pass THEN <<e>> ELSE <<>>

Tests(d, M, n) == [e \in DOMAIN d |-> Test(d, M, n, e)]

Means(d, M, n, v) ==
    CASE n.type = "field"      -> FieldOf(d, v, n.name)
      [] n.type = "wildcard"   -> Kids(d, v)
      [] n.type = "recursive"  -> Descent(d)[v]
      [] n.type = "array"      -> Subscripted(d, n.params, v)
      [] n.type = "filter"     -> IF d[v].kind # "list" THEN <<Failure>>
                                  ELSE Each(Tests(d, M, n), Kids(d, v))
      [] n.type = "union"      -> FlattenSeq([s \in DOMAIN n.members |-> M[<<n.members[s], 1>>][v]])
      [] n.type = "identifier" -> <<Failure>>
      [] OTHER                 -> <<n.lit>>

Follow(d, M, t, v) ==
    IF v = Failure THEN <<Failure>>
    ELSE IF t[2] > Len(t[1]) THEN <<v>>
    ELSE Each(M[<<t[1], t[2] + 1>>], Means(d, M, t[1][t[2]], v))

Denoted(d) ==
    LET den[t \in Tails] == [v \in Outcomes(d) |-> Follow(d, den, t, v)]
    IN  den

Meaning(s) == Denoted(doc)[<<template[s], 1>>][Root]

Count(s, v)   == Cardinality({i \in DOMAIN s : s[i] = v})
SameBag(s, t) == \A v \in Range(s) \cup Range(t) : Count(s, v) = Count(t, v)

(* Results come in document order where the code can promise it: without a     *)
(* union, which goes by members, and with one entry in each map.               *)
OneEntry(d)   == \A p \in DOMAIN d : d[p].kind = "map" => Len(d[p].kids) <= 1
NoUnion(list) == \A t \in DOMAIN list : list[t].type # "union"

(* The evaluator, which carries whole lists of values from node to node and    *)
(* meets map entries in any order, yields for every value on its own what the  *)
(* expression denotes for it, neither more nor less, nulls included, and in    *)
(* document order where that is defined, unless an empty selection cut a loop  *)
(* short.  With AllowMissingKeys it fails only where the expression denotes a  *)
(* failure: a subscript or filter on something that is not a list, an index    *)
(* out of bounds, operands that cannot be compared.                            *)
Denotes ==
    /\ mode = "ok" /\ ~cut =>
          /\ Len(full) = Len(template)
          /\ \A s \in DOMAIN full :
                 /\ ~Fails(Meaning(s))
                 /\ SameBag(full[s], Meaning(s))
                 /\ OneEntry(doc) /\ NoUnion(template[s]) => full[s] = Meaning(s)
    /\ mode = "error" /\ allow => \E s \in DOMAIN template : Fails(Meaning(s))

(* Where evaluation list by list is evaluation value by value.  Text and       *)
(* keywords do not look at their input: they stand first, for a single value.  *)
(* An exists-filter does not look at its operand's error: its operand is a     *)
(* path that has none but a missing field.                                     *)
Blind == {"text", "identifier"}

Regular ==
    /\ \A l \in Lists : \A s \in DOMAIN l : l[s].type \in Blind => s = 1
    /\ \A n \in Nodes : n.type = "union" =>
           \A s \in DOMAIN n.members :
               n.members[s] # <<>> => n.members[s][1].type \notin Blind
    /\ \A n \in Nodes : n.type = "filter" /\ n.op = "exists" => Tolerant(n.left)
================================================================================
