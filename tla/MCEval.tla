--------------------------------- MODULE MCEval ---------------------------------
(* Instances of Eval: small documents with every kind of value, and node lists *)
(* with every kind of node.                                                    *)
EXTENDS EvalMeaning

CONSTANTS a, b,         \* keys
          literal,      \* where the literals of expressions stand
          Depth         \* bound: the longest list of nodes

(* Documents, written as trees: the contents of a value and what is in it.     *)
Leaf(kind, num) == [kind |-> kind, num |-> num, steps |-> <<>>, in |-> <<>>]
ListOf(in)      == [kind |-> "list", num |-> 0, steps |-> [s \in DOMAIN in |-> s], in |-> in]
MapOf(keys, in) == [kind |-> "map", num |-> 0, steps |-> keys, in |-> in]
Str(rank)       == [kind |-> "string", num |-> rank, steps |-> <<1>>,
                    in |-> <<Leaf("uint", rank)>>]

(* The tree at the end of a path, and all places of a tree; a tree is no       *)
(* deeper than 5.                                                              *)
Child(tree, step) == tree.in[CHOOSE s \in DOMAIN tree.steps : tree.steps[s] = step]
AtEnd(tree, path) == FoldLeft(Child, tree, path)

Places(tree) ==
    LET level[n \in 0..5] ==
            IF n = 0 THEN {<<>>}
            ELSE UNION {{Append(p, step) : step \in Range(AtEnd(tree, p).steps)} : p \in level[n - 1]}
    IN  UNION {level[n] : n \in 0..5}

Lay(tree, root) ==
    [p \in {root \o q : q \in Places(tree)} |->
        LET t == AtEnd(tree, SubSeq(p, Len(root) + 1, Len(p)))
        IN  [kind |-> t.kind, num |-> t.num, kids |-> t.steps]]

Null == Leaf("null", 0)
Num(n) == Leaf("int", n)

Shallow == {Num(0), Num(1), Leaf("float", 0), Str(1), ListOf(<<>>),
            ListOf(<<Num(0), Num(2)>>), MapOf(<<a>>, <<Num(0)>>),
            MapOf(<<a, b>>, <<Num(1), Num(0)>>)}
Few     == {Null, Num(1), Str(0), ListOf(<<Num(1)>>), ListOf(<<Null, Num(0)>>),
            MapOf(<<b>>, <<ListOf(<<Num(0)>>)>>)}

Trees == Shallow \cup {ListOf(<<x, y>>) : x, y \in Few}
                 \cup {MapOf(<<a>>, <<ListOf(<<x, MapOf(<<a, b>>, <<Num(1), y>>), Num(1)>>)>>) : x, y \in {Null, Num(1)}}
                 \cup {MapOf(<<a, b>>, <<x, y>>) : x \in Few, y \in {Num(1), ListOf(<<MapOf(<<a>>, <<Null>>), Str(1)>>)}}

Literals == Lay(ListOf(<<Num(1), Str(1), Leaf("bool", 1)>>), <<literal>>)

MCRoot  == <<>>
MCSteps == {a, b, literal} \cup 1..3
MCDocuments == {LET d == Lay(t, MCRoot)
                IN  [p \in DOMAIN d \cup DOMAIN Literals |->
                        IF p \in DOMAIN d THEN d[p] ELSE Literals[p]] : t \in Trees}

(* Expressions: .a, *, .., [*], [-1], [0:1], 1, "s", filters and unions.       *)
F(name)  == [type |-> "field", name |-> name]
Star     == [type |-> "wildcard"]
Descend  == [type |-> "recursive"]
One1     == [type |-> "number", lit |-> <<literal, 1>>]
True1    == [type |-> "number", lit |-> <<literal, 3>>]
Quote    == [type |-> "text", lit |-> <<literal, 2>>]
Keyword  == [type |-> "identifier"]
Sub(p, q) == [type |-> "array",
              params |-> ParseArray([start |-> p, stop |-> q, step |-> [colon |-> FALSE, num |-> <<>>]])]
Index(n)  == Sub(<<n>>, [colon |-> FALSE, num |-> <<>>])
All       == Sub(<<>>, [colon |-> TRUE, num |-> <<>>])
Upto(n)   == Sub(<<>>, [colon |-> TRUE, num |-> <<n>>])
Filter(left, op, right) == [type |-> "filter", left |-> left, op |-> op, right |-> right]
Has(list) == Filter(list, "exists", <<>>)
Union(members) == [type |-> "union", members |-> members]

Simple  == {F(a), Star, Descend, All, Index(-1), Upto(1)}
Filters == {Has(<<F(a)>>), Has(<<Star>>), Filter(<<>>, "<", <<One1>>), Filter(<<>>, ">=", <<One1>>),
            Filter(<<F(a)>>, "==", <<F(b)>>), Filter(<<Star>>, "!=", <<Quote>>),
            Filter(<<>>, "<>", <<True1>>), Filter(<<>>, "==", <<True1>>),
            Filter(<<Has(<<F(b)>>)>>, "==", <<Star>>)}
Unions  == {Union(<<<<F(a)>>, <<F(b)>>>>), Union(<<<<Index(0)>>, <<Star, F(b)>>>>),
            Union(<<<<Has(<<F(a)>>)>>, <<All>>>>)}

(* Bound: no two descents in a row, which the parser refuses but for a quoted  *)
(* key that starts with a dot.                                                 *)
Parsed(list) == \A s \in 1..(Len(list) - 1) : list[s] = Descend => list[s + 1] # Descend

Paths == {l \in BoundedSeq(Simple \cup Filters \cup Unions, Depth) \cup BoundedSeq(Simple, Depth + 1) :
             Parsed(l)}
Others == {<<Keyword>>, <<Quote>>, <<Star, One1>>}

MCTemplates == {<<l>> : l \in Paths \cup Others} \cup {<<>>, <<<<F(a)>>, <<Quote>>, <<Star>>>>}

(* The one template that tells a filter by its operand's errors.               *)
FailingHas == {<<<<Has(<<Index(1)>>)>>>>}

ListsOf(templates) ==
    LET In(lists) == UNION {UNION {Nested(l[s]) : s \in DOMAIN l} : l \in lists}
        tops == UNION {Range(t) : t \in templates}
    IN  tops \cup In(tops) \cup In(In(tops))

MCLists == ListsOf(MCTemplates)
FailingLists == ListsOf(FailingHas)

RECURSIVE SizeOf(_)
SizeOf(l) == Len(l) + FoldSet(LAMBDA o, n : SizeOf(o) + n, 0,
                                           UNION {Nested(l[s]) : s \in DOMAIN l})
MCSize == [l \in Lists |-> SizeOf(l)]
MCNodes == UNION {Range(l) : l \in Lists}

(* Only the last template is not one the theorem about Denotes is for.         *)
ASSUME RegularAssumption == Regular <=> Templates # FailingHas
================================================================================
