---------------------------------- MODULE Eval ----------------------------------
(* The evaluation of JSONPath expressions (internal/util/jsonpath/jsonpath.go): *)
(* FindResults without ranges, walk and the eval functions of every node type, *)
(* on the decoded JSON documents the command evaluates.  RangeWalk has ranges, *)
(* ArrayNode the arithmetic of subscripts, Compare the comparisons.            *)
(*                                                                             *)
(* A value is a place: the steps that lead to it from the root of the document *)
(* or from a literal of the expression.  doc says what stands at each place.   *)
(* Calls of evalList are frames of a stack; evalRecursive's calls of itself    *)
(* are a list of values still to visit.                                        *)
EXTENDS SliceParams

CONSTANTS
    Steps,          \* from a value to one in it: keys and positions
    Root,           \* the place of the document
    Documents,      \* functions from places to contents
    Nodes, Lists,   \* the nodes and node lists of expressions, nested ones included
    Templates       \* sequences of node lists: the braces of a template

Kinds    == {"null", "bool", "int", "float", "string", "uint", "list", "map"}
Contents == {"null", "list", "map"}     \* kinds that no comparison takes

(* The root is not null: the command evaluates objects, which are maps, and    *)
(* evalArray would panic on a null root, the invalid reflect.Value (RangeWalk  *)
(* has that panic).  A null within a document is an interface that holds nil,  *)
(* which evalArray passes by.                                                  *)
IsDocument(d) ==
    /\ Root \in DOMAIN d /\ d[Root].kind # "null"
    /\ \A p \in DOMAIN d :
           /\ p \in Seq(Steps) /\ d[p].kind \in Kinds /\ d[p].kids \in Seq(Steps)
           /\ \A s \in 1..Len(d[p].kids) : Append(p, d[p].kids[s]) \in DOMAIN d

IsNode(n) ==
    \/ n.type \in {"field", "wildcard", "recursive", "identifier"}
    \/ n.type = "array" /\ n.params \in Params
    \/ n.type \in {"text", "number"} /\ \A d \in Documents : n.lit \in DOMAIN d
    \/ n.type = "filter" /\ n.left \in Lists /\ n.right \in Lists
    \/ n.type = "union" /\ n.members \in Seq(Lists)

ASSUME EvalAssumption ==
    /\ MaxInt \in Nat
    /\ \A d \in Documents : IsDocument(d)
    /\ \A n \in Nodes : IsNode(n)
    /\ Lists \subseteq Seq(Nodes)
    /\ Templates \subseteq Seq(Lists)
--------------------------------------------------------------------------------
VARIABLES
    doc, template,  \* what is evaluated
    allow,          \* allowMissingKeys
    stack,          \* the calls of evalList, innermost last
    mode,           \* "next" node of the template, "walk", "return", "ok", "error"
    ret,            \* what the call that returned has returned
    full,           \* fullResult
    cut             \* history: a zero-length selection has skipped other inputs

vars == <<doc, template, allow, stack, mode, ret, full, cut>>

Frame(list, input) ==
    [nodes |-> list, at |-> 1,
     cur   |-> input,       \* the current node's input
     todo  |-> input,       \* what its loop has not visited yet
     out   |-> <<>>,        \* its results
     elems |-> <<>>,        \* evalFilter: the elements still to test
     left  |-> <<>>,        \* ... the left operand of the one being tested
     m     |-> 1]           \* evalUnion: the member

top  == stack[Len(stack)]
node == top.nodes[top.at]

Elements(p) == [s \in DOMAIN doc[p].kids |-> Append(p, doc[p].kids[s])]

(* A map's entries come in any order, a new one at every visit.                *)
Visits(p) ==
    LET e == Elements(p)
    IN  IF doc[p].kind = "map"
        THEN {[s \in DOMAIN e |-> e[f[s]]] :
                f \in {g \in [DOMAIN e -> DOMAIN e] :
                         \A a, b \in DOMAIN e : g[a] = g[b] => a = b}}
        ELSE {e}

(* Mutant: IsValid is not asked of what MapIndex returns.                      *)
FieldUnchecked(p, name) == IF doc[p].kind = "map" THEN <<Append(p, name)>> ELSE <<>>

Field(p, name) == IF /\ doc[p].kind = "map"
                     /\ \E s \in DOMAIN doc[p].kids : doc[p].kids[s] = name
                  THEN <<Append(p, name)>> ELSE <<>>

Slice(p, list) ==
    LET from == From(p, Len(list))
        step == StepOf(p)
    IN  [s \in 1..((To(p, Len(list)) - from + step - 1) \div step)
            |-> list[from + (s - 1) * step + 1]]

(* What Interface() hands to a comparison.                                     *)
Operand(p) == [kind |-> IF doc[p].kind \in Contents THEN "invalid" ELSE doc[p].kind,
               num |-> doc[p].num, nan |-> FALSE]

C == INSTANCE Compare WITH Half <- MaxInt + 1, Operands <- {}, args <- <<>>

Verdict(op, l, r) == C!Apply(op, Operand(l), Operand(r))
--------------------------------------------------------------------------------
Stay == UNCHANGED <<doc, template, allow, full>>

Continue(f) == /\ stack' = [stack EXCEPT ![Len(stack)] = f]
               /\ mode' = "walk"
               /\ UNCHANGED <<ret, cut>> /\ Stay

NextNode(vals) == Continue([Frame(top.nodes, vals) EXCEPT !.at = top.at + 1])

Call(list, input) == /\ stack' = Append(stack, Frame(list, input))
                     /\ mode' = "walk"
                     /\ UNCHANGED <<ret, cut>> /\ Stay

Return(err, vals) == /\ ret' = [err |-> err, vals |-> vals]
                     /\ stack' = SubSeq(stack, 1, Len(stack) - 1)
                     /\ mode' = "return"
                     /\ UNCHANGED cut /\ Stay

Init ==
    /\ doc \in Documents /\ template \in Templates /\ allow \in BOOLEAN
    /\ stack = <<>> /\ mode = "next" /\ ret = [err |-> FALSE, vals |-> <<>>]
    /\ full = <<>> /\ cut = FALSE

(* FindResults.                                                                *)
WalkNext ==
    /\ mode = "next" /\ Len(full) < Len(template)
    /\ Call(template[Len(full) + 1], <<Root>>)

Collect ==
    /\ mode = "return" /\ stack = <<>>
    /\ mode' = IF ret.err THEN "error" ELSE "next"
    /\ full' = IF ret.err THEN <<>> ELSE Append(full, ret.vals)
    /\ UNCHANGED <<doc, template, allow, stack, ret, cut>>

Finish ==
    /\ mode = "next" /\ Len(full) = Len(template)
    /\ mode' = "ok"
    /\ UNCHANGED <<doc, template, allow, stack, ret, full, cut>>

(* evalList, and the loops of the eval functions over their input.             *)
EndList ==
    /\ mode = "walk" /\ top.at > Len(top.nodes)
    /\ Return(FALSE, top.cur)

At(type)    == mode = "walk" /\ top.at <= Len(top.nodes) /\ node.type = type
Visit(type) == At(type) /\ top.todo # <<>>
this        == Head(top.todo)
Visited(vals) == [top EXCEPT !.todo = Tail(@), !.out = @ \o vals]

EndLoop ==
    /\ \/ At("array") \/ At("wildcard") \/ At("recursive")
       \/ At("filter") /\ top.elems = <<>>
    /\ top.todo = <<>>
    /\ NextNode(top.out)

Text       == At("text") /\ NextNode(<<node.lit>>)
Constant   == At("number") /\ NextNode([s \in DOMAIN top.cur |-> node.lit])
Identifier == At("identifier") /\ Return(TRUE, top.cur)

VisitField == Visit("field") /\ Continue(Visited(Field(this, node.name)))

(* Mutant: allowMissingKeys is not looked at.                                  *)
EndFieldStrict ==
    /\ At("field") /\ top.todo = <<>>
    /\ IF top.cur # <<>> /\ top.out = <<>>
       THEN Return(TRUE, <<>>)
       ELSE NextNode(top.out)

EndField ==
    /\ At("field") /\ top.todo = <<>>
    /\ IF top.cur # <<>> /\ top.out = <<>> /\ ~allow
       THEN Return(TRUE, <<>>)
       ELSE NextNode(top.out)

(* evalArray gives back its whole input with an error, and returns what it has *)
(* when a list is asked for zero elements.                                     *)
SkipNull == Visit("array") /\ doc[this].kind = "null" /\ Continue(Visited(<<>>))

Bad(p, list) == ~ZeroElements(p, Len(list)) /\ (~Bounded(p, Len(list)) \/ BadStep(p))

FailArray ==
    /\ Visit("array") /\ doc[this].kind # "null"
    /\ doc[this].kind # "list" \/ Bad(node.params, Elements(this))
    /\ Return(TRUE, top.cur)

ZeroSelection ==
    /\ Visit("array") /\ doc[this].kind = "list"
    /\ ZeroElements(node.params, Len(Elements(this)))
    /\ stack' = [stack EXCEPT ![Len(stack)] =
                    [Frame(top.nodes, top.out) EXCEPT !.at = top.at + 1]]
    /\ cut' = (cut \/ Len(top.todo) > 1)
    /\ UNCHANGED <<mode, ret>> /\ Stay

VisitArray ==
    /\ Visit("array") /\ doc[this].kind = "list"
    /\ ~ZeroElements(node.params, Len(Elements(this))) /\ ~Bad(node.params, Elements(this))
    /\ Continue(Visited(Slice(node.params, Elements(this))))

VisitWildcard == Visit("wildcard") /\ \E v \in Visits(this) : Continue(Visited(v))

(* Mutant: the values below are visited after the ones beside.                 *)
VisitRecursiveLast ==
    /\ Visit("recursive")
    /\ \E v \in Visits(this) :
           Continue([top EXCEPT !.todo = Tail(@) \o v,
                                !.out = IF v = <<>> THEN @ ELSE Append(@, this)])

(* A value with contents comes before what is below it; others do not count.   *)
VisitRecursive ==
    /\ Visit("recursive")
    /\ \E v \in Visits(this) :
           Continue([top EXCEPT !.todo = v \o Tail(@),
                                !.out = IF v = <<>> THEN @ ELSE Append(@, this)])

(* evalFilter: every element of every list is tested on its own.               *)
VisitFilter ==
    /\ Visit("filter") /\ top.elems = <<>>
    /\ IF doc[this].kind = "list"
       THEN Continue([Visited(<<>>) EXCEPT !.elems = Elements(this)])
       ELSE Return(TRUE, top.cur)

CallLeft == /\ At("filter") /\ top.elems # <<>>
            /\ Call(node.left, <<Head(top.elems)>>)

Returned(type) == mode = "return" /\ stack # <<>> /\ node.type = type

Tested(keep) == Continue([top EXCEPT !.elems = Tail(@), !.left = <<>>,
                                     !.out = IF keep THEN Append(@, Head(top.elems)) ELSE @])

(* The case "exists" comes before the operand's error is looked at.            *)
Exists == /\ Returned("filter") /\ node.op = "exists"
          /\ Tested(ret.vals # <<>>)

Compares == Returned("filter") /\ node.op # "exists"

(* Mutant: an operand without a value passes.                                  *)
NoOperandKept == Compares /\ ~ret.err /\ ret.vals = <<>> /\ Tested(TRUE)

NoOperand == Compares /\ ~ret.err /\ ret.vals = <<>> /\ Tested(FALSE)

(* Mutant: an operand without a value is an error.                             *)
BadOperandMissing == Compares /\ (ret.err \/ Len(ret.vals) # 1) /\ Return(TRUE, top.cur)

BadOperand == Compares /\ (ret.err \/ Len(ret.vals) > 1) /\ Return(TRUE, top.cur)

One == Compares /\ ~ret.err /\ Len(ret.vals) = 1

(* Mutant: the right operand is taken from the whole list.                     *)
CallRightOnList ==
    /\ One /\ top.left = <<>>
    /\ stack' = Append([stack EXCEPT ![Len(stack)].left = ret.vals],
                       Frame(node.right, top.elems))
    /\ mode' = "walk"
    /\ UNCHANGED <<ret, cut>> /\ Stay

CallRight ==
    /\ One /\ top.left = <<>>
    /\ stack' = Append([stack EXCEPT ![Len(stack)].left = ret.vals],
                       Frame(node.right, <<Head(top.elems)>>))
    /\ mode' = "walk"
    /\ UNCHANGED <<ret, cut>> /\ Stay

TestElement ==
    /\ One /\ top.left # <<>>
    /\ LET v == Verdict(node.op, top.left[1], ret.vals[1])
       IN  IF v.err THEN Return(TRUE, top.out) ELSE Tested(v.pass)

(* evalUnion: every member is evaluated on the same input.                     *)
CallMember == /\ At("union") /\ top.m <= Len(node.members)
              /\ Call(node.members[top.m], top.cur)

(* Mutant: the same member is evaluated again.                                 *)
EndMemberAgain ==
    /\ Returned("union")
    /\ IF ret.err THEN Return(TRUE, top.cur)
       ELSE Continue([top EXCEPT !.out = ret.vals])

EndMember ==
    /\ Returned("union")
    /\ IF ret.err THEN Return(TRUE, top.cur)
       ELSE Continue([top EXCEPT !.m = @ + 1, !.out = @ \o ret.vals])

EndUnion == At("union") /\ top.m > Len(node.members) /\ NextNode(top.out)

Next ==
    \/ WalkNext \/ Collect \/ Finish \/ EndList \/ EndLoop
    \/ Text \/ Constant \/ Identifier \/ VisitField \/ EndField
    \/ SkipNull \/ FailArray \/ ZeroSelection \/ VisitArray
    \/ VisitWildcard \/ VisitRecursive
    \/ VisitFilter \/ CallLeft \/ Exists \/ NoOperand \/ BadOperand
    \/ CallRight \/ TestElement
    \/ CallMember \/ EndMember \/ EndUnion

Spec     == Init /\ [][Next]_vars
FairSpec == Spec /\ WF_vars(Next)       \* sequential code: the next step is taken
--------------------------------------------------------------------------------
(* Every value in the evaluator's hands stands in the document, whatever was   *)
(* sliced, visited and handed to operands: no Index, MapIndex or Slice is ever *)
(* called out of range.                                                        *)
InDocument(vals) == vals \in Seq(DOMAIN doc)

FrameOK(f) ==
    /\ f.at \in 1..(Len(f.nodes) + 1)
    /\ InDocument(f.cur) /\ InDocument(f.todo) /\ InDocument(f.out)
    /\ InDocument(f.elems) /\ InDocument(f.left)

TypeOK ==
    /\ allow \in BOOLEAN
    /\ mode \in {"next", "walk", "return", "ok", "error"}
    /\ \A s \in 1..Len(stack) : FrameOK(stack[s])
    /\ ret.err \in BOOLEAN /\ InDocument(ret.vals)
    /\ \A s \in 1..Len(full) : InDocument(full[s])
    /\ Len(full) <= Len(template)

(* The two operands of a comparison are evaluated on one and the same element  *)
(* of the list being filtered, and the members of a union on the same input,   *)
(* however deep the calls nest: a return always finds the caller it belongs to.*)
Calls(f, list, input) ==
    LET n == f.nodes[f.at]
    IN  \/ /\ n.type = "filter" /\ f.elems # <<>> /\ input = <<Head(f.elems)>>
           /\ list = IF f.left = <<>> THEN n.left ELSE n.right
        \/ /\ n.type = "union" /\ f.m \in 1..Len(n.members) /\ input = f.cur
           /\ list = n.members[f.m]

(* Only a call that has not left its first node still shows its input.         *)
CallsMatch ==
    \A s \in 1..(Len(stack) - 1) :
        /\ stack[s].at <= Len(stack[s].nodes)
        /\ stack[s + 1].at = 1 =>
               Calls(stack[s], stack[s + 1].nodes, stack[s + 1].cur)

(* With AllowMissingKeys a path of fields, wildcards and descents never fails, *)
(* whatever the document: a rule of this form cannot stop a run.               *)
Tolerant(list) ==
    \A s \in DOMAIN list : list[s].type \in {"field", "wildcard", "recursive"}

NeverFails ==
    allow /\ (\A s \in DOMAIN template : Tolerant(template[s])) => mode # "error"

(* Evaluation ends.                                                            *)
Terminates == <>(mode \in {"ok", "error"})
================================================================================
