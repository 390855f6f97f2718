------------------------------- MODULE RangeWalk -------------------------------
(* JSONPath.FindResults (internal/util/jsonpath/jsonpath.go): the evaluation   *)
(* of a parsed template, which runs `{range}` ... `{end}` loops by calling     *)
(* itself on the nodes that follow the range.  The loops are not delimited by  *)
(* the parser: the evaluator finds its way with three counters and the place   *)
(* of the last end node, all kept in the JSONPath value together with the      *)
(* list of nodes a nested call starts from.                                    *)
(*                                                                             *)
(* A node is one {...} action or one piece of text, with at most one keyword.  *)
(* Go values are named by how they were reached: a value is the path of the    *)
(* indices taken from the document, and fan says how many values the           *)
(* expression of a node yields on the last of them (-1: it fails there).       *)
EXTENDS Integers, SequencesExt, FiniteSets

CONSTANTS
    Templates,      \* the parsed templates
    AllowMissing,   \* JSONPath.AllowMissingKeys
    MaxCalls        \* bound: how often FindResults is called on one JSONPath

Keywords == {"value", "range", "end", "unknown"}
Starts   == {"text", "self", "field", "list", "index"}
Node     == [cmd : Keywords, expr : Starts, fan : Seq(Int)]

ASSUME WalkAssumption ==
    /\ Templates \subseteq Seq(Node)
    /\ AllowMissing \in BOOLEAN
    /\ MaxCalls \in Nat

Val     == [nil : BOOLEAN, path : Seq(Nat)]
Nil     == [nil |-> TRUE, path |-> <<>>]    \* reflect.ValueOf(nil)
Root    == [nil |-> FALSE, path |-> <<1>>]
TextVal == [nil |-> FALSE, path |-> <<0>>]

(* walk: what the expression of a node yields on one value.  A field of nil is *)
(* missing; an element of nil makes evalArray ask for the type of no value.    *)
Outcome(st, vals) == [st |-> st, vals |-> vals]

Fan(node, v) == LET last == v.path[Len(v.path)]
                IN  IF last \in DOMAIN node.fan THEN node.fan[last] ELSE 0

Children(v, n) == [c \in 1..n |-> [nil |-> FALSE, path |-> Append(v.path, c)]]

Missing == Outcome(IF AllowMissing THEN "ok" ELSE "error", <<>>)

Select(node, v) ==
    CASE v.nil /\ node.expr = "index" -> Outcome("panic", <<>>)
      [] v.nil /\ node.expr # "index" -> Missing
      [] ~v.nil /\ Fan(node, v) < 0   -> Outcome("error", <<>>)
      [] ~v.nil /\ Fan(node, v) = 0 /\ node.expr = "field" -> Missing
      [] OTHER -> Outcome("ok", Children(v, Fan(node, v)))

Eval(node, v) ==
    CASE node.expr = "text" -> Outcome("ok", <<TextVal>>)
      [] node.expr = "self" -> Outcome("ok", <<v>>)
      [] OTHER              -> Select(node, v)
--------------------------------------------------------------------------------
VARIABLES
    template,       \* the nodes of the parsed template
    rootAt,         \* parser.Root.Nodes holds the nodes after this one
    beginRange, inRange, endRange,
    lastEnd,        \* lastEndNode: the end node last encountered, 0 for nil
    stack,          \* the active calls of FindResults, the innermost last
    status,         \* how the latest call of the user stands
    result,         \* what it returned
    calls           \* how many there have been

counters == <<beginRange, inRange, endRange>>
vars == <<template, rootAt, counters, lastEnd, stack, status, result, calls>>

(* A call of FindResults: the node it is at, its value, what it has collected, *)
(* and, inside a range, the values still to be looped over.  dry: the range    *)
(* yielded nothing and its body is run on nil, for the position only.          *)
Group == [node : Nat, vals : Seq(Val)]
Frame == [at : Nat \ {0}, cur : Val, full : Seq(Group),
          loop : BOOLEAN, todo : Seq(Val), dry : BOOLEAN]

NewFrame(v) == [at |-> rootAt' + 1, cur |-> v, full |-> <<>>,
                loop |-> FALSE, todo |-> <<>>, dry |-> FALSE]

depth == Len(stack)
top   == stack[depth]
below == SubSeq(stack, 1, depth - 1)
node  == template[top.at]

Replace(f) == stack' = [stack EXCEPT ![depth] = f]

Init ==
    /\ template \in Templates
    /\ rootAt = 0
    /\ beginRange = 0 /\ inRange = 0 /\ endRange = 0
    /\ lastEnd = 0
    /\ stack = <<>>
    /\ status = "idle"
    /\ result = <<>>
    /\ calls = 0

(* The user calls FindResults, on the same document every time.  A panic is    *)
(* the end of the process.                                                     *)
Call ==
    /\ status \notin {"running", "panic"}
    /\ calls < MaxCalls
    /\ calls' = calls + 1
    /\ status' = "running"
    /\ result' = <<>>
    /\ rootAt' = rootAt
    /\ stack' = <<NewFrame(Root)>>
    /\ UNCHANGED <<template, counters, lastEnd>>

(* An error or a panic unwinds every active call; the JSONPath value keeps     *)
(* whatever the unwinding found in it.                                         *)
Unwind(st) ==
    /\ status' = st
    /\ stack' = <<>>
    /\ UNCHANGED <<template, rootAt, inRange, lastEnd, result, calls>>

AtNode == status = "running" /\ ~top.loop /\ top.at <= Len(template)

(* evalIdentifier counts the keyword before the rest of the action is walked.  *)
begun == beginRange + (IF node.cmd = "range" THEN 1 ELSE 0)
ended == endRange + (IF node.cmd = "end" /\ inRange > 0 THEN 1 ELSE 0)

(* "end" yields nothing, and the rest of its action is walked on nothing.      *)
(* Mutant: an end is accepted whether or not a range is open.                  *)
OutcomeUnchecked ==
    IF node.cmd = "unknown" THEN Outcome("error", <<>>)
    ELSE IF node.cmd = "end" THEN Outcome("ok", <<>>) ELSE Eval(node, top.cur)

outcome ==
    CASE node.cmd = "unknown" -> Outcome("error", <<>>)
      [] node.cmd = "end"     -> Outcome(IF inRange > 0 THEN "ok" ELSE "error", <<>>)
      [] OTHER                -> Eval(node, top.cur)

WalkFails ==
    /\ AtNode
    /\ outcome.st # "ok"
    /\ beginRange' = begun
    /\ endRange' = ended
    /\ Unwind(outcome.st)

(* A call of FindResults returns; what a dry run collected is thrown away.     *)
PassUp(groups) ==
    IF depth = 1
    THEN /\ stack' = <<>>
         /\ status' = "done"
         /\ result' = groups
    ELSE /\ stack' = IF stack[depth - 1].dry THEN below
                     ELSE [below EXCEPT ![depth - 1].full = @ \o groups]
         /\ UNCHANGED <<status, result>>

(* Mutants: the end also closes its range; the end is not used up.             *)
VisitEndCloses ==
    /\ AtNode /\ outcome.st = "ok"
    /\ ended > 0 /\ ended <= inRange
    /\ endRange' = ended - 1 /\ beginRange' = begun
    /\ inRange' = inRange - 1
    /\ lastEnd' = top.at
    /\ PassUp(top.full)
    /\ UNCHANGED <<template, rootAt, calls>>

VisitEndKept ==
    /\ AtNode /\ outcome.st = "ok"
    /\ ended > 0 /\ ended <= inRange
    /\ endRange' = ended /\ beginRange' = begun
    /\ lastEnd' = top.at
    /\ PassUp(top.full)
    /\ UNCHANGED <<template, rootAt, inRange, calls>>

(* "encounter an end node, break the current block".                           *)
VisitEnd ==
    /\ AtNode
    /\ outcome.st = "ok"
    /\ ended > 0 /\ ended <= inRange
    /\ endRange' = ended - 1
    /\ beginRange' = begun
    /\ lastEnd' = top.at
    /\ PassUp(top.full)
    /\ UNCHANGED <<template, rootAt, inRange, calls>>

VisitRange ==
    /\ AtNode
    /\ outcome.st = "ok"
    /\ ~(ended > 0 /\ ended <= inRange)
    /\ begun > 0
    /\ beginRange' = begun - 1
    /\ inRange' = inRange + 1
    /\ endRange' = ended
    /\ Replace([top EXCEPT !.loop = TRUE,
                           !.dry = (outcome.vals = <<>>),
                           !.todo = IF outcome.vals = <<>> THEN <<Nil>> ELSE outcome.vals])
    /\ UNCHANGED <<template, rootAt, lastEnd, status, result, calls>>

VisitValue ==
    /\ AtNode
    /\ outcome.st = "ok"
    /\ ~(ended > 0 /\ ended <= inRange)
    /\ begun = 0
    /\ beginRange' = begun
    /\ endRange' = ended
    /\ Replace([top EXCEPT !.at = @ + 1,
                           !.full = Append(@, [node |-> top.at, vals |-> outcome.vals])])
    /\ UNCHANGED <<template, rootAt, inRange, lastEnd, status, result, calls>>

(* No node is left: `return fullResult, nil`.                                  *)
FallOff ==
    /\ status = "running"
    /\ ~top.loop
    /\ top.at > Len(template)
    /\ PassUp(top.full)
    /\ UNCHANGED <<template, rootAt, counters, lastEnd, calls>>

(* Mutant: the nested call starts at the range itself, nodes[i:].              *)
IterateSame ==
    /\ status = "running" /\ top.loop /\ top.todo # <<>>
    /\ rootAt' = top.at - 1
    /\ stack' = Append([stack EXCEPT ![depth].todo = Tail(@)], NewFrame(Head(top.todo)))
    /\ top.dry \/ ~Head(top.todo).nil
    /\ UNCHANGED <<template, counters, lastEnd, status, result, calls>>

(* The loop over the range's results: FindResults(value.Interface()) on the    *)
(* nodes after the range.  value.Interface() panics on the invalid Value.      *)
Iterate ==
    /\ status = "running"
    /\ top.loop
    /\ top.todo # <<>>
    /\ rootAt' = top.at
    /\ stack' = Append([stack EXCEPT ![depth].todo = Tail(@)], NewFrame(Head(top.todo)))
    /\ top.dry \/ ~Head(top.todo).nil
    /\ UNCHANGED <<template, counters, lastEnd, status, result, calls>>

IterateNil ==
    /\ status = "running"
    /\ top.loop
    /\ top.todo # <<>>
    /\ ~top.dry /\ Head(top.todo).nil
    /\ rootAt' = top.at
    /\ status' = "panic"
    /\ stack' = <<>>
    /\ UNCHANGED <<template, counters, lastEnd, result, calls>>

(* Mutants: no fast forward after a loop; the range is not left at its end.    *)
LeaveLoop(at) ==
    /\ status = "running" /\ top.loop /\ top.todo = <<>>
    /\ inRange' = inRange - 1
    /\ Replace([top EXCEPT !.loop = FALSE, !.dry = FALSE, !.at = at])
    /\ UNCHANGED <<template, rootAt, beginRange, endRange, lastEnd, status, result, calls>>

EndLoopInPlace  == LeaveLoop(top.at + 1)
EndLoopRepeated == LeaveLoop(IF lastEnd > top.at THEN lastEnd + 1 ELSE top.at)

(* "Fast forward to resume processing after the most recent end node that was  *)
(* encountered", if it is one of the nodes after this range.                   *)
EndLoop ==
    /\ status = "running"
    /\ top.loop
    /\ top.todo = <<>>
    /\ inRange' = inRange - 1
    /\ Replace([top EXCEPT !.loop = FALSE,
                           !.dry = FALSE,
                           !.at = IF lastEnd > @ THEN lastEnd + 1 ELSE @ + 1])
    /\ UNCHANGED <<template, rootAt, beginRange, endRange, lastEnd, status, result, calls>>

Step == \/ WalkFails \/ VisitEnd \/ VisitRange \/ VisitValue \/ FallOff
        \/ Iterate \/ IterateNil \/ EndLoop
Next == Call \/ Step

Spec     == Init /\ [][Next]_vars
FairSpec == Spec /\ WF_vars(Step)       \* a call, once made, keeps executing
--------------------------------------------------------------------------------
TypeOK ==
    /\ template \in Templates
    /\ rootAt \in 0..Len(template)
    /\ beginRange \in Nat /\ inRange \in Nat /\ endRange \in Nat
    /\ lastEnd \in 0..Len(template)
    /\ stack \in Seq(Frame)
    /\ status \in {"idle", "running", "done", "error", "panic"}
    /\ status = "running" <=> stack # <<>>
    /\ result \in Seq(Group)
    /\ calls \in 0..MaxCalls

(* The loops the active calls are in.                                          *)
Loops == IF stack = <<>> THEN 0 ELSE depth - 1 + (IF top.loop THEN 1 ELSE 0)

(* On a fresh JSONPath the counters mean what their names say whenever a node  *)
(* is about to be visited: inRange is the number of loops the active calls are *)
(* in, and no range or end is pending.  A failed call leaves what it finds in  *)
(* them to the next one; but however many calls have failed, inRange counts    *)
(* every loop that is open, so that its end is accepted, and only the          *)
(* innermost call is not looping.                                              *)
CountersExact ==
    /\ inRange >= Loops
    /\ \A f \in 1..(depth - 1) : stack[f].loop
    /\ calls <= 1 /\ status \in {"idle", "running", "done"} =>
           beginRange = 0 /\ endRange = 0 /\ inRange = Loops

(* A nested call starts after the range node of its caller and stays after it, *)
(* so the recursion is never deeper than the template is long.                 *)
Descends ==
    \A f \in 1..(depth - 1) : stack[f].loop => stack[f].at < stack[f + 1].at

(* What a template means: its ranges and ends nest like brackets.  Nesting is  *)
(* how many ranges are open after the first n nodes.                           *)
Among(t, kw, n) == Cardinality({a \in 1..n : t[a].cmd = kw})
Nesting(t, n)   == Among(t, "range", n) - Among(t, "end", n)

SurplusEnd(t) == \E n \in 1..Len(t) : Nesting(t, n) < 0
Balanced(t)   == ~SurplusEnd(t) /\ Nesting(t, Len(t)) = 0

Closes(t, a, e) == /\ Nesting(t, e) = Nesting(t, a) - 1
                   /\ \A f \in a..(e - 1) : Nesting(t, f) >= Nesting(t, a)

MatchingEnd(t, a) == CHOOSE e \in (a + 1)..Len(t) : Closes(t, a, e)

(* The groups that node a and those after it yield on v, up to the end of the  *)
(* loop they are in: an inner loop yields what its body yields on each value   *)
(* in turn, and then come the nodes after its end.                             *)
Meaning(t) ==
    LET m[a \in 1..(Len(t) + 1)] ==
          [v \in Val |->
             IF a > Len(t) \/ t[a].cmd = "end" THEN <<>>
             ELSE LET vals == Eval(t[a], v).vals
                  IN  IF t[a].cmd = "range"
                      THEN FlattenSeq([c \in 1..Len(vals) |-> m[a + 1][vals[c]]])
                               \o m[MatchingEnd(t, a) + 1][v]
                      ELSE <<[node |-> a, vals |-> vals]>> \o m[a + 1][v]]
    IN  m

(* No node of the template can fail, not even on nil.                          *)
NeverFails(t) ==
    /\ AllowMissing
    /\ \A a \in 1..Len(t) :
          /\ t[a].cmd # "unknown" /\ t[a].expr # "index"
          /\ ~(t[a].cmd = "range" /\ t[a].expr = "self")
          /\ \A x \in 1..Len(t[a].fan) : t[a].fan[x] >= 0

(* A fresh JSONPath gives a balanced template its meaning as nested loops,     *)
(* although nothing in the parsed template says which end closes which range;  *)
(* it does not fail, for instance over an end, if no node can; and a template  *)
(* with an end too many is rejected ("not in range, nothing to end") however   *)
(* often its loops have run by then.                                           *)
LoopSemantics ==
    /\ calls = 1 /\ status = "done" /\ Balanced(template) =>
           result = Meaning(template)[1][Root]
    /\ calls = 1 /\ Balanced(template) /\ NeverFails(template) =>
           status \in {"running", "done"}
    /\ calls = 1 /\ SurplusEnd(template) => status # "done"

(* Every call comes to an end.                                                 *)
Terminates == (status = "running") ~> (status # "running")
================================================================================
