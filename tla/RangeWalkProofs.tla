---------------------------- MODULE RangeWalkProofs ----------------------------
(* Theorems about RangeWalk, for every set of templates and any number of      *)
(* calls.                                                                      *)
EXTENDS RangeWalk, FiniteSetTheorems, SequenceTheorems, WellFoundedInduction, TLAPS

(* Where calls are in the template; inRange is never less than the loops open, *)
(* so it never drops below zero, and after a failed call it may be more.       *)
StackOK ==
    /\ \A f \in 1..(depth - 1) : stack[f].loop
    /\ \A f \in 1..depth : stack[f].loop => stack[f].at <= Len(template)
    /\ \A f \in 1..(depth - 1) : stack[f].at < stack[f + 1].at

Inv ==
    /\ TypeOK
    /\ StackOK
    /\ status # "idle" => calls > 0
    /\ inRange >= Loops
    /\ calls <= 1 /\ status \in {"idle", "running", "done"} =>
           beginRange = 0 /\ endRange = 0 /\ inRange = Loops
--------------------------------------------------------------------------------
(* Stacks: changing the top, pushing and popping.                              *)
LEMMA ReplaceTop ==
  ASSUME NEW s \in Seq(Frame), s # <<>>, NEW f \in Frame
  PROVE  /\ [s EXCEPT ![Len(s)] = f] \in Seq(Frame)
         /\ Len([s EXCEPT ![Len(s)] = f]) = Len(s)
         /\ \A a \in 1..(Len(s) - 1) : [s EXCEPT ![Len(s)] = f][a] = s[a]
         /\ [s EXCEPT ![Len(s)] = f][Len(s)] = f
         /\ [s EXCEPT ![Len(s)] = f] # <<>>
  <1> DEFINE t == [s EXCEPT ![Len(s)] = f]
  <1>1. Len(s) \in Nat \ {0}
    BY EmptySeq
  <1>2. Len(s) \in 1..Len(s)
    BY <1>1
  <1>3. /\ t \in Seq(Frame)
        /\ Len(t) = Len(s)
        /\ \A a \in 1..Len(s) : t[a] = IF a = Len(s) THEN f ELSE s[a]
    BY <1>2, ExceptSeq
  <1>4. t # <<>>
    <2>1. Len(t) # 0
      BY <1>1, <1>3
    <2> HIDE DEF t
    <2> QED
      BY <2>1, EmptySeq
  <1> HIDE DEF t
  <1>5. /\ \A a \in 1..(Len(s) - 1) : t[a] = s[a]
        /\ t[Len(s)] = f
    BY <1>1, <1>2, <1>3
  <1> QED
    BY <1>3, <1>4, <1>5 DEF t

LEMMA PushFrame ==
  ASSUME NEW s \in Seq(Frame), NEW f \in Frame
  PROVE  /\ Append(s, f) \in Seq(Frame)
         /\ Len(Append(s, f)) = Len(s) + 1
         /\ \A a \in 1..Len(s) : Append(s, f)[a] = s[a]
         /\ Append(s, f)[Len(s) + 1] = f
         /\ Append(s, f) # <<>>
  BY AppendProperties, EmptySeq

LEMMA PopFrame ==
  ASSUME NEW s \in Seq(Frame), Len(s) > 1
  PROVE  /\ SubSeq(s, 1, Len(s) - 1) \in Seq(Frame)
         /\ Len(SubSeq(s, 1, Len(s) - 1)) = Len(s) - 1
         /\ \A a \in 1..(Len(s) - 1) : SubSeq(s, 1, Len(s) - 1)[a] = s[a]
         /\ SubSeq(s, 1, Len(s) - 1) # <<>>
  <1> DEFINE t == SubSeq(s, 1, Len(s) - 1)
  <1>1. Len(s) \in Nat
    OBVIOUS
  <1>2. \A a \in 1..(Len(s) - 1) : s[a] \in Frame
    BY <1>1
  <1>3. /\ t \in Seq(Frame)
        /\ Len(t) = Len(s) - 1
        /\ \A a \in 1..(Len(s) - 1) : t[a] = s[a]
    BY <1>1, <1>2, SubSeqProperties
  <1> HIDE DEF t
  <1>4. t # <<>>
    BY <1>1, <1>3, EmptySeq
  <1> QED
    BY <1>3, <1>4 DEF t
--------------------------------------------------------------------------------
(* What evaluation yields is a sequence of values.                             *)
LEMMA ChildrenType ==
  ASSUME NEW v \in Val, NEW n \in Nat
  PROVE  Children(v, n) \in Seq(Val)
  <1>1. \A c \in 1..n : [nil |-> FALSE, path |-> Append(v.path, c)] \in Val
    <2> SUFFICES ASSUME NEW c \in 1..n PROVE Append(v.path, c) \in Seq(Nat)
      BY DEF Val
    <2> QED
      BY AppendProperties DEF Val
  <1> QED
    BY <1>1 DEF Children

LEMMA FixedVals == Nil \in Val /\ Root \in Val /\ TextVal \in Val
  <1>1. <<>> \in Seq(Nat) /\ <<1>> \in Seq(Nat) /\ <<0>> \in Seq(Nat)
    OBVIOUS
  <1> QED
    BY <1>1 DEF Nil, Root, TextVal, Val

LEMMA EvalType ==
  ASSUME NEW n \in Node, NEW v \in Val
  PROVE  Eval(n, v).vals \in Seq(Val)
  <1>1. <<>> \in Seq(Val) /\ <<v>> \in Seq(Val) /\ <<TextVal>> \in Seq(Val)
    BY FixedVals
  <1>2. Fan(n, v) \in Int
    BY DEF Fan, Node
  <1>3. Select(n, v).vals \in Seq(Val)
    <2>1. CASE v.nil
      BY <1>1, <2>1 DEF Select, Missing, Outcome
    <2>2. CASE ~v.nil /\ (Fan(n, v) < 0 \/ (Fan(n, v) = 0 /\ n.expr = "field"))
      BY <1>1, <2>2 DEF Select, Missing, Outcome
    <2>3. CASE ~v.nil /\ ~(Fan(n, v) < 0 \/ (Fan(n, v) = 0 /\ n.expr = "field"))
      <3>1. Fan(n, v) \in Nat
        BY <1>2, <2>3
      <3>2. Select(n, v) = Outcome("ok", Children(v, Fan(n, v)))
        BY <2>3 DEF Select
      <3> QED
        BY <3>1, <3>2, ChildrenType DEF Outcome
    <2> QED
      BY <2>1, <2>2, <2>3
  <1>4. CASE n.expr = "text"
    BY <1>1, <1>4 DEF Eval, Outcome
  <1>5. CASE n.expr = "self"
    BY <1>1, <1>5 DEF Eval, Outcome
  <1>6. CASE n.expr # "text" /\ n.expr # "self"
    BY <1>3, <1>6 DEF Eval
  <1> QED
    BY <1>4, <1>5, <1>6
--------------------------------------------------------------------------------
LEMMA TopFacts ==
  ASSUME Inv, status = "running"
  PROVE  /\ stack \in Seq(Frame) /\ stack # <<>>
         /\ depth \in Nat \ {0} /\ top \in Frame
         /\ Len(template) \in Nat
         /\ \A f \in 1..depth : stack[f] \in Frame
  <1>1. stack \in Seq(Frame) /\ stack # <<>>
    BY DEF Inv, TypeOK
  <1>2. depth \in Nat \ {0}
    BY <1>1, EmptySeq DEF depth
  <1>3. \A f \in 1..depth : stack[f] \in Frame
    BY <1>1, <1>2, ElementOfSeq DEF depth
  <1>4. template \in Seq(Node)
    BY WalkAssumption DEF Inv, TypeOK
  <1> QED
    BY <1>1, <1>2, <1>3, <1>4 DEF top

(* What visiting a node evaluates: its results are values, and only an end     *)
(* inside a range leaves something pending.                                    *)
LEMMA NodeFacts ==
  ASSUME Inv, AtNode
  PROVE  /\ top.at \in 1..Len(template) /\ node \in Node
         /\ outcome.vals \in Seq(Val)
         /\ begun \in Nat /\ ended \in Nat
         /\ begun = beginRange + (IF node.cmd = "range" THEN 1 ELSE 0)
         /\ ended = endRange + (IF node.cmd = "end" /\ inRange > 0 THEN 1 ELSE 0)
         /\ outcome.st = "ok" /\ node.cmd = "end" => inRange > 0
  <1>1. top \in Frame /\ top.at \in 1..Len(template) /\ Len(template) \in Nat
    BY TopFacts DEF AtNode, Frame
  <1>2. node \in Node
    BY <1>1, WalkAssumption DEF node, Inv, TypeOK
  <1>3. outcome.vals \in Seq(Val)
    <2>1. CASE node.cmd \in {"unknown", "end"}
      <3>1. outcome.vals = <<>>
        BY <2>1 DEF outcome, Outcome
      <3> QED
        BY <3>1
    <2>2. CASE node.cmd \notin {"unknown", "end"}
      <3>1. outcome = Eval(node, top.cur)
        BY <2>2 DEF outcome
      <3> QED
        BY <1>1, <1>2, <3>1, EvalType DEF Frame
    <2> QED
      BY <2>1, <2>2
  <1>4. outcome.st = "ok" /\ node.cmd = "end" => inRange > 0
    BY DEF outcome, Outcome
  <1>5. begun \in Nat /\ ended \in Nat
    BY DEF begun, ended, Inv, TypeOK
  <1> QED
    BY <1>1, <1>2, <1>3, <1>4, <1>5 DEF begun, ended
--------------------------------------------------------------------------------
(* The three ways the stack changes while a call runs.                         *)
LEMMA ChangeTop ==
  ASSUME Inv, status = "running", NEW f \in Frame, Replace(f), UNCHANGED template,
         f.at >= top.at, f.loop => f.at <= Len(template)
  PROVE  /\ stack' \in Seq(Frame) /\ stack' # <<>>
         /\ Len(stack') = depth /\ stack'[depth] = f
         /\ \A a \in 1..(depth - 1) : stack'[a] = stack[a]
         /\ StackOK'
         /\ Loops' = depth - 1 + (IF f.loop THEN 1 ELSE 0)
  <1>1. /\ stack' \in Seq(Frame) /\ stack' # <<>>
        /\ Len(stack') = depth
        /\ \A a \in 1..(depth - 1) : stack'[a] = stack[a]
        /\ stack'[depth] = f
    BY TopFacts, ReplaceTop DEF Replace, depth
  <1>2. depth' = depth /\ top' = f
    BY <1>1 DEF depth, top
  <1>3. depth \in Nat \ {0} /\ \A a \in 1..depth : stack[a] \in Frame
    BY TopFacts
  <1>4. StackOK'
    <2>1. \A a \in 1..(depth - 1) : stack'[a].loop
      BY <1>1 DEF Inv, StackOK
    <2>2. \A a \in 1..depth : stack'[a].loop => stack'[a].at <= Len(template)
      BY <1>1, <1>3 DEF Inv, StackOK
    <2>3. \A a \in 1..(depth - 1) : stack'[a].at < stack'[a + 1].at
      <3> SUFFICES ASSUME NEW a \in 1..(depth - 1) PROVE stack'[a].at < stack'[a + 1].at
        OBVIOUS
      <3>1. stack[a].at < stack[a + 1].at
        BY DEF Inv, StackOK
      <3>2. CASE a + 1 = depth
        <4>1. stack'[a] = stack[a] /\ stack'[a + 1] = f /\ stack[a + 1] = top
          BY <1>1, <3>2 DEF top
        <4>2. stack[a].at \in Int /\ top.at \in Int /\ f.at \in Int
          BY <1>3, TopFacts DEF Frame
        <4> QED
          BY <3>1, <4>1, <4>2
      <3>3. CASE a + 1 # depth
        BY <1>1, <1>3, <3>1, <3>3
      <3> QED
        BY <3>2, <3>3
    <2> QED
      BY <1>2, <2>1, <2>2, <2>3 DEF StackOK
  <1>5. Loops' = depth - 1 + (IF f.loop THEN 1 ELSE 0)
    BY <1>1, <1>2 DEF Loops
  <1> QED
    BY <1>1, <1>4, <1>5

LEMMA PushCall ==
  ASSUME Inv, status = "running", top.loop, top.todo # <<>>, rootAt' = top.at,
         stack' = Append([stack EXCEPT ![depth].todo = Tail(@)], NewFrame(Head(top.todo))),
         UNCHANGED template
  PROVE  /\ rootAt' \in 0..Len(template)
         /\ stack' \in Seq(Frame) /\ stack' # <<>>
         /\ Len(stack') = depth + 1
         /\ stack'[depth + 1] = NewFrame(Head(top.todo))
         /\ stack'[depth] = [top EXCEPT !.todo = Tail(@)]
         /\ \A a \in 1..(depth - 1) : stack'[a] = stack[a]
         /\ StackOK'
         /\ Loops' = Loops
  <1> DEFINE f == [top EXCEPT !.todo = Tail(@)]
             s == [stack EXCEPT ![depth] = f]
             g == NewFrame(Head(top.todo))
  <1>1. /\ depth \in Nat \ {0} /\ top \in Frame /\ stack \in Seq(Frame) /\ stack # <<>>
        /\ Len(template) \in Nat
        /\ \A a \in 1..depth : stack[a] \in Frame
    BY TopFacts
  <1>2. top.at \in 1..Len(template)
    BY <1>1 DEF Inv, StackOK, top, Frame
  <1>3. Head(top.todo) \in Val /\ Tail(top.todo) \in Seq(Val)
    BY <1>1, HeadTailProperties DEF Frame
  <1>4. f \in Frame /\ f.loop /\ f.at = top.at
    BY <1>1, <1>3 DEF Frame
  <1>5. g \in Frame /\ g.at = top.at + 1 /\ ~g.loop
    <2>1. <<>> \in Seq(Group) /\ <<>> \in Seq(Val)
      OBVIOUS
    <2> QED
      BY <1>2, <1>3, <2>1 DEF NewFrame, Frame
  <1>6. stack' = Append(s, g)
    BY DEF top
  <1> HIDE DEF f, g
  <1>7. /\ s \in Seq(Frame) /\ Len(s) = depth /\ s[depth] = f
        /\ \A a \in 1..(depth - 1) : s[a] = stack[a]
    BY <1>1, <1>4, ReplaceTop DEF depth
  <1> HIDE DEF s
  <1>8. /\ stack' \in Seq(Frame) /\ stack' # <<>> /\ Len(stack') = depth + 1
        /\ stack'[depth + 1] = g /\ stack'[depth] = f
        /\ \A a \in 1..(depth - 1) : stack'[a] = stack[a]
    <2>1. /\ Append(s, g) \in Seq(Frame) /\ Append(s, g) # <<>>
          /\ Len(Append(s, g)) = Len(s) + 1
          /\ \A a \in 1..Len(s) : Append(s, g)[a] = s[a]
          /\ Append(s, g)[Len(s) + 1] = g
      BY <1>5, <1>7, PushFrame
    <2>2. depth \in 1..depth /\ \A a \in 1..(depth - 1) : a \in 1..depth
      BY <1>1
    <2> QED
      BY <1>6, <1>7, <2>1, <2>2
  <1>9. depth' = depth + 1 /\ top' = g
    BY <1>8 DEF depth, top
  <1>10. Loops' = Loops
    BY <1>1, <1>5, <1>8, <1>9 DEF Loops
  <1>11. StackOK'
    <2>1. \A a \in 1..depth : stack'[a].loop
      <3> SUFFICES ASSUME NEW a \in 1..depth PROVE stack'[a].loop
        OBVIOUS
      <3>1. CASE a = depth
        BY <1>4, <1>8, <3>1
      <3>2. CASE a # depth
        <4>1. a \in 1..(depth - 1)
          BY <1>1, <3>2
        <4> QED
          BY <1>8, <4>1 DEF Inv, StackOK
      <3> QED
        BY <3>1, <3>2
    <2>2. \A a \in 1..(depth + 1) : stack'[a].loop => stack'[a].at <= Len(template)
      BY <1>1, <1>2, <1>4, <1>5, <1>8 DEF Inv, StackOK
    <2>3. \A a \in 1..depth : stack'[a].at < stack'[a + 1].at
      <3> SUFFICES ASSUME NEW a \in 1..depth PROVE stack'[a].at < stack'[a + 1].at
        OBVIOUS
      <3>1. CASE a = depth
        <4>1. stack'[a] = f /\ stack'[a + 1] = g
          BY <1>8, <3>1
        <4> QED
          <5>1. stack'[a].at = top.at /\ stack'[a + 1].at = top.at + 1
            BY <1>4, <1>5, <4>1
          <5>2. top.at < top.at + 1
            BY <1>2
          <5> HIDE DEF f, g
          <5> QED
            BY <5>1, <5>2, Zenon
      <3>2. CASE a # depth
        <4>1. stack[a].at < stack[a + 1].at
          BY <1>1, <3>2 DEF Inv, StackOK
        <4>2. CASE a + 1 = depth
          <5>1. stack[a + 1].at = f.at
            BY <1>4, <4>2 DEF top
          <5> QED
            BY <1>1, <1>8, <4>1, <4>2, <5>1
        <4>3. CASE a + 1 # depth
          BY <1>1, <1>8, <3>2, <4>1, <4>3
        <4> QED
          BY <4>2, <4>3
      <3> QED
        BY <3>1, <3>2
    <2>4. depth' - 1 = depth
      BY <1>1, <1>9
    <2> QED
      BY <1>9, <2>1, <2>2, <2>3, <2>4 DEF StackOK
  <1>12. rootAt' \in 0..Len(template)
    BY <1>2
  <1> QED
    BY <1>8, <1>10, <1>11, <1>12 DEF f, g

LEMMA PopCall ==
  ASSUME Inv, status = "running", ~top.loop, PassUp(top.full), UNCHANGED template
  PROVE  /\ stack' \in Seq(Frame)
         /\ status' = IF stack' = <<>> THEN "done" ELSE "running"
         /\ result' \in Seq(Group)
         /\ StackOK'
         /\ Loops' = Loops
         /\ depth = 1 => stack' = <<>> /\ result' = top.full
         /\ depth # 1 => /\ Len(stack') = depth - 1 /\ UNCHANGED result
                         /\ stack'[depth - 1]
                              = IF stack[depth - 1].dry THEN stack[depth - 1]
                                ELSE [stack[depth - 1] EXCEPT !.full = @ \o top.full]
                         /\ \A a \in 1..(depth - 2) : stack'[a] = stack[a]
  <1>1. /\ depth \in Nat \ {0} /\ top \in Frame /\ stack \in Seq(Frame) /\ stack # <<>>
        /\ \A a \in 1..depth : stack[a] \in Frame
    BY TopFacts
  <1>2. Loops = depth - 1
    BY <1>1 DEF Loops
  <1>3. CASE depth = 1
    <2>1. stack' = <<>> /\ status' = "done" /\ result' = top.full
      BY <1>3 DEF PassUp
    <2>2. depth' = 0 /\ Loops' = 0
      BY <2>1 DEF depth, Loops
    <2>3. StackOK'
      BY <2>1, <2>2 DEF StackOK
    <2>4. stack' \in Seq(Frame) /\ result' \in Seq(Group)
      BY <1>1, <2>1 DEF Frame
    <2> QED
      BY <1>2, <1>3, <2>1, <2>2, <2>3, <2>4
  <1>4. CASE depth # 1
    <2> DEFINE p == stack[depth - 1]
               q == IF p.dry THEN p ELSE [p EXCEPT !.full = @ \o top.full]
    <2>1. p \in Frame /\ p.loop /\ p.at <= Len(template)
      BY <1>1, <1>4 DEF Inv, StackOK
    <2>2. q \in Frame /\ q.loop /\ q.at = p.at
      <3>1. p.full \o top.full \in Seq(Group)
        BY <1>1, <2>1, ConcatProperties DEF Frame
      <3> QED
        BY <2>1, <3>1 DEF Frame
    <2>3. /\ below \in Seq(Frame) /\ below # <<>> /\ Len(below) = depth - 1
          /\ \A a \in 1..(depth - 1) : below[a] = stack[a]
      <3>1. Len(stack) = depth
        BY DEF depth
      <3>2. depth > 1
        BY <1>1, <1>4
      <3> QED
        BY <1>1, <3>1, <3>2, PopFrame DEF below
    <2>4. stack' = [below EXCEPT ![depth - 1] = q]
      <3>1. p = below[depth - 1]
        BY <1>1, <1>4, <2>3
      <3>2. CASE p.dry
        <4>1. stack' = below
          BY <1>4, <3>2 DEF PassUp
        <4>2. [below EXCEPT ![depth - 1] = below[depth - 1]] = below
          BY <2>3
        <4> QED
          BY <3>1, <3>2, <4>1, <4>2
      <3>3. CASE ~p.dry
        BY <1>4, <3>1, <3>3 DEF PassUp
      <3> QED
        BY <3>2, <3>3
    <2>5. UNCHANGED <<status, result>>
      BY <1>4 DEF PassUp
    <2> HIDE DEF q
    <2>6. /\ stack' \in Seq(Frame) /\ stack' # <<>> /\ Len(stack') = depth - 1
          /\ stack'[depth - 1] = q
          /\ \A a \in 1..(depth - 2) : stack'[a] = stack[a]
      <3>1. /\ [below EXCEPT ![Len(below)] = q] \in Seq(Frame)
            /\ [below EXCEPT ![Len(below)] = q] # <<>>
            /\ Len([below EXCEPT ![Len(below)] = q]) = Len(below)
            /\ [below EXCEPT ![Len(below)] = q][Len(below)] = q
            /\ \A a \in 1..(Len(below) - 1) : [below EXCEPT ![Len(below)] = q][a] = below[a]
        BY <2>2, <2>3, ReplaceTop
      <3> QED
        BY <1>1, <2>3, <2>4, <3>1
    <2>7. depth' = depth - 1 /\ top' = q
      BY <2>6 DEF depth, top
    <2>8. Loops' = Loops
      BY <1>1, <1>2, <2>2, <2>6, <2>7 DEF Loops
    <2>9. StackOK'
      <3>1. \A a \in 1..(depth - 1) : stack'[a].loop /\ stack'[a].at = stack[a].at
        <4> SUFFICES ASSUME NEW a \in 1..(depth - 1)
                     PROVE  stack'[a].loop /\ stack'[a].at = stack[a].at
          OBVIOUS
        <4>1. CASE a = depth - 1
          BY <2>2, <2>6, <4>1
        <4>2. CASE a # depth - 1
          <5>1. a \in 1..(depth - 2)
            BY <1>1, <4>2
          <5> QED
            BY <2>6, <5>1 DEF Inv, StackOK
        <4> QED
          BY <4>1, <4>2
      <3> QED
        BY <1>1, <1>4, <2>7, <3>1 DEF Inv, StackOK
    <2> QED
      BY <1>4, <2>5, <2>6, <2>8, <2>9 DEF Inv, TypeOK, q
  <1> QED
    BY <1>3, <1>4
--------------------------------------------------------------------------------
LEMMA InvInit == Init => Inv
  <1> SUFFICES ASSUME Init PROVE Inv
    OBVIOUS
  <1>1. template \in Seq(Node) /\ Len(template) \in Nat
    BY WalkAssumption DEF Init
  <1>2. <<>> \in Seq(Frame) /\ <<>> \in Seq(Group)
    OBVIOUS
  <1>3. TypeOK
    BY <1>1, <1>2, WalkAssumption DEF Init, TypeOK
  <1>4. StackOK /\ Loops = 0
    BY DEF Init, StackOK, Loops, depth
  <1> QED
    BY <1>3, <1>4 DEF Init, Inv

LEMMA InvStep == Inv /\ [Next]_vars => Inv'
  <1> SUFFICES ASSUME Inv, [Next]_vars PROVE Inv'
    OBVIOUS
  <1> DEFINE Fresh == calls <= 1 /\ status \in {"idle", "running", "done"}
  <1>0. /\ Len(template) \in Nat /\ MaxCalls \in Nat
        /\ beginRange \in Nat /\ inRange \in Nat /\ endRange \in Nat
        /\ Loops \in Nat
    <2>1. template \in Seq(Node) /\ stack \in Seq(Frame)
      BY WalkAssumption DEF Inv, TypeOK
    <2>2. stack # <<>> => depth \in Nat \ {0}
      BY <2>1, EmptySeq DEF depth
    <2> QED
      BY <2>1, <2>2, WalkAssumption DEF Inv, TypeOK, Loops
  <1>1. CASE Call
    <2> DEFINE f == NewFrame(Root)
    <2>1. stack' = <<f>> /\ rootAt' = rootAt
      BY <1>1 DEF Call
    <2>2. f \in Frame /\ ~f.loop
      <3>1. <<>> \in Seq(Group) /\ <<>> \in Seq(Val)
        OBVIOUS
      <3>2. rootAt' + 1 \in Nat \ {0}
        BY <1>0, <2>1 DEF Inv, TypeOK
      <3> QED
        BY <3>1, <3>2, FixedVals DEF NewFrame, Frame
    <2> HIDE DEF f
    <2>3. stack' \in Seq(Frame) /\ stack' # <<>> /\ Len(stack') = 1 /\ stack'[1] = f
      BY <2>1, <2>2
    <2>4. depth' = 1 /\ top' = f
      BY <2>3 DEF depth, top
    <2>5. StackOK' /\ Loops' = 0
      BY <2>2, <2>3, <2>4 DEF StackOK, Loops
    <2>6. TypeOK'
      BY <1>0, <1>1, <2>3 DEF Call, Inv, TypeOK, counters
    <2>7. status \in {"idle", "done"} \/ calls > 0
      BY DEF Inv, TypeOK
    <2>8. status # "idle" => ~Fresh'
      BY <1>1, <1>0 DEF Call, Inv, TypeOK
    <2>9. stack = <<>>
      BY <1>1 DEF Call, Inv, TypeOK
    <2> QED
      BY <1>0, <1>1, <2>5, <2>6, <2>8, <2>9 DEF Call, Inv, TypeOK, counters, Loops
  <1>2. CASE WalkFails
    <2>1. /\ stack' = <<>> /\ status' = outcome.st /\ outcome.st \in {"error", "panic"}
          /\ beginRange' = begun /\ endRange' = ended
          /\ UNCHANGED <<template, rootAt, inRange, lastEnd, result, calls>>
      <3>1. outcome.st \in {"ok", "error", "panic"}
        BY DEF outcome, Outcome, Eval, Select, Missing
      <3> QED
        BY <1>2, <3>1 DEF WalkFails, Unwind
    <2>2. begun \in Nat /\ ended \in Nat
      BY <1>2, NodeFacts DEF WalkFails
    <2>3. StackOK' /\ Loops' = 0
      BY <2>1 DEF StackOK, Loops, depth
    <2>4. TypeOK'
      BY <2>1, <2>2 DEF Inv, TypeOK
    <2> QED
      BY <1>0, <1>2, <2>1, <2>3, <2>4 DEF Inv, WalkFails, AtNode
  <1>3. CASE VisitEnd
    <2>1. /\ status = "running" /\ ~top.loop /\ PassUp(top.full)
          /\ ended > 0 /\ endRange' = ended - 1 /\ beginRange' = begun /\ lastEnd' = top.at
          /\ ended <= inRange
          /\ UNCHANGED <<template, rootAt, inRange, calls>>
      BY <1>3 DEF VisitEnd, AtNode
    <2>2. /\ top.at \in 1..Len(template)
          /\ begun \in Nat /\ ended \in Nat
          /\ begun = beginRange + (IF node.cmd = "range" THEN 1 ELSE 0)
          /\ ended = endRange + (IF node.cmd = "end" /\ inRange > 0 THEN 1 ELSE 0)
      BY <1>3, NodeFacts DEF VisitEnd
    <2>3. /\ stack' \in Seq(Frame)
          /\ status' = IF stack' = <<>> THEN "done" ELSE "running"
          /\ result' \in Seq(Group)
          /\ StackOK'
          /\ Loops' = Loops
      BY <2>1, PopCall
    <2>4. TypeOK'
      BY <1>0, <2>1, <2>2, <2>3 DEF Inv, TypeOK
    <2>5. Fresh' => beginRange' = 0 /\ endRange' = 0
      <3> SUFFICES ASSUME Fresh' PROVE beginRange' = 0 /\ endRange' = 0
        OBVIOUS
      <3>1. beginRange = 0 /\ endRange = 0
        BY <2>1 DEF Inv
      <3>2. node.cmd = "end"
        BY <2>1, <2>2, <3>1
      <3> QED
        BY <2>1, <2>2, <3>1, <3>2
    <2> QED
      BY <1>0, <2>1, <2>3, <2>4, <2>5 DEF Inv
  <1>4. CASE VisitRange
    <2> DEFINE f == [top EXCEPT !.loop = TRUE,
                                !.dry = (outcome.vals = <<>>),
                                !.todo = IF outcome.vals = <<>> THEN <<Nil>> ELSE outcome.vals]
    <2>1. /\ status = "running" /\ ~top.loop /\ Replace(f)
          /\ outcome.st = "ok" /\ ~(ended > 0 /\ ended <= inRange)
          /\ begun > 0 /\ beginRange' = begun - 1 /\ inRange' = inRange + 1 /\ endRange' = ended
          /\ UNCHANGED <<template, rootAt, lastEnd, status, result, calls>>
      BY <1>4 DEF VisitRange, AtNode
    <2>2. /\ top.at \in 1..Len(template) /\ outcome.vals \in Seq(Val)
          /\ begun \in Nat /\ ended \in Nat
          /\ begun = beginRange + (IF node.cmd = "range" THEN 1 ELSE 0)
          /\ ended = endRange + (IF node.cmd = "end" /\ inRange > 0 THEN 1 ELSE 0)
      BY <1>4, NodeFacts DEF VisitRange
    <2>3. f \in Frame /\ f.loop /\ f.at = top.at
      <3>1. <<Nil>> \in Seq(Val)
        BY FixedVals
      <3> QED
        BY <2>1, <2>2, <3>1, TopFacts DEF Frame
    <2> HIDE DEF f
    <2>4. /\ stack' \in Seq(Frame) /\ stack' # <<>>
          /\ StackOK'
          /\ Loops' = depth - 1 + 1
      BY <1>0, <2>1, <2>2, <2>3, ChangeTop
    <2>5. Loops = depth - 1 /\ depth \in Nat \ {0}
      BY <2>1, TopFacts DEF Loops
    <2>6. TypeOK'
      BY <1>0, <2>1, <2>2, <2>4 DEF Inv, TypeOK
    <2>7. Fresh' => beginRange' = 0 /\ endRange' = 0
      <3> SUFFICES ASSUME Fresh' PROVE beginRange' = 0 /\ endRange' = 0
        OBVIOUS
      <3>1. beginRange = 0 /\ endRange = 0
        BY <2>1 DEF Inv
      <3>2. node.cmd = "range"
        BY <2>1, <2>2, <3>1
      <3> QED
        BY <2>1, <2>2, <3>1, <3>2
    <2> QED
      BY <1>0, <2>1, <2>4, <2>5, <2>6, <2>7 DEF Inv
  <1>5. CASE VisitValue
    <2> DEFINE g == [node |-> top.at, vals |-> outcome.vals]
               f == [top EXCEPT !.at = @ + 1, !.full = Append(@, g)]
    <2>1. /\ status = "running" /\ ~top.loop /\ Replace(f)
          /\ outcome.st = "ok" /\ ~(ended > 0 /\ ended <= inRange)
          /\ begun = 0 /\ beginRange' = begun /\ endRange' = ended
          /\ UNCHANGED <<template, rootAt, inRange, lastEnd, status, result, calls>>
      BY <1>5 DEF VisitValue, AtNode
    <2>2. /\ top.at \in 1..Len(template) /\ outcome.vals \in Seq(Val)
          /\ begun \in Nat /\ ended \in Nat
          /\ ended = endRange + (IF node.cmd = "end" /\ inRange > 0 THEN 1 ELSE 0)
          /\ node.cmd = "end" => inRange > 0
      BY <1>5, <2>1, NodeFacts DEF VisitValue
    <2>3. f \in Frame /\ ~f.loop /\ f.at = top.at + 1
      <3>1. g \in Group
        BY <1>0, <2>2 DEF Group
      <3>2. Append(top.full, g) \in Seq(Group)
        BY <2>1, <3>1, TopFacts, AppendProperties DEF Frame
      <3>3. top \in Frame /\ top.at + 1 \in Nat \ {0}
        BY <1>0, <2>1, TopFacts DEF Frame
      <3> HIDE DEF g
      <3>4. f = [top EXCEPT !.at = top.at + 1, !.full = Append(top.full, g)]
        BY <3>3 DEF Frame
      <3>5. f \in Frame /\ f.loop = top.loop /\ f.at = top.at + 1
        BY <3>2, <3>3, <3>4 DEF Frame
      <3> QED
        BY <2>1, <3>5
    <2> HIDE DEF f
    <2>4. /\ stack' \in Seq(Frame) /\ stack' # <<>>
          /\ StackOK'
          /\ Loops' = depth - 1 + 0
      BY <1>0, <2>1, <2>2, <2>3, ChangeTop
    <2>5. Loops = depth - 1 /\ depth \in Nat \ {0}
      BY <2>1, TopFacts DEF Loops
    <2>6. TypeOK'
      BY <1>0, <2>1, <2>2, <2>4 DEF Inv, TypeOK
    <2>7. Fresh' => beginRange' = 0 /\ endRange' = 0
      <3> SUFFICES ASSUME Fresh' PROVE beginRange' = 0 /\ endRange' = 0
        OBVIOUS
      <3>1. endRange = 0
        BY <2>1 DEF Inv
      <3>2. node.cmd # "end"
        BY <1>0, <2>1, <2>2, <3>1
      <3> QED
        BY <2>1, <2>2, <3>1, <3>2
    <2> QED
      BY <1>0, <2>1, <2>4, <2>5, <2>6, <2>7 DEF Inv
  <1>6. CASE FallOff
    <2>1. /\ status = "running" /\ ~top.loop /\ PassUp(top.full)
          /\ UNCHANGED <<template, rootAt, beginRange, inRange, endRange, lastEnd, calls>>
      BY <1>6 DEF FallOff, counters
    <2>2. /\ stack' \in Seq(Frame)
          /\ status' = IF stack' = <<>> THEN "done" ELSE "running"
          /\ result' \in Seq(Group)
          /\ StackOK'
          /\ Loops' = Loops
      BY <2>1, PopCall
    <2>3. TypeOK'
      BY <1>0, <2>1, <2>2 DEF Inv, TypeOK
    <2> QED
      BY <1>0, <2>1, <2>2, <2>3 DEF Inv
  <1>7. CASE Iterate
    <2>1. /\ status = "running" /\ top.loop /\ top.todo # <<>> /\ rootAt' = top.at
          /\ UNCHANGED <<template, beginRange, inRange, endRange, lastEnd, status, result, calls>>
      BY <1>7 DEF Iterate, counters
    <2>2. /\ rootAt' \in 0..Len(template)
          /\ stack' \in Seq(Frame) /\ stack' # <<>>
          /\ StackOK'
          /\ Loops' = Loops
      BY <1>7, <2>1, PushCall DEF Iterate
    <2>3. TypeOK'
      BY <1>0, <2>1, <2>2 DEF Inv, TypeOK
    <2> QED
      BY <1>0, <2>1, <2>2, <2>3 DEF Inv
  <1>8. CASE IterateNil
    <2>1. /\ status = "running" /\ top.loop /\ rootAt' = top.at
          /\ status' = "panic" /\ stack' = <<>>
          /\ UNCHANGED <<template, beginRange, inRange, endRange, lastEnd, result, calls>>
      BY <1>8 DEF IterateNil, counters
    <2>2. top.at \in 1..Len(template)
      BY <1>0, <2>1, TopFacts DEF Inv, StackOK, top, Frame
    <2>3. StackOK' /\ Loops' = 0
      BY <2>1 DEF StackOK, Loops, depth
    <2>4. TypeOK'
      BY <1>0, <2>1, <2>2 DEF Inv, TypeOK
    <2> QED
      BY <1>0, <2>1, <2>3, <2>4 DEF Inv
  <1>9. CASE EndLoop
    <2> DEFINE f == [top EXCEPT !.loop = FALSE, !.dry = FALSE,
                                !.at = IF lastEnd > @ THEN lastEnd + 1 ELSE @ + 1]
    <2>1. /\ status = "running" /\ top.loop /\ Replace(f) /\ inRange' = inRange - 1
          /\ UNCHANGED <<template, rootAt, beginRange, endRange, lastEnd, status, result, calls>>
      BY <1>9 DEF EndLoop
    <2>2. top.at \in Nat \ {0} /\ lastEnd \in Nat
      BY <1>0, <2>1, TopFacts DEF Frame, Inv, TypeOK
    <2>3. f \in Frame /\ ~f.loop /\ f.at >= top.at
      <3> DEFINE past == IF lastEnd > top.at THEN lastEnd + 1 ELSE top.at + 1
      <3>1. top \in Frame
        BY <2>1, TopFacts
      <3>2. past \in Nat \ {0} /\ past >= top.at
        BY <2>2
      <3>3. f = [top EXCEPT !.loop = FALSE, !.dry = FALSE, !.at = past]
        BY <3>1 DEF Frame
      <3> HIDE DEF past
      <3>4. f \in Frame /\ f.loop = FALSE /\ f.at = past
        BY <3>1, <3>2, <3>3 DEF Frame
      <3> QED
        BY <3>2, <3>4
    <2> HIDE DEF f
    <2>4. /\ stack' \in Seq(Frame) /\ stack' # <<>>
          /\ StackOK'
          /\ Loops' = depth - 1 + 0
      BY <2>1, <2>3, ChangeTop
    <2>5. Loops = depth /\ depth \in Nat \ {0}
      BY <2>1, TopFacts DEF Loops
    <2>6. inRange' \in Nat /\ inRange' >= Loops'
      BY <1>0, <2>1, <2>4, <2>5 DEF Inv
    <2>7. TypeOK'
      BY <1>0, <2>1, <2>4, <2>6 DEF Inv, TypeOK
    <2> QED
      BY <1>0, <2>1, <2>4, <2>5, <2>6, <2>7 DEF Inv
  <1>10. CASE UNCHANGED vars
    BY <1>10 DEF vars, counters, Inv, TypeOK, StackOK, Loops, depth, top
  <1> QED
    BY <1>1, <1>2, <1>3, <1>4, <1>5, <1>6, <1>7, <1>8, <1>9, <1>10 DEF Next, Step

THEOREM Invariance == Spec => []Inv
  BY InvInit, InvStep, PTL DEF Spec

(* The evaluator's state keeps its Go types: inRange never drops below zero,   *)
(* also after calls that failed with loops open.                               *)
THEOREM TypeCorrect == Spec => []TypeOK
  <1>1. Inv => TypeOK
    BY DEF Inv
  <1> QED
    BY <1>1, Invariance, PTL

(* On a fresh JSONPath the three counters always say which loops are open, for *)
(* every template, balanced or not; after calls that failed with loops open    *)
(* inRange still counts every loop that is open.                               *)
THEOREM CountersAreExact == Spec => []CountersExact
  <1>1. Inv => CountersExact
    BY DEF Inv, StackOK, CountersExact
  <1> QED
    BY <1>1, Invariance, PTL

(* Nested calls work on ever later nodes: the recursion is bounded.            *)
THEOREM RecursionDescends == Spec => []Descends
  <1>1. Inv => Descends
    BY DEF Inv, StackOK, Descends
  <1> QED
    BY <1>1, Invariance, PTL
--------------------------------------------------------------------------------
(* Induction over the natural numbers and over sequences, for sets.            *)
Smaller == {ss \in Nat \X Nat : ss[1] < ss[2]}

LEMMA Induct ==
  ASSUME NEW P, 0 \in P, \A x \in Nat : x \in P => x + 1 \in P
  PROVE  Nat \subseteq P
  <1> DEFINE I == Nat \ P
  <1> SUFFICES ASSUME I # {} PROVE FALSE
    OBVIOUS
  <1>1. IsWellFoundedOn(Smaller, Nat)
    BY NatLessThanWellFounded DEF OpToRel, Smaller
  <1>2. PICK x \in I : \A y \in I : ~ (<<y, x>> \in Smaller)
    <2> HIDE DEF I
    <2>1. I \subseteq Nat
      BY DEF I
    <2> QED
      BY <1>1, <2>1, WFMin
  <1>3. x \in Nat /\ x # 0 /\ x - 1 \in Nat
    OBVIOUS
  <1>4. x - 1 \in P
    <2>1. <<x - 1, x>> \in Nat \X Nat /\ x - 1 < x
      BY <1>3
    <2> QED
      BY <1>2, <1>3, <2>1 DEF Smaller
  <1>5. (x - 1) + 1 = x
    BY <1>3
  <1> QED
    BY <1>3, <1>4, <1>5

LEMMA SeqInduct ==
  ASSUME NEW S, NEW P, <<>> \in P,
         \A s \in Seq(S), x \in S : s \in P => Append(s, x) \in P
  PROVE  Seq(S) \subseteq P
  <1> DEFINE I == {z \in Nat : \A s \in Seq(S) : Len(s) = z => s \in P}
  <1>1. 0 \in I
    <2>1. \A s \in Seq(S) : Len(s) = 0 => s = <<>>
      BY EmptySeq
    <2> QED
      BY <2>1
  <1>2. ASSUME NEW z \in Nat, z \in I PROVE z + 1 \in I
    <2> SUFFICES ASSUME NEW s \in Seq(S), Len(s) = z + 1 PROVE s \in P
      OBVIOUS
    <2>1. s[z + 1] \in S /\ SubSeq(s, 1, z) \in Seq(S) /\ Len(SubSeq(s, 1, z)) = z
      <3>1. \A a \in 1..z : s[a] \in S
        BY ElementOfSeq
      <3>2. s[z + 1] \in S
        BY ElementOfSeq
      <3>3. Len(SubSeq(s, 1, z)) = IF 1 <= z THEN z - 1 + 1 ELSE 0
        BY <3>1, SubSeqProperties
      <3>4. SubSeq(s, 1, z) \in Seq(S)
        BY <3>1, SubSeqProperties
      <3> QED
        BY <3>2, <3>3, <3>4
    <2>2. s = Append(SubSeq(s, 1, z), s[z + 1])
      <3>1. s \in Seq(S) /\ Len(s) # 0
        OBVIOUS
      <3>2. SubSeq(s, 1, z + 1) = SubSeq(s, 1, (z + 1) - 1) \o <<s[z + 1]>>
        BY SubSeqRecursiveSecond
      <3>3. SubSeq(s, 1, z + 1) = s /\ (z + 1) - 1 = z
        BY SubSeqFull
      <3>4. SubSeq(s, 1, z) \o <<s[z + 1]>> = Append(SubSeq(s, 1, z), s[z + 1])
        BY <2>1
      <3> QED
        BY <3>2, <3>3, <3>4
    <2> QED
      BY <1>2, <2>1, <2>2
  <1> HIDE DEF I
  <1>3. Nat \subseteq I
    BY <1>1, <1>2, Induct
  <1>4. \A s \in Seq(S) : Len(s) \in I /\ Len(s) \in Nat
    BY <1>3, LenProperties
  <1> QED
    BY <1>4 DEF I

(* FlattenSeq, piece by piece.                                                 *)
Upto(ss, z, f) == f = [i \in 1..z |-> IF i = 1 THEN ss[i] ELSE f[i - 1] \o ss[i]]

LEMMA UptoExists ==
  ASSUME NEW ss, NEW z \in Nat
  PROVE  \E f : Upto(ss, z, f)
  <1> DEFINE P == {m \in Nat : \E f : Upto(ss, m, f)}
  <1>1. 0 \in P
    <2>1. Upto(ss, 0, [i \in 1..0 |-> ss[i]])
      BY DEF Upto
    <2> QED
      BY <2>1
  <1>2. ASSUME NEW m \in Nat, m \in P PROVE m + 1 \in P
    <2>1. PICK f : Upto(ss, m, f)
      BY <1>2
    <2> DEFINE g == [i \in 1..(m + 1) |->
                        IF i = m + 1 THEN IF m = 0 THEN ss[i] ELSE f[m] \o ss[i] ELSE f[i]]
    <2>2. Upto(ss, m + 1, g)
      <3>1. \A i \in 1..m : f[i] = IF i = 1 THEN ss[i] ELSE f[i - 1] \o ss[i]
        BY <2>1 DEF Upto
      <3>2. \A i \in 1..m : g[i] = f[i]
        OBVIOUS
      <3>3. \A i \in 1..m : i # 1 => i - 1 \in 1..m
        OBVIOUS
      <3>4. \A i \in 1..m : g[i] = IF i = 1 THEN ss[i] ELSE g[i - 1] \o ss[i]
        <4> HIDE DEF g
        <4> QED
          BY <3>1, <3>2, <3>3
      <3>5. g[m + 1] = IF m + 1 = 1 THEN ss[m + 1] ELSE g[(m + 1) - 1] \o ss[m + 1]
        <4>1. m # 0 => m \in 1..m /\ (m + 1) - 1 = m /\ m + 1 # 1
          OBVIOUS
        <4>2. g[m + 1] = IF m = 0 THEN ss[m + 1] ELSE f[m] \o ss[m + 1]
          OBVIOUS
        <4> HIDE DEF g
        <4> QED
          BY <3>2, <4>1, <4>2
      <3>6. \A i \in 1..(m + 1) : i \in 1..m \/ i = m + 1
        OBVIOUS
      <3>7. g = [i \in 1..(m + 1) |-> g[i]]
        OBVIOUS
      <3> HIDE DEF g
      <3>8. \A i \in 1..(m + 1) : g[i] = IF i = 1 THEN ss[i] ELSE g[i - 1] \o ss[i]
        BY <3>4, <3>5, <3>6
      <3>9. [i \in 1..(m + 1) |-> g[i]]
              = [i \in 1..(m + 1) |-> IF i = 1 THEN ss[i] ELSE g[i - 1] \o ss[i]]
        BY <3>8
      <3> QED
        BY <3>7, <3>9 DEF Upto
    <2> QED
      BY <2>2
  <1> HIDE DEF P
  <1>3. Nat \subseteq P
    BY <1>1, <1>2, Induct
  <1> QED
    BY <1>3 DEF P

LEMMA FlattenUpto ==
  ASSUME NEW ss, Len(ss) \in Nat, Len(ss) # 0
  PROVE  \E f : Upto(ss, Len(ss), f) /\ FlattenSeq(ss) = f[Len(ss)]
  <1> DEFINE f == CHOOSE g : g = [i \in 1..Len(ss) |-> IF i = 1 THEN ss[i] ELSE g[i - 1] \o ss[i]]
  <1>1. FlattenSeq(ss) = f[Len(ss)]
    BY DEF FlattenSeq
  <1>2. Upto(ss, Len(ss), f)
    BY UptoExists DEF Upto
  <1> QED
    BY <1>1, <1>2

LEMMA FlattenEmpty == FlattenSeq(<<>>) = <<>>
  BY EmptySeq DEF FlattenSeq

LEMMA UptoSame ==
  ASSUME NEW ss, NEW tt, NEW z \in Nat, NEW m \in 1..z, NEW f, NEW g,
         \A i \in 1..m : ss[i] = tt[i], Upto(ss, m, f), Upto(tt, z, g)
  PROVE  f[m] = g[m]
  <1> DEFINE P == {i \in Nat : i \in 1..m => f[i] = g[i]}
  <1>0. /\ \A i \in 1..m : f[i] = IF i = 1 THEN ss[i] ELSE f[i - 1] \o ss[i]
        /\ \A i \in 1..z : g[i] = IF i = 1 THEN tt[i] ELSE g[i - 1] \o tt[i]
    BY DEF Upto
  <1>1. 0 \in P
    OBVIOUS
  <1>2. ASSUME NEW i \in Nat, i \in P PROVE i + 1 \in P
    <2> SUFFICES ASSUME i + 1 \in 1..m PROVE f[i + 1] = g[i + 1]
      OBVIOUS
    <2>1. i + 1 \in 1..z /\ (i + 1) - 1 = i /\ (i + 1 # 1 => i \in 1..m)
      OBVIOUS
    <2>2. i + 1 # 1 => f[i] = g[i]
      BY <1>2, <2>1
    <2>3. f[i + 1] = IF i + 1 = 1 THEN ss[i + 1] ELSE f[i] \o ss[i + 1]
      BY <1>0, <2>1
    <2>4. g[i + 1] = IF i + 1 = 1 THEN tt[i + 1] ELSE g[i] \o tt[i + 1]
      BY <1>0, <2>1
    <2> QED
      BY <2>2, <2>3, <2>4
  <1> HIDE DEF P
  <1>3. Nat \subseteq P
    BY <1>1, <1>2, Induct
  <1>4. m \in P /\ m \in 1..m
    BY <1>3
  <1> QED
    BY <1>4 DEF P

LEMMA FlattenAppend ==
  ASSUME NEW S, NEW ss \in Seq(Seq(S)), NEW x \in Seq(S)
  PROVE  FlattenSeq(Append(ss, x)) = FlattenSeq(ss) \o x
  <1> DEFINE tt == Append(ss, x)
             z == Len(ss)
  <1>1. z \in Nat /\ Len(tt) = z + 1 /\ tt[z + 1] = x /\ \A i \in 1..z : tt[i] = ss[i]
    BY AppendProperties, LenProperties
  <1> HIDE DEF tt
  <1>2. PICK g : Upto(tt, z + 1, g) /\ FlattenSeq(tt) = g[z + 1]
    BY <1>1, FlattenUpto
  <1>3. g[z + 1] = IF z + 1 = 1 THEN tt[z + 1] ELSE g[(z + 1) - 1] \o tt[z + 1]
    <2>1. z + 1 \in 1..(z + 1)
      BY <1>1
    <2> HIDE DEF z
    <2> QED
      BY <1>2, <2>1 DEF Upto
  <1>4. CASE z = 0
    <2>1. ss = <<>> /\ g[z + 1] = x
      BY <1>1, <1>3, <1>4, EmptySeq
    <2>2. <<>> \o x = x
      BY ConcatEmptySeq
    <2> QED
      BY <1>2, <2>1, <2>2, FlattenEmpty DEF tt
  <1>5. CASE z # 0
    <2>1. PICK f : Upto(ss, z, f) /\ FlattenSeq(ss) = f[z]
      BY <1>1, <1>5, FlattenUpto
    <2>2. f[z] = g[z]
      <3>1. z + 1 \in Nat /\ z \in 1..(z + 1) /\ \A i \in 1..z : ss[i] = tt[i]
        BY <1>1, <1>5
      <3> HIDE DEF z
      <3> QED
        BY <1>1, <1>2, <2>1, <3>1, UptoSame
    <2>3. g[z + 1] = g[z] \o x
      BY <1>1, <1>3, <1>5
    <2> QED
      BY <1>2, <2>1, <2>2, <2>3 DEF tt
  <1> QED
    BY <1>4, <1>5

LEMMA FlattenType ==
  ASSUME NEW S, NEW ss \in Seq(Seq(S))
  PROVE  FlattenSeq(ss) \in Seq(S)
  <1> DEFINE P == {s \in Seq(Seq(S)) : FlattenSeq(s) \in Seq(S)}
  <1>1. <<>> \in P
    BY FlattenEmpty, EmptySeq
  <1>2. ASSUME NEW s \in Seq(Seq(S)), NEW x \in Seq(S), s \in P PROVE Append(s, x) \in P
    BY <1>2, FlattenAppend, AppendProperties, ConcatProperties
  <1> HIDE DEF P
  <1>3. Seq(Seq(S)) \subseteq P
    BY <1>1, <1>2, SeqInduct
  <1> QED
    BY <1>3 DEF P


LEMMA FlattenHead ==
  ASSUME NEW S, NEW ss \in Seq(Seq(S)), ss # <<>>
  PROVE  FlattenSeq(ss) = Head(ss) \o FlattenSeq(Tail(ss))
  <1> DEFINE U == Seq(S)
             e == <<>>
             P == {s \in Seq(U) : s = e \/ FlattenSeq(s) = Head(s) \o FlattenSeq(Tail(s))}
  <1>0. e \in Seq(U) /\ e \in U /\ FlattenSeq(e) = e
    BY FlattenEmpty
  <1>1. e \in P
    BY <1>0
  <1>2. ASSUME NEW s \in Seq(U), NEW x \in U, s \in P PROVE Append(s, x) \in P
    <2> DEFINE w == Append(s, x)
    <2>1. w \in Seq(U) /\ FlattenSeq(w) = FlattenSeq(s) \o x /\ w # e
      <3>1. FlattenSeq(w) = FlattenSeq(s) \o x
        BY FlattenAppend
      <3> HIDE DEF U, e
      <3>2. w \in Seq(U)
        BY AppendProperties
      <3>3. w # <<>>
        BY AppendProperties, EmptySeq
      <3> QED
        BY <3>1, <3>2, <3>3 DEF e
    <2>2. CASE s = e
      <3>1. Head(w) = x /\ Tail(w) = e
        <4>1. w = <<x>>
          BY <2>2
        <4> QED
          BY <4>1
      <3>2. e \o x = x /\ x \o e = x
        BY ConcatEmptySeq
      <3> HIDE DEF w, e, P, U
      <3>3. FlattenSeq(w) = Head(w) \o FlattenSeq(Tail(w))
        BY <1>0, <2>1, <2>2, <3>1, <3>2
      <3> QED
        BY <2>1, <3>3 DEF P, w
    <2>3. CASE s # e
      <3> DEFINE r == Tail(s)
                 h == Head(s)
      <3>1. h \in U /\ r \in Seq(U)
        BY <2>3, HeadTailProperties
      <3>2. Head(w) = h /\ Tail(w) = Append(r, x)
        BY <2>3
      <3>3. FlattenSeq(Append(r, x)) = FlattenSeq(r) \o x
        BY <3>1, FlattenAppend
      <3>4. FlattenSeq(r) \in U
        BY <3>1, FlattenType
      <3>5. FlattenSeq(s) = h \o FlattenSeq(r)
        BY <1>2, <2>3
      <3> DEFINE f == FlattenSeq(r)
      <3> HIDE DEF w, e, P, r, h
      <3>6. (h \o f) \o x = h \o (f \o x)
        <4> HIDE DEF f
        <4>1. f \in Seq(S)
          BY <3>4 DEF f
        <4>2. h \in Seq(S)
          BY <3>1
        <4>3. x \in Seq(S)
          OBVIOUS
        <4> QED
          BY <4>1, <4>2, <4>3, ConcatAssociative
      <3>7. FlattenSeq(w) = Head(w) \o FlattenSeq(Tail(w))
        BY <2>1, <3>2, <3>3, <3>5, <3>6
      <3> QED
        BY <2>1, <3>7 DEF P, w
    <2> QED
      BY <2>2, <2>3
  <1> HIDE DEF P
  <1>3. Seq(U) \subseteq P
    <2>1. <<>> \in P
      BY <1>1
    <2> HIDE DEF U
    <2> QED
      BY <1>2, <2>1, SeqInduct
  <1>4. ss \in P /\ ss # e
    BY <1>3
  <1> HIDE DEF e
  <1> QED
    BY <1>4 DEF P

(* What the body of a loop yields on each value in turn.                       *)
Fun(F, S, T) == F \in [S -> T]
Each(F, s)   == FlattenSeq([c \in 1..Len(s) |-> F[s[c]]])

LEMMA EachSeq ==
  ASSUME NEW S, NEW T, NEW F, Fun(F, S, T), NEW s \in Seq(S)
  PROVE  [c \in 1..Len(s) |-> F[s[c]]] \in Seq(T)
  <1>1. Len(s) \in Nat /\ \A c \in 1..Len(s) : s[c] \in S
    BY LenProperties, ElementOfSeq
  <1>2. \A c \in 1..Len(s) : F[s[c]] \in T
    BY <1>1 DEF Fun
  <1> QED
    BY <1>1, <1>2

LEMMA EachType ==
  ASSUME NEW S, NEW T, NEW F, Fun(F, S, Seq(T)), NEW s \in Seq(S)
  PROVE  Each(F, s) \in Seq(T)
  <1> DEFINE U == Seq(T)
             f == [c \in 1..Len(s) |-> F[s[c]]]
  <1>1. f \in Seq(U)
    <2> HIDE DEF U
    <2>1. Fun(F, S, U)
      BY DEF U
    <2> QED
      BY <2>1, EachSeq
  <1>2. FlattenSeq(f) \in Seq(T)
    BY <1>1, FlattenType
  <1> HIDE DEF U
  <1> QED
    BY <1>2 DEF Each

LEMMA EachEmpty == \A F : Each(F, <<>>) = <<>>
  <1> SUFFICES ASSUME NEW F PROVE Each(F, <<>>) = <<>>
    OBVIOUS
  <1> DEFINE f == [c \in 1..Len(<<>>) |-> F[(<<>>)[c]]]
  <1>1. f = <<>>
    <2>1. Len(<<>>) = 0
      OBVIOUS
    <2>2. f \in [1..0 -> {}]
      BY <2>1
    <2> QED
      BY <2>2
  <1> HIDE DEF f
  <1>2. FlattenSeq(f) = <<>>
    BY <1>1, FlattenEmpty
  <1> QED
    BY <1>2 DEF Each, f

LEMMA EachHead ==
  ASSUME NEW S, NEW T, NEW F, Fun(F, S, Seq(T)), NEW s \in Seq(S), s # <<>>
  PROVE  Each(F, s) = F[Head(s)] \o Each(F, Tail(s))
  <1> DEFINE U == Seq(T)
             f == [c \in 1..Len(s) |-> F[s[c]]]
             r == Tail(s)
             g == [c \in 1..Len(r) |-> F[r[c]]]
  <1>1. /\ Head(s) = s[1] /\ r \in Seq(S) /\ Len(s) \in Nat \ {0} /\ Len(r) = Len(s) - 1
        /\ \A c \in 1..Len(r) : r[c] = s[c + 1]
    <2>1. Head(s) \in S /\ r \in Seq(S)
      BY HeadTailProperties
    <2> QED
      BY <2>1, EmptySeq
  <1>2. f \in Seq(U) /\ g \in Seq(U)
    <2> HIDE DEF U, f, g, r
    <2>1. Fun(F, S, U)
      BY DEF U
    <2> QED
      BY <1>1, <2>1, EachSeq DEF f, g
  <1>3. /\ Len(f) = Len(s) /\ Len(g) = Len(r)
        /\ \A c \in 1..Len(s) : f[c] = F[s[c]]
        /\ \A c \in 1..Len(r) : g[c] = F[r[c]]
    <2>1. DOMAIN f = 1..Len(s) /\ DOMAIN g = 1..Len(r)
      OBVIOUS
    <2>2. Len(s) \in Nat /\ Len(r) \in Nat
      BY <1>1
    <2> HIDE DEF f, g, r, U
    <2>3. Len(f) = Len(s) /\ Len(g) = Len(r)
      BY <1>2, <2>1, <2>2, LenProperties
    <2> QED
      BY <2>3 DEF f, g
  <1> HIDE DEF f, g, r, U
  <1>4. f # <<>>
    BY <1>1, <1>2, <1>3, EmptySeq
  <1>5. Head(f) = F[Head(s)]
    <2>1. Head(f) = f[1]
      BY <1>2, <1>4
    <2> QED
      BY <1>1, <1>3, <2>1
  <1>6. Tail(f) = g
    <2>1. /\ Tail(f) \in Seq(U) /\ Len(Tail(f)) = Len(f) - 1
          /\ \A c \in 1..Len(Tail(f)) : Tail(f)[c] = f[c + 1]
      BY <1>2, <1>4, HeadTailProperties
    <2>2. Len(Tail(f)) = Len(g)
      BY <1>1, <1>3, <2>1
    <2>3. \A c \in 1..Len(g) : c + 1 \in 1..Len(s)
      BY <1>1, <1>3
    <2>4. \A c \in 1..Len(g) : Tail(f)[c] = g[c]
      BY <1>1, <1>3, <2>1, <2>2, <2>3
    <2> QED
      BY <1>2, <2>1, <2>2, <2>4, SeqEqual
  <1>7. FlattenSeq(f) = Head(f) \o FlattenSeq(Tail(f))
    BY <1>2, <1>4, FlattenHead DEF U
  <1> QED
    BY <1>5, <1>6, <1>7 DEF Each, f, g, r
--------------------------------------------------------------------------------
(* How deep the nodes of a template are nested.                                *)
LEMMA AmongStep ==
  ASSUME NEW t \in Seq(Node), NEW kw
  PROVE  /\ Among(t, kw, 0) = 0
         /\ \A n \in 0..Len(t) : Among(t, kw, n) \in Nat
         /\ \A n \in 1..Len(t) :
               Among(t, kw, n) = Among(t, kw, n - 1) + (IF t[n].cmd = kw THEN 1 ELSE 0)
  <1> DEFINE A(n) == {a \in 1..n : t[a].cmd = kw}
  <1>1. Len(t) \in Nat
    BY LenProperties
  <1>2. \A n \in 0..Len(t) : IsFiniteSet(A(n))
    <2> SUFFICES ASSUME NEW n \in 0..Len(t) PROVE IsFiniteSet(A(n))
      OBVIOUS
    <2>1. IsFiniteSet(1..n)
      BY <1>1, FS_Interval
    <2>2. A(n) \subseteq 1..n
      OBVIOUS
    <2> QED
      BY <2>1, <2>2, FS_Subset
  <1>3. Among(t, kw, 0) = 0
    <2>1. A(0) = {}
      OBVIOUS
    <2> QED
      BY <2>1, FS_EmptySet DEF Among
  <1>4. \A n \in 0..Len(t) : Among(t, kw, n) \in Nat
    BY <1>2, FS_CardinalityType DEF Among
  <1>5. \A n \in 1..Len(t) :
           Among(t, kw, n) = Among(t, kw, n - 1) + (IF t[n].cmd = kw THEN 1 ELSE 0)
    <2> SUFFICES ASSUME NEW n \in 1..Len(t)
                 PROVE  Among(t, kw, n)
                          = Among(t, kw, n - 1) + (IF t[n].cmd = kw THEN 1 ELSE 0)
      OBVIOUS
    <2>1. n - 1 \in 0..Len(t) /\ IsFiniteSet(A(n - 1)) /\ n \notin A(n - 1)
      BY <1>1, <1>2
    <2>2. CASE t[n].cmd = kw
      <3>1. A(n) = A(n - 1) \cup {n}
        BY <2>2
      <3>2. Cardinality(A(n)) = Cardinality(A(n - 1)) + 1
        <4> DEFINE B == A(n - 1)
        <4> HIDE DEF A
        <4>1. IsFiniteSet(B) /\ n \notin B
          BY <2>1
        <4> HIDE DEF B
        <4>2. Cardinality(B \cup {n}) = Cardinality(B) + 1
          BY <4>1, FS_AddElement
        <4> QED
          BY <3>1, <4>2 DEF B
      <3> QED
        BY <2>2, <3>2 DEF Among
    <2>3. CASE t[n].cmd # kw
      <3>1. A(n) = A(n - 1)
        BY <2>3
      <3>2. Among(t, kw, n - 1) \in Nat
        BY <1>4, <2>1
      <3>3. Among(t, kw, n) = Among(t, kw, n - 1)
        BY <3>1 DEF Among
      <3> QED
        BY <2>3, <3>2, <3>3
    <2> QED
      BY <2>2, <2>3
  <1> QED
    BY <1>3, <1>4, <1>5

LEMMA NestingStep ==
  ASSUME NEW t \in Seq(Node)
  PROVE  /\ Nesting(t, 0) = 0
         /\ \A n \in 0..Len(t) : Nesting(t, n) \in Int
         /\ \A n \in 1..Len(t) :
               Nesting(t, n) = Nesting(t, n - 1) + (CASE t[n].cmd = "range" -> 1
                                                      [] t[n].cmd = "end" -> -1
                                                      [] OTHER -> 0)
  <1>1. /\ Nesting(t, 0) = 0
        /\ \A n \in 0..Len(t) : Nesting(t, n) \in Int
    BY AmongStep DEF Nesting
  <1>2. ASSUME NEW n \in 1..Len(t)
        PROVE  Nesting(t, n) = Nesting(t, n - 1) + (CASE t[n].cmd = "range" -> 1
                                                      [] t[n].cmd = "end" -> -1
                                                      [] OTHER -> 0)
    <2> DEFINE r == Among(t, "range", n - 1)
               e == Among(t, "end", n - 1)
    <2>1. n - 1 \in 0..Len(t)
      BY LenProperties
    <2>2. r \in Nat /\ e \in Nat
      BY <2>1, AmongStep
    <2>3. Among(t, "range", n) = r + (IF t[n].cmd = "range" THEN 1 ELSE 0)
      BY AmongStep
    <2>4. Among(t, "end", n) = e + (IF t[n].cmd = "end" THEN 1 ELSE 0)
      BY AmongStep
    <2>5. Nesting(t, n - 1) = r - e
      BY DEF Nesting
    <2> HIDE DEF r, e
    <2> QED
      BY <2>2, <2>3, <2>4, <2>5 DEF Nesting
  <1> QED
    BY <1>1, <1>2

(* In a balanced template every range has one matching end.                    *)
LEMMA EndExists ==
  ASSUME NEW t \in Seq(Node), Balanced(t), NEW a \in 1..Len(t), t[a].cmd = "range"
  PROVE  \E e \in (a + 1)..Len(t) : Closes(t, a, e)
  <1> DEFINE N(n) == Nesting(t, n)
             z == Len(t)
             P == {n \in Nat : n \in a..z =>
                       \/ \E e \in (a + 1)..n : Closes(t, a, e)
                       \/ \A f \in a..n : N(f) >= N(a)}
  <1>1. /\ z \in Nat /\ N(0) = 0 /\ \A n \in 0..z : N(n) \in Int
        /\ \A n \in 1..z : N(n) = N(n - 1) + (CASE t[n].cmd = "range" -> 1
                                                 [] t[n].cmd = "end" -> -1
                                                 [] OTHER -> 0)
    BY LenProperties, NestingStep
  <1>2. \A n \in 0..z : N(n) >= 0
    BY <1>1 DEF Balanced, SurplusEnd
  <1>3. N(a) >= 1
    <2>1. a - 1 \in 0..z /\ N(a) = N(a - 1) + 1
      BY <1>1
    <2>2. N(a - 1) >= 0 /\ N(a - 1) \in Int
      BY <1>1, <1>2, <2>1
    <2> HIDE DEF N
    <2> QED
      BY <2>1, <2>2
  <1>4. N(z) = 0
    BY DEF Balanced
  <1> HIDE DEF N, z
  <1>5. 0 \in P
    BY DEF z
  <1>6. ASSUME NEW n \in Nat, n \in P PROVE n + 1 \in P
    <2> SUFFICES ASSUME n + 1 \in a..z
                 PROVE  \/ \E e \in (a + 1)..(n + 1) : Closes(t, a, e)
                        \/ \A f \in a..(n + 1) : N(f) >= N(a)
      OBVIOUS
    <2>1. CASE n + 1 = a
      <3>1. \A f \in a..(n + 1) : f = a
        BY <2>1
      <3>2. N(a) \in Int
        BY <1>1 DEF z
      <3> QED
        BY <3>1, <3>2
    <2>2. CASE n + 1 # a
      <3>1. n \in a..z /\ n + 1 \in 1..z /\ n \in 0..z /\ a \in 0..z /\ n + 1 \in 0..z
        BY <1>1, <2>2 DEF z
      <3>2. \/ \E e \in (a + 1)..n : Closes(t, a, e)
            \/ \A f \in a..n : N(f) >= N(a)
        BY <1>6, <3>1
      <3>3. CASE \E e \in (a + 1)..n : Closes(t, a, e)
        BY <3>3
      <3>4. CASE \A f \in a..n : N(f) >= N(a)
        <4>1. N(n) >= N(a) /\ N(n) \in Int /\ N(a) \in Int /\ N(n + 1) \in Int
          BY <1>1, <3>1, <3>4
        <4>2. N(n + 1) >= N(n) - 1
          <5>1. (n + 1) - 1 = n
            OBVIOUS
          <5>2. N(n + 1) = N(n) + (CASE t[n + 1].cmd = "range" -> 1
                                     [] t[n + 1].cmd = "end" -> -1
                                     [] OTHER -> 0)
            BY <1>1, <3>1, <5>1
          <5> QED
            BY <4>1, <5>2
        <4>3. CASE N(n + 1) >= N(a)
          <5>1. \A f \in a..(n + 1) : f \in a..n \/ f = n + 1
            OBVIOUS
          <5> QED
            BY <3>4, <4>3, <5>1
        <4>4. CASE ~(N(n + 1) >= N(a))
          <5>1. N(n + 1) = N(a) - 1
            BY <4>1, <4>2, <4>4
          <5>2. a..((n + 1) - 1) = a..n /\ n + 1 \in (a + 1)..(n + 1)
            BY <3>1
          <5>3. Closes(t, a, n + 1)
            BY <3>4, <5>1, <5>2 DEF Closes, N
          <5> QED
            BY <5>2, <5>3
        <4> QED
          BY <4>3, <4>4
      <3> QED
        BY <3>2, <3>3, <3>4
    <2> QED
      BY <2>1, <2>2
  <1> HIDE DEF P
  <1>7. Nat \subseteq P
    BY <1>5, <1>6, Induct
  <1>8. z \in P
    BY <1>1, <1>7
  <1>9. z \in a..z /\ a \in 0..z
    BY <1>1 DEF z
  <1>10. ~(N(z) >= N(a))
    BY <1>1, <1>3, <1>4, <1>9
  <1>11. \E e \in (a + 1)..z : Closes(t, a, e)
    BY <1>8, <1>9, <1>10 DEF P
  <1> QED
    BY <1>11 DEF z

LEMMA EndIsMatching ==
  ASSUME NEW t \in Seq(Node), NEW a \in 1..Len(t), NEW e \in (a + 1)..Len(t), Closes(t, a, e)
  PROVE  MatchingEnd(t, a) = e
  <1> DEFINE m == MatchingEnd(t, a)
  <1>1. m \in (a + 1)..Len(t) /\ Closes(t, a, m)
    BY DEF MatchingEnd
  <1> HIDE DEF m
  <1>2. Len(t) \in Nat /\ Nesting(t, a) \in Int
    BY LenProperties, NestingStep
  <1>3. e \in a..(m - 1) \/ m \in a..(e - 1) \/ m = e
    BY <1>1, <1>2
  <1>4. Nesting(t, e) = Nesting(t, a) - 1 /\ Nesting(t, m) = Nesting(t, a) - 1
    BY <1>1 DEF Closes
  <1>5. e \in a..(m - 1) => Nesting(t, e) >= Nesting(t, a)
    BY <1>1 DEF Closes
  <1>6. m \in a..(e - 1) => Nesting(t, m) >= Nesting(t, a)
    BY DEF Closes
  <1>7. m = e
    BY <1>2, <1>3, <1>4, <1>5, <1>6
  <1> QED
    BY <1>7 DEF m

LEMMA MatchingFacts ==
  ASSUME NEW t \in Seq(Node), Balanced(t), NEW a \in 1..Len(t), t[a].cmd = "range"
  PROVE  MatchingEnd(t, a) \in (a + 1)..Len(t)
  BY EndExists, EndIsMatching
--------------------------------------------------------------------------------
(* What a template means, node by node from the last.                          *)
Block(t, m, a, v) ==
    IF a > Len(t) \/ t[a].cmd = "end" THEN <<>>
    ELSE LET vals == Eval(t[a], v).vals
         IN  IF t[a].cmd = "range"
             THEN FlattenSeq([c \in 1..Len(vals) |-> m[a + 1][vals[c]]])
                      \o m[MatchingEnd(t, a) + 1][v]
             ELSE <<[node |-> a, vals |-> vals]>> \o m[a + 1][v]

From(t, lo, m) == m = [a \in lo..(Len(t) + 1) |-> [v \in Val |-> Block(t, m, a, v)]]

LEMMA BlockSame ==
  ASSUME NEW t \in Seq(Node), Balanced(t), NEW a \in 1..(Len(t) + 1), NEW v, NEW m, NEW n,
         \A b \in (a + 1)..(Len(t) + 1) : m[b] = n[b]
  PROVE  Block(t, m, a, v) = Block(t, n, a, v)
  <1>1. Len(t) \in Nat
    BY LenProperties
  <1>2. CASE a > Len(t) \/ t[a].cmd = "end"
    BY <1>2 DEF Block
  <1>3. CASE ~(a > Len(t) \/ t[a].cmd = "end")
    <2>1. m[a + 1] = n[a + 1]
      BY <1>1, <1>3
    <2>2. CASE t[a].cmd = "range"
      <3>1. MatchingEnd(t, a) \in (a + 1)..Len(t)
        BY <1>1, <1>3, <2>2, MatchingFacts
      <3>2. MatchingEnd(t, a) + 1 \in (a + 1)..(Len(t) + 1)
        BY <1>1, <3>1
      <3>3. m[MatchingEnd(t, a) + 1] = n[MatchingEnd(t, a) + 1]
        BY <3>2
      <3> QED
        BY <2>1, <3>3 DEF Block
    <2>3. CASE t[a].cmd # "range"
      BY <2>1, <2>3 DEF Block
    <2> QED
      BY <2>2, <2>3
  <1> QED
    BY <1>2, <1>3

LEMMA FromExists ==
  ASSUME NEW t \in Seq(Node), Balanced(t)
  PROVE  \E m : From(t, 1, m)
  <1> DEFINE z == Len(t) + 1
             P == {k \in Nat : k < z => \E m : From(t, z - k, m)}
  <1>0. Len(t) \in Nat /\ z \in Nat
    BY LenProperties
  <1>1. 0 \in P
    <2> DEFINE m == [a \in z..z |-> [v \in Val |-> <<>>]]
    <2>1. \A a \in z..z, v \in Val : Block(t, m, a, v) = <<>>
      BY <1>0 DEF Block
    <2>2. m = [a \in z..z |-> [v \in Val |-> Block(t, m, a, v)]]
      BY <2>1
    <2>3. z - 0 = z
      BY <1>0
    <2> HIDE DEF m
    <2>4. From(t, z - 0, m)
      BY <2>2, <2>3 DEF From
    <2> QED
      BY <2>4
  <1>2. ASSUME NEW k \in Nat, k \in P PROVE k + 1 \in P
    <2> SUFFICES ASSUME k + 1 < z PROVE \E m : From(t, z - (k + 1), m)
      OBVIOUS
    <2> DEFINE lo == z - k
               s  == z - (k + 1)
    <2>1. lo \in 1..z /\ s \in 1..z /\ lo = s + 1 /\ k < z
      BY <1>0
    <2>2. PICK m : From(t, lo, m)
      BY <1>2, <2>1
    <2> DEFINE n == [a \in s..z |-> IF a = s THEN [v \in Val |-> Block(t, m, a, v)] ELSE m[a]]
    <2>3. \A a \in lo..z : a \in s..z /\ a # s
      BY <2>1
    <2>4. \A a \in lo..z : n[a] = m[a]
      BY <2>3
    <2>5. \A a \in s..z, v \in Val : Block(t, n, a, v) = Block(t, m, a, v)
      <3> SUFFICES ASSUME NEW a \in s..z, NEW v \in Val PROVE Block(t, n, a, v) = Block(t, m, a, v)
        OBVIOUS
      <3>1. a \in 1..z /\ \A b \in (a + 1)..z : b \in lo..z
        BY <2>1
      <3> HIDE DEF n, lo, s
      <3>2. \A b \in (a + 1)..z : n[b] = m[b]
        BY <2>4, <3>1
      <3> QED
        BY <3>1, <3>2, BlockSame
    <2>6. \A a \in lo..z : m[a] = [v \in Val |-> Block(t, m, a, v)]
      BY <2>2 DEF From
    <2>7. \A a \in s..z : n[a] = [v \in Val |-> Block(t, m, a, v)]
      <3> SUFFICES ASSUME NEW a \in s..z PROVE n[a] = [v \in Val |-> Block(t, m, a, v)]
        OBVIOUS
      <3>1. CASE a = s
        BY <3>1
      <3>2. CASE a # s
        <4>1. a \in lo..z
          BY <2>1, <3>2
        <4> HIDE DEF n, lo, s, z
        <4> QED
          BY <2>4, <2>6, <4>1
      <3> QED
        BY <3>1, <3>2
    <2>8. \A a \in s..z : [v \in Val |-> Block(t, m, a, v)] = [v \in Val |-> Block(t, n, a, v)]
      BY <2>5
    <2>9. n = [a \in s..z |-> n[a]]
      OBVIOUS
    <2> HIDE DEF n, lo, s
    <2>10. [a \in s..z |-> n[a]] = [a \in s..z |-> [v \in Val |-> Block(t, n, a, v)]]
      BY <2>7, <2>8
    <2>11. From(t, s, n)
      BY <2>9, <2>10 DEF From
    <2> QED
      BY <2>11 DEF s
  <1> HIDE DEF P
  <1>3. Nat \subseteq P
    BY <1>1, <1>2, Induct
  <1>4. Len(t) \in P /\ Len(t) < z /\ z - Len(t) = 1
    BY <1>0, <1>3
  <1> HIDE DEF z
  <1> QED
    BY <1>4 DEF P

LEMMA MeaningFrom ==
  ASSUME NEW t \in Seq(Node), Balanced(t)
  PROVE  From(t, 1, Meaning(t))
  <1> DEFINE F(m) == m = [a \in 1..(Len(t) + 1) |-> [v \in Val |-> Block(t, m, a, v)]]
             c == CHOOSE m : F(m)
  <1>1. Meaning(t) = c
    BY DEF Meaning, Block
  <1>2. \E m : F(m)
    BY FromExists DEF From
  <1>3. F(c)
    BY <1>2
  <1> HIDE DEF c
  <1> QED
    BY <1>1, <1>3 DEF From

LEMMA BlockType ==
  ASSUME NEW t \in Seq(Node), Balanced(t), NEW a \in 1..(Len(t) + 1), NEW v \in Val, NEW m,
         \A b \in (a + 1)..(Len(t) + 1) : Fun(m[b], Val, Seq(Group))
  PROVE  Block(t, m, a, v) \in Seq(Group)
  <1>0. Len(t) \in Nat
    BY LenProperties
  <1>1. CASE a > Len(t) \/ t[a].cmd = "end"
    BY <1>1 DEF Block
  <1>2. CASE ~(a > Len(t) \/ t[a].cmd = "end")
    <2> DEFINE vals == Eval(t[a], v).vals
    <2>1. a \in 1..Len(t) /\ t[a] \in Node
      BY <1>0, <1>2
    <2>2. vals \in Seq(Val)
      BY <2>1, EvalType
    <2>3. Fun(m[a + 1], Val, Seq(Group))
      BY <1>0, <2>1
    <2> HIDE DEF vals
    <2>4. CASE t[a].cmd = "range"
      <3> DEFINE e == MatchingEnd(t, a)
      <3>1. e \in (a + 1)..Len(t)
        BY <2>1, <2>4, MatchingFacts
      <3> HIDE DEF e
      <3>2. Fun(m[e + 1], Val, Seq(Group))
        BY <1>0, <2>1, <3>1
      <3>3. m[e + 1][v] \in Seq(Group)
        BY <3>2 DEF Fun
      <3>4. Each(m[a + 1], vals) \in Seq(Group)
        BY <2>2, <2>3, EachType
      <3>5. Block(t, m, a, v) = Each(m[a + 1], vals) \o m[e + 1][v]
        BY <1>2, <2>4 DEF Block, Each, e, vals
      <3> QED
        BY <3>3, <3>4, <3>5, ConcatProperties
    <2>5. CASE t[a].cmd # "range"
      <3> DEFINE g == [node |-> a, vals |-> vals]
                 s == <<g>>
      <3>1. g \in Group
        BY <2>1, <2>2 DEF Group
      <3>2. s \in Seq(Group)
        BY <3>1
      <3>3. m[a + 1][v] \in Seq(Group)
        BY <2>3 DEF Fun
      <3>4. Block(t, m, a, v) = s \o m[a + 1][v]
        BY <1>2, <2>5 DEF Block, vals
      <3> HIDE DEF s
      <3> QED
        BY <3>2, <3>3, <3>4, ConcatProperties
    <2> QED
      BY <2>4, <2>5
  <1> QED
    BY <1>1, <1>2

LEMMA MeaningType ==
  ASSUME NEW t \in Seq(Node), Balanced(t), NEW a \in 1..(Len(t) + 1)
  PROVE  Fun(Meaning(t)[a], Val, Seq(Group))
  <1> DEFINE z == Len(t) + 1
             m == Meaning(t)
             P == {k \in Nat : k < z => \A b \in (z - k)..z : Fun(m[b], Val, Seq(Group))}
  <1>0. Len(t) \in Nat /\ z \in Nat /\ a \in 1..z
    BY LenProperties
  <1>1. \A b \in 1..z : m[b] = [v \in Val |-> Block(t, m, b, v)]
    BY MeaningFrom DEF From
  <1> HIDE DEF m
  <1>2. ASSUME NEW b \in 1..z, \A c \in (b + 1)..z : Fun(m[c], Val, Seq(Group))
        PROVE  Fun(m[b], Val, Seq(Group))
    <2>1. \A v \in Val : Block(t, m, b, v) \in Seq(Group)
      BY <1>2, BlockType
    <2> QED
      BY <1>1, <2>1 DEF Fun
  <1> HIDE DEF z
  <1>3. 0 \in P
    <2>1. \A b \in (z - 0)..z : b = z
      BY <1>0
    <2>2. z \in 1..z /\ \A c \in (z + 1)..z : FALSE
      BY <1>0
    <2> QED
      BY <1>2, <2>1, <2>2
  <1>4. ASSUME NEW k \in Nat, k \in P PROVE k + 1 \in P
    <2> SUFFICES ASSUME k + 1 < z, NEW b \in (z - (k + 1))..z PROVE Fun(m[b], Val, Seq(Group))
      OBVIOUS
    <2>1. \A c \in (z - k)..z : Fun(m[c], Val, Seq(Group))
      BY <1>0, <1>4
    <2>2. b \in 1..z /\ \A c \in (b + 1)..z : c \in (z - k)..z
      BY <1>0
    <2> HIDE DEF P
    <2> QED
      BY <1>2, <2>1, <2>2
  <1> HIDE DEF P
  <1>5. Nat \subseteq P
    BY <1>3, <1>4, Induct
  <1>6. z - 1 \in P /\ z - 1 < z /\ a \in (z - (z - 1))..z
    BY <1>0, <1>5 DEF z
  <1> QED
    BY <1>6 DEF P, m

(* The four cases.                                                             *)
LEMMA MeaningOver ==
  ASSUME NEW t \in Seq(Node), Balanced(t), NEW v \in Val
  PROVE  Meaning(t)[Len(t) + 1][v] = <<>>
  <1>1. Len(t) \in Nat /\ Len(t) + 1 \in 1..(Len(t) + 1) /\ Len(t) + 1 > Len(t)
    BY LenProperties
  <1>2. Meaning(t)[Len(t) + 1][v] = Block(t, Meaning(t), Len(t) + 1, v)
    BY <1>1, MeaningFrom DEF From
  <1> QED
    BY <1>1, <1>2 DEF Block

LEMMA MeaningEnd ==
  ASSUME NEW t \in Seq(Node), Balanced(t), NEW v \in Val, NEW a \in 1..Len(t), t[a].cmd = "end"
  PROVE  Meaning(t)[a][v] = <<>>
  <1>1. a \in 1..(Len(t) + 1)
    BY LenProperties
  <1>2. Meaning(t)[a][v] = Block(t, Meaning(t), a, v)
    BY <1>1, MeaningFrom DEF From
  <1> QED
    BY <1>2 DEF Block

LEMMA MeaningRange ==
  ASSUME NEW t \in Seq(Node), Balanced(t), NEW v \in Val, NEW a \in 1..Len(t), t[a].cmd = "range"
  PROVE  Meaning(t)[a][v]
           = Each(Meaning(t)[a + 1], Eval(t[a], v).vals) \o Meaning(t)[MatchingEnd(t, a) + 1][v]
  <1>1. a \in 1..(Len(t) + 1) /\ ~(a > Len(t))
    BY LenProperties
  <1>2. Meaning(t)[a][v] = Block(t, Meaning(t), a, v)
    BY <1>1, MeaningFrom DEF From
  <1> QED
    BY <1>1, <1>2 DEF Block, Each

LEMMA MeaningValue ==
  ASSUME NEW t \in Seq(Node), Balanced(t), NEW v \in Val, NEW a \in 1..Len(t),
         t[a].cmd \notin {"range", "end"}
  PROVE  Meaning(t)[a][v]
           = <<[node |-> a, vals |-> Eval(t[a], v).vals]>> \o Meaning(t)[a + 1][v]
  <1>1. a \in 1..(Len(t) + 1) /\ ~(a > Len(t))
    BY LenProperties
  <1>2. Meaning(t)[a][v] = Block(t, Meaning(t), a, v)
    BY <1>1, MeaningFrom DEF From
  <1> QED
    BY <1>1, <1>2 DEF Block
--------------------------------------------------------------------------------
(* The walk of a fresh JSONPath.  At every moment the number of active calls   *)
(* is the nesting of the node they are at, as long as the template has an end  *)
(* for every range or gets stuck on one too many: a call is one level deeper   *)
(* than its caller and has not been above its own level since it began.        *)
Paired(t) == Balanced(t) \/ SurplusEnd(t)

Begin(s, k) == IF k = 1 THEN 0 ELSE s[k - 1].at

InStep(t, b, k, f) ==
    /\ f.at <= Len(t) + 1
    /\ Nesting(t, f.at - 1) = k - 1
    /\ \A n \in b..(f.at - 1) : Nesting(t, n) >= k - 1
    /\ \A n \in 0..(f.at - 1) : Nesting(t, n) >= 0
    /\ f.loop => t[f.at].cmd = "range"

Aligned(t, s) == \A k \in 1..Len(s) : InStep(t, Begin(s, k), k, s[k])

(* Once its last value has been looped over, the end last met closes a range.  *)
EndMet(t, f, e) ==
    f.loop /\ f.todo = <<>> => e \in (f.at + 1)..Len(t) /\ Closes(t, f.at, e)

(* What a call has still to yield, and what it owes in all.                    *)
Ahead(t, f) ==
    IF f.loop THEN (IF f.dry THEN <<>> ELSE Each(Meaning(t)[f.at + 1], f.todo))
                       \o Meaning(t)[MatchingEnd(t, f.at) + 1][f.cur]
    ELSE Meaning(t)[f.at][f.cur]

Due(t, s, k) == Meaning(t)[Begin(s, k) + 1][s[k].cur]

Yielded(t, s, k) ==
    Due(t, s, k) = s[k].full \o ((IF k < Len(s) /\ ~s[k].dry THEN Due(t, s, k + 1) ELSE <<>>)
                                     \o Ahead(t, s[k]))

(* The values a range loops over are none of them nil.                         *)
NoNil(f) == f.loop /\ ~f.dry => \A c \in 1..Len(f.todo) : ~f.todo[c].nil

Running ==
    calls = 1 /\ status = "running" =>
        /\ stack[1].cur = Root
        /\ Paired(template) => Aligned(template, stack) /\ EndMet(template, top, lastEnd)
        /\ Balanced(template) => \A k \in 1..depth : Yielded(template, stack, k)
        /\ Balanced(template) /\ NeverFails(template) => \A k \in 1..depth : NoNil(stack[k])

Ended ==
    /\ status = "idle" <=> calls = 0
    /\ calls = 0 => rootAt = 0
    /\ LoopSemantics

WalkInv == Inv /\ Running /\ Ended

LEMMA InStepSame ==
  ASSUME NEW t, NEW b, NEW k, NEW f, NEW g, InStep(t, b, k, f), g.at = f.at, g.loop => f.loop
  PROVE  InStep(t, b, k, g)
  BY DEF InStep

LEMMA AlignedFrom ==
  ASSUME NEW t, NEW s \in Seq(Frame), NEW r \in Seq(Frame), r # <<>>, Aligned(t, s),
         \A k \in 1..(Len(r) - 1) : k <= Len(s) /\ r[k].at = s[k].at /\ (r[k].loop => s[k].loop),
         InStep(t, Begin(r, Len(r)), Len(r), r[Len(r)])
  PROVE  Aligned(t, r)
  <1>1. Len(r) \in Nat \ {0} /\ Len(s) \in Nat
    BY EmptySeq, LenProperties
  <1> SUFFICES ASSUME NEW k \in 1..(Len(r) - 1) PROVE InStep(t, Begin(r, k), k, r[k])
    BY <1>1 DEF Aligned
  <1>2. k \in 1..Len(s)
    BY <1>1
  <1>3. InStep(t, Begin(s, k), k, s[k])
    BY <1>2 DEF Aligned
  <1>4. Begin(r, k) = Begin(s, k)
    <2>1. k # 1 => k - 1 \in 1..(Len(r) - 1)
      BY <1>1
    <2> QED
      BY <2>1 DEF Begin
  <1> QED
    BY <1>3, <1>4, InStepSame

LEMMA DueSame ==
  ASSUME NEW t, NEW s, NEW r, NEW k, k # 1 => r[k - 1].at = s[k - 1].at, r[k].cur = s[k].cur
  PROVE  Due(t, r, k) = Due(t, s, k)
  BY DEF Due, Begin

LEMMA YieldedSame ==
  ASSUME NEW t, NEW s, NEW r, NEW k \in Nat, k < Len(s), k < Len(r), r[k] = s[k],
         r[k + 1].cur = s[k + 1].cur, k # 1 => r[k - 1].at = s[k - 1].at, Yielded(t, s, k)
  PROVE  Yielded(t, r, k)
  <1>1. Due(t, r, k) = Due(t, s, k)
    BY DueSame
  <1>2. Due(t, r, k + 1) = Due(t, s, k + 1)
    <2>1. (k + 1) - 1 = k
      OBVIOUS
    <2> QED
      BY <2>1, DueSame
  <1> QED
    BY <1>1, <1>2 DEF Yielded

LEMMA MeaningAt ==
  ASSUME NEW t \in Seq(Node), Balanced(t), NEW a \in 1..(Len(t) + 1), NEW v \in Val
  PROVE  Meaning(t)[a][v] \in Seq(Group)
  BY MeaningType DEF Fun

LEMMA AheadType ==
  ASSUME NEW t \in Seq(Node), Balanced(t), NEW f \in Frame, NEW b, NEW k, InStep(t, b, k, f),
         f.loop => f.at <= Len(t)
  PROVE  Ahead(t, f) \in Seq(Group)
  <1>1. f.at \in 1..(Len(t) + 1) /\ Len(t) \in Nat /\ f.cur \in Val /\ f.todo \in Seq(Val)
    BY LenProperties DEF InStep, Frame
  <1>2. CASE ~f.loop
    BY <1>1, <1>2, MeaningAt DEF Ahead
  <1>3. CASE f.loop
    <2> DEFINE e == MatchingEnd(t, f.at)
               x == Each(Meaning(t)[f.at + 1], f.todo)
               y == Meaning(t)[e + 1][f.cur]
    <2>1. f.at \in 1..Len(t) /\ t[f.at].cmd = "range"
      BY <1>1, <1>3 DEF InStep
    <2>2. e \in (f.at + 1)..Len(t)
      BY <2>1, MatchingFacts
    <2>3. y \in Seq(Group)
      <3> HIDE DEF e
      <3>1. e + 1 \in 1..(Len(t) + 1)
        BY <1>1, <2>1, <2>2
      <3> QED
        BY <1>1, <3>1, MeaningAt
    <2>4. x \in Seq(Group)
      <3>1. f.at + 1 \in 1..(Len(t) + 1)
        BY <1>1, <2>1
      <3>2. Fun(Meaning(t)[f.at + 1], Val, Seq(Group))
        BY <3>1, MeaningType
      <3> QED
        BY <1>1, <3>2, EachType
    <2>5. Ahead(t, f) = (IF f.dry THEN <<>> ELSE x) \o y
      BY <1>3 DEF Ahead
    <2> HIDE DEF x, y
    <2>6. x \o y \in Seq(Group) /\ <<>> \o y = y
      BY <2>3, <2>4, ConcatProperties, ConcatEmptySeq
    <2> QED
      BY <2>3, <2>5, <2>6
  <1> QED
    BY <1>2, <1>3

LEMMA DueType ==
  ASSUME NEW t \in Seq(Node), Balanced(t), NEW s \in Seq(Frame), NEW k \in 1..Len(s),
         k # 1 => s[k - 1].at <= Len(t)
  PROVE  Due(t, s, k) \in Seq(Group)
  <1>1. Len(s) \in Nat /\ Len(t) \in Nat /\ s[k] \in Frame
    BY LenProperties, ElementOfSeq
  <1>2. k # 1 => k - 1 \in 1..Len(s)
    BY <1>1
  <1>3. k # 1 => s[k - 1] \in Frame
    BY <1>2, ElementOfSeq
  <1>4. Begin(s, k) + 1 \in 1..(Len(t) + 1)
    <2>1. CASE k = 1
      BY <1>1, <2>1 DEF Begin
    <2>2. CASE k # 1
      <3>1. s[k - 1].at \in Nat \ {0} /\ s[k - 1].at <= Len(t)
        BY <1>3, <2>2 DEF Frame
      <3> QED
        BY <1>1, <2>2, <3>1 DEF Begin
    <2> QED
      BY <2>1, <2>2
  <1>5. s[k].cur \in Val
    BY <1>1 DEF Frame
  <1> QED
    BY <1>4, <1>5, MeaningAt DEF Due
--------------------------------------------------------------------------------
(* What the walk's invariant says of the stack, for the step lemmas.           *)
LEMMA RunningFacts ==
  ASSUME WalkInv, calls = 1, status = "running"
  PROVE  /\ template \in Seq(Node) /\ Len(template) \in Nat /\ lastEnd \in Nat
         /\ stack \in Seq(Frame) /\ stack # <<>> /\ depth \in Nat \ {0} /\ depth = Len(stack)
         /\ top \in Frame /\ top = stack[depth]
         /\ \A k \in 1..depth : stack[k] \in Frame
         /\ \A k \in 1..depth : stack[k].loop => stack[k].at <= Len(template)
         /\ \A k \in 1..(depth - 1) : stack[k].loop
         /\ stack[1].cur = Root
         /\ Paired(template) => Aligned(template, stack) /\ EndMet(template, top, lastEnd)
         /\ Balanced(template) => Paired(template)
         /\ Balanced(template) => \A k \in 1..depth : Yielded(template, stack, k)
         /\ Balanced(template) /\ NeverFails(template) => \A k \in 1..depth : NoNil(stack[k])
  <1>1. Inv /\ Running
    BY DEF WalkInv
  <1>2. template \in Seq(Node) /\ lastEnd \in Nat
    BY <1>1, WalkAssumption DEF Inv, TypeOK
  <1>3. StackOK
    BY <1>1 DEF Inv
  <1> QED
    BY <1>1, <1>2, <1>3, TopFacts DEF StackOK, Running, Paired, depth, top

LEMMA TopInStep ==
  ASSUME WalkInv, calls = 1, status = "running", Paired(template)
  PROVE  InStep(template, Begin(stack, depth), depth, top)
  BY RunningFacts DEF Aligned

(* The innermost call owes what it has collected and what is ahead of it.      *)
LEMMA TopOwes ==
  ASSUME WalkInv, calls = 1, status = "running", Balanced(template)
  PROVE  /\ Due(template, stack, depth) = top.full \o Ahead(template, top)
         /\ Ahead(template, top) \in Seq(Group) /\ top.full \in Seq(Group)
  <1>1. Ahead(template, top) \in Seq(Group)
    BY RunningFacts, TopInStep, AheadType
  <1>2. Yielded(template, stack, depth) /\ ~(depth < Len(stack))
    BY RunningFacts
  <1>3. Due(template, stack, depth) = top.full \o (<<>> \o Ahead(template, top))
    BY <1>2, RunningFacts DEF Yielded
  <1>4. <<>> \o Ahead(template, top) = Ahead(template, top)
    BY <1>1, ConcatEmptySeq
  <1>5. top.full \in Seq(Group)
    BY RunningFacts DEF Frame
  <1> QED
    BY <1>1, <1>3, <1>4, <1>5
--------------------------------------------------------------------------------
(* The three ways the stack changes, and what each has to keep.                *)
LEMMA Replaced ==
  ASSUME WalkInv, calls = 1, status = "running", NEW f \in Frame, UNCHANGED <<template, status>>,
         stack' \in Seq(Frame), Len(stack') = depth, stack'[depth] = f,
         \A k \in 1..(depth - 1) : stack'[k] = stack[k],
         f.cur = top.cur,
         Paired(template) => /\ InStep(template, Begin(stack, depth), depth, f)
                             /\ EndMet(template, f, lastEnd'),
         Balanced(template) => f.full \o Ahead(template, f) = top.full \o Ahead(template, top),
         Balanced(template) /\ f.loop => f.at <= Len(template),
         Balanced(template) /\ NeverFails(template) => NoNil(f)
  PROVE  Running'
  <1>1. /\ depth \in Nat \ {0} /\ depth = Len(stack) /\ stack' # <<>>
        /\ depth' = depth /\ top' = f /\ top = stack[depth]
        /\ \A k \in 1..depth : k # depth => k \in 1..(depth - 1)
    <2>1. depth \in Nat \ {0}
      BY RunningFacts
    <2>2. stack' # <<>>
      BY <2>1, EmptySeq
    <2> QED
      BY <2>1, <2>2 DEF depth, top
  <1>2. stack'[1].cur = Root
    BY <1>1, RunningFacts
  <1>3. Begin(stack', depth) = Begin(stack, depth)
    <2>1. depth # 1 => depth - 1 \in 1..(depth - 1)
      BY <1>1
    <2> QED
      BY <2>1 DEF Begin
  <1>4. Paired(template) => Aligned(template, stack') /\ EndMet(template, f, lastEnd')
    <2> SUFFICES ASSUME Paired(template)
                 PROVE  Aligned(template, stack') /\ EndMet(template, f, lastEnd')
      OBVIOUS
    <2>1. Aligned(template, stack) /\ stack \in Seq(Frame)
      BY RunningFacts
    <2>2. InStep(template, Begin(stack', Len(stack')), Len(stack'), stack'[Len(stack')])
      BY <1>3
    <2>3. \A k \in 1..(Len(stack') - 1) :
             k <= Len(stack) /\ stack'[k].at = stack[k].at /\ (stack'[k].loop => stack[k].loop)
      BY <1>1
    <2>4. Aligned(template, stack')
      BY <1>1, <2>1, <2>2, <2>3, AlignedFrom
    <2> QED
      BY <2>4
  <1>5. ASSUME Balanced(template), NEW k \in 1..depth PROVE Yielded(template, stack', k)
    <2>1. Paired(template)
      BY <1>5, RunningFacts
    <2>2. k # 1 => k - 1 \in 1..(depth - 1)
      BY <1>1
    <2>3. CASE k = depth
      <3>1. Due(template, stack', k) = Due(template, stack, k)
        BY <2>2, <2>3, <1>1, DueSame
      <3>2. Due(template, stack, depth) = f.full \o Ahead(template, f)
        BY <1>5, TopOwes
      <3>3. Ahead(template, f) \in Seq(Group)
        BY <1>5, <2>1, AheadType, RunningFacts
      <3>4. <<>> \o Ahead(template, f) = Ahead(template, f)
        BY <3>3, ConcatEmptySeq
      <3>5. Due(template, stack', k) = f.full \o (<<>> \o Ahead(template, f))
        BY <2>3, <3>1, <3>2, <3>4
      <3>6. ~(k < Len(stack')) /\ stack'[k] = f
        BY <1>1, <2>3
      <3> QED
        BY <3>5, <3>6 DEF Yielded
    <2>4. CASE k # depth
      <3>1. k \in 1..(depth - 1) /\ k \in Nat /\ k < Len(stack) /\ k < Len(stack')
        BY <1>1, <2>4
      <3>2. Yielded(template, stack, k)
        BY <1>5, RunningFacts
      <3>3. stack'[k + 1].cur = stack[k + 1].cur
        <4>1. CASE k + 1 = depth
          BY <1>1, <4>1
        <4>2. CASE k + 1 # depth
          <5>1. k + 1 \in 1..(depth - 1)
            BY <1>1, <3>1, <4>2
          <5> QED
            BY <5>1
        <4> QED
          BY <4>1, <4>2
      <3>4. stack'[k] = stack[k] /\ (k # 1 => stack'[k - 1].at = stack[k - 1].at)
        BY <2>2, <3>1
      <3> QED
        BY <3>1, <3>2, <3>3, <3>4, YieldedSame
    <2> QED
      BY <2>3, <2>4
  <1>6. Balanced(template) /\ NeverFails(template) => \A k \in 1..depth : NoNil(stack'[k])
    BY <1>1, RunningFacts
  <1> QED
    BY <1>1, <1>2, <1>4, <1>5, <1>6 DEF Running

LEMMA Pushed ==
  ASSUME WalkInv, calls = 1, status = "running", NEW f \in Frame, NEW g \in Frame,
         UNCHANGED <<template, status, lastEnd>>,
         stack' \in Seq(Frame), Len(stack') = depth + 1,
         stack'[depth] = f, stack'[depth + 1] = g,
         \A k \in 1..(depth - 1) : stack'[k] = stack[k],
         top.loop, top.todo # <<>>,
         f = [top EXCEPT !.todo = Tail(@)],
         g = [at |-> top.at + 1, cur |-> Head(top.todo), full |-> <<>>,
              loop |-> FALSE, todo |-> <<>>, dry |-> FALSE]
  PROVE  Running'
  <1>0. /\ f.at = top.at /\ f.cur = top.cur /\ f.full = top.full /\ f.loop /\ f.dry = top.dry
        /\ f.todo = Tail(top.todo)
        /\ g.at = top.at + 1 /\ g.cur = Head(top.todo) /\ g.full = <<>> /\ ~g.loop /\ ~g.dry
        /\ top.at \in Nat \ {0} /\ top.todo \in Seq(Val)
    BY RunningFacts DEF Frame
  <1>1. /\ depth \in Nat \ {0} /\ depth = Len(stack) /\ stack' # <<>>
        /\ depth' = depth + 1 /\ top' = g /\ top = stack[depth]
        /\ \A k \in 1..(depth + 1) : k \in 1..(depth - 1) \/ k = depth \/ k = depth + 1
    <2>1. depth \in Nat \ {0}
      BY RunningFacts
    <2>2. stack' # <<>>
      BY <2>1, EmptySeq
    <2> QED
      BY <2>1, <2>2 DEF depth, top
  <1>2. stack'[1].cur = Root
    <2>1. CASE depth = 1
      BY <1>0, <1>1, <2>1, RunningFacts
    <2>2. CASE depth # 1
      <3>1. 1 \in 1..(depth - 1)
        BY <1>1, <2>2
      <3> QED
        BY <3>1, RunningFacts
    <2> QED
      BY <2>1, <2>2
  <1>3. top.at \in 1..Len(template) /\ Len(template) \in Nat
    BY <1>0, <1>1, RunningFacts
  <1>7. Begin(stack', depth + 1) = top.at
    <2>1. depth + 1 # 1 /\ (depth + 1) - 1 = depth
      BY <1>1
    <2>2. stack'[(depth + 1) - 1].at = top.at
      BY <1>0, <2>1
    <2> QED
      BY <2>1, <2>2 DEF Begin
  <1>4. ASSUME Paired(template)
        PROVE  Aligned(template, stack') /\ EndMet(template, g, lastEnd)
    <2>1. InStep(template, Begin(stack, depth), depth, top)
      BY <1>4, TopInStep
    <2>2. Begin(stack', depth + 1) = top.at
      BY <1>7
    <2>3. Nesting(template, top.at) = depth
      <3>1. template[top.at].cmd = "range" /\ Nesting(template, top.at - 1) = depth - 1
        BY <2>1 DEF InStep
      <3>2. Nesting(template, top.at) = Nesting(template, top.at - 1) + 1
        <4>1. template \in Seq(Node)
          BY RunningFacts
        <4> QED
          BY <1>3, <3>1, <4>1, NestingStep
      <3> QED
        BY <1>1, <3>1, <3>2
    <2>4. \A n \in 0..top.at : Nesting(template, n) >= 0
      <3>1. \A n \in 0..(top.at - 1) : Nesting(template, n) >= 0
        BY <2>1 DEF InStep
      <3>2. \A n \in 0..top.at : n \in 0..(top.at - 1) \/ n = top.at
        BY <1>3
      <3> QED
        BY <1>1, <2>3, <3>1, <3>2
    <2>5. InStep(template, top.at, depth + 1, g)
      <3>1. g.at - 1 = top.at /\ (depth + 1) - 1 = depth /\ g.at <= Len(template) + 1
        BY <1>0, <1>1, <1>3
      <3>2. \A n \in top.at..top.at : Nesting(template, n) >= depth
        BY <1>1, <1>3, <2>3
      <3> QED
        BY <1>0, <2>3, <2>4, <3>1, <3>2 DEF InStep
    <2>6. \A k \in 1..(Len(stack') - 1) :
             k <= Len(stack) /\ stack'[k].at = stack[k].at /\ (stack'[k].loop => stack[k].loop)
      <3> SUFFICES ASSUME NEW k \in 1..depth
                   PROVE  k <= Len(stack) /\ stack'[k].at = stack[k].at /\ (stack'[k].loop => stack[k].loop)
        BY <1>1
      <3>1. CASE k = depth
        <4>1. stack'[k] = f /\ stack[k] = top /\ k <= Len(stack)
          BY <1>1, <3>1
        <4> QED
          BY <1>0, <4>1
      <3>2. CASE k # depth
        BY <1>1, <3>2
      <3> QED
        BY <3>1, <3>2
    <2>7. Aligned(template, stack) /\ stack \in Seq(Frame)
      BY <1>4, RunningFacts
    <2>8. InStep(template, Begin(stack', Len(stack')), Len(stack'), stack'[Len(stack')])
      BY <2>2, <2>5
    <2>9. Aligned(template, stack')
      BY <1>1, <2>6, <2>7, <2>8, AlignedFrom
    <2> QED
      BY <1>0, <2>9 DEF EndMet
  <1>5. ASSUME Balanced(template), NEW k \in 1..(depth + 1) PROVE Yielded(template, stack', k)
    <2> DEFINE M == Meaning(template)
               F == M[top.at + 1]
               R == M[MatchingEnd(template, top.at) + 1][top.cur]
               h == Head(top.todo)
               r == Tail(top.todo)
    <2>0. template \in Seq(Node)
      BY RunningFacts
    <2>1. h \in Val /\ r \in Seq(Val)
      BY <1>0, HeadTailProperties
    <2>2. Fun(F, Val, Seq(Group))
      <3>1. top.at + 1 \in 1..(Len(template) + 1)
        BY <1>3
      <3> QED
        BY <1>5, <2>0, <3>1, MeaningType
    <2>3. Due(template, stack', depth + 1) = F[h]
      <3> QED
        BY <1>0, <1>7 DEF Due
    <2>4. F[h] \in Seq(Group)
      BY <2>1, <2>2 DEF Fun
    <2>5. CASE k = depth + 1
      <3>1. Ahead(template, g) = F[h]
        BY <1>0 DEF Ahead
      <3>2. F[h] = <<>> \o (<<>> \o F[h])
        BY <2>4, ConcatEmptySeq
      <3>3. ~(k < Len(stack'))
        BY <1>1, <2>5
      <3> HIDE DEF F, h
      <3> QED
        BY <1>0, <2>3, <2>5, <3>1, <3>2, <3>3 DEF Yielded
    <2>6. CASE k = depth
      <3>1. Due(template, stack', k) = Due(template, stack, k)
        <4>1. k # 1 => k - 1 \in 1..(depth - 1)
          BY <1>1, <2>6
        <4>2. k # 1 => stack'[k - 1].at = stack[k - 1].at
          BY <4>1
        <4>3. stack'[k].cur = stack[k].cur
          BY <1>0, <1>1, <2>6
        <4> QED
          BY <4>2, <4>3, DueSame
      <3>2. Due(template, stack, depth) = top.full \o Ahead(template, top)
        BY <1>5, TopOwes
      <3>3. Ahead(template, top) = (IF top.dry THEN <<>> ELSE Each(F, top.todo)) \o R
        BY DEF Ahead
      <3>4. Ahead(template, f) = (IF top.dry THEN <<>> ELSE Each(F, r)) \o R
        BY <1>0 DEF Ahead
      <3>5. Each(F, top.todo) = F[h] \o Each(F, r) /\ Each(F, r) \in Seq(Group)
        <4> HIDE DEF F
        <4>1. Each(F, top.todo) = F[h] \o Each(F, r)
          <5> DEFINE q == top.todo
          <5>1. q \in Seq(Val) /\ q # <<>>
            BY <1>0
          <5> HIDE DEF q
          <5>2. Each(F, q) = F[Head(q)] \o Each(F, Tail(q))
            BY <2>2, <5>1, EachHead
          <5> QED
            BY <5>2 DEF q
        <4>2. Each(F, r) \in Seq(Group)
          BY <2>1, <2>2, EachType
        <4> QED
          BY <4>1, <4>2
      <3>6. R \in Seq(Group)
        <4> DEFINE e == MatchingEnd(template, top.at)
        <4>1. template[top.at].cmd = "range"
          BY <1>5, TopInStep, RunningFacts DEF InStep
        <4>2. e \in (top.at + 1)..Len(template)
          BY <1>3, <1>5, <2>0, <4>1, MatchingFacts
        <4> HIDE DEF e
        <4>3. e + 1 \in 1..(Len(template) + 1)
          BY <1>3, <4>2
        <4>4. top.cur \in Val
          BY RunningFacts DEF Frame
        <4>5. M[e + 1][top.cur] \in Seq(Group)
          BY <1>5, <2>0, <4>3, <4>4, MeaningAt
        <4> QED
          BY <4>5 DEF e
      <3> DEFINE w == F[h]
                 x == Each(F, r)
                 y == Each(F, top.todo)
      <3>7. (w \o x) \o R = w \o (x \o R) /\ <<>> \o R = R /\ <<>> \o (<<>> \o R) = R
        <4>1. w \in Seq(Group)
          BY <2>4
        <4>2. x \in Seq(Group)
          BY <3>5
        <4> HIDE DEF w, x, R
        <4> QED
          BY <3>6, <4>1, <4>2, ConcatAssociative, ConcatEmptySeq
      <3>8. depth < Len(stack')
        BY <1>1
      <3>9. y = w \o x
        BY <3>5
      <3>10. Due(template, stack', depth + 1) = w
        BY <2>3
      <3>11. Ahead(template, top) = (IF top.dry THEN <<>> ELSE y) \o R
        BY <3>3
      <3>12. Ahead(template, f) = (IF top.dry THEN <<>> ELSE x) \o R
        BY <3>4
      <3> HIDE DEF w, x, y, R
      <3>13. Ahead(template, top) = (IF ~top.dry THEN w ELSE <<>>) \o Ahead(template, f)
        BY <3>7, <3>9, <3>11, <3>12
      <3> QED
        BY <1>0, <2>6, <3>1, <3>2, <3>8, <3>10, <3>13 DEF Yielded
    <2>7. CASE k \in 1..(depth - 1)
      <3>1. k \in Nat /\ k < Len(stack) /\ k < Len(stack') /\ k \in 1..depth
        BY <1>1, <2>7
      <3>2. Yielded(template, stack, k)
        BY <1>5, <3>1, RunningFacts
      <3>3. stack'[k + 1].cur = stack[k + 1].cur
        <4>1. CASE k + 1 = depth
          BY <1>0, <1>1, <4>1
        <4>2. CASE k + 1 # depth
          <5>1. k + 1 \in 1..(depth - 1)
            BY <1>1, <2>7, <4>2
          <5> QED
            BY <5>1
        <4> QED
          BY <4>1, <4>2
      <3>4. k # 1 => k - 1 \in 1..(depth - 1)
        BY <1>1, <2>7
      <3>5. stack'[k] = stack[k] /\ (k # 1 => stack'[k - 1].at = stack[k - 1].at)
        BY <2>7, <3>4
      <3> QED
        BY <3>1, <3>2, <3>3, <3>5, YieldedSame
    <2> QED
      BY <1>1, <2>5, <2>6, <2>7
  <1>6. ASSUME Balanced(template), NeverFails(template), NEW k \in 1..(depth + 1)
        PROVE  NoNil(stack'[k])
    <2>1. CASE k = depth + 1
      BY <1>0, <2>1 DEF NoNil
    <2>2. CASE k = depth
      <3>1. NoNil(top)
        BY <1>1, <1>6, RunningFacts
      <3>2. \A c \in 1..Len(f.todo) : c + 1 \in 1..Len(top.todo) /\ f.todo[c] = top.todo[c + 1]
        <4>1. /\ Len(f.todo) = Len(top.todo) - 1 /\ Len(top.todo) \in Nat
              /\ \A c \in 1..Len(f.todo) : f.todo[c] = top.todo[c + 1]
          BY <1>0, HeadTailProperties, LenProperties
        <4> QED
          BY <4>1
      <3>3. NoNil(f)
        BY <1>0, <3>1, <3>2 DEF NoNil
      <3> QED
        BY <2>2, <3>3
    <2>3. CASE k \in 1..(depth - 1)
      <3>1. k \in 1..depth
        BY <1>1, <2>3
      <3> QED
        BY <1>6, <2>3, <3>1, RunningFacts
    <2> QED
      BY <1>1, <2>1, <2>2, <2>3
  <1> QED
    BY <1>1, <1>2, <1>4, <1>5, <1>6 DEF Running

LEMMA Popped ==
  ASSUME WalkInv, calls = 1, status = "running", UNCHANGED <<template, status>>,
         depth # 1, ~top.loop,
         stack' \in Seq(Frame), Len(stack') = depth - 1,
         stack'[depth - 1] = IF stack[depth - 1].dry THEN stack[depth - 1]
                             ELSE [stack[depth - 1] EXCEPT !.full = @ \o top.full],
         \A k \in 1..(depth - 2) : stack'[k] = stack[k],
         Paired(template) => /\ top.at <= Len(template) /\ template[top.at].cmd = "end"
                             /\ lastEnd' = top.at
  PROVE  Running'
  <1> DEFINE p == stack[depth - 1]
             q == stack'[depth - 1]
             t == template
  <1>1. /\ depth \in Nat \ {0, 1} /\ depth = Len(stack) /\ stack' # <<>>
        /\ depth' = depth - 1 /\ top' = q /\ top = stack[depth]
        /\ \A k \in 1..(depth - 1) : k \in 1..(depth - 2) \/ k = depth - 1
    <2>1. depth \in Nat \ {0}
      BY RunningFacts
    <2>2. stack' # <<>>
      BY <2>1, EmptySeq
    <2> QED
      BY <2>1, <2>2 DEF depth, top
  <1>2. /\ p \in Frame /\ p.loop /\ p.at \in 1..Len(t) /\ p.at < top.at /\ top.at \in Nat
        /\ top \in Frame /\ p.full \in Seq(Group) /\ top.full \in Seq(Group)
    <2>1. depth - 1 \in 1..(depth - 1) /\ depth - 1 \in 1..depth /\ (depth - 1) + 1 = depth
      BY <1>1
    <2>2. p \in Frame /\ p.loop /\ p.at <= Len(t) /\ top \in Frame
      BY <2>1, RunningFacts
    <2>3. StackOK
      BY DEF WalkInv, Inv
    <2>4. p.at < top.at
      BY <1>1, <2>1, <2>3 DEF StackOK
    <2> QED
      BY <2>2, <2>4, RunningFacts DEF Frame
  <1>3. /\ q.at = p.at /\ q.cur = p.cur /\ q.loop /\ q.todo = p.todo /\ (q.dry <=> p.dry)
        /\ q.full = IF p.dry THEN p.full ELSE p.full \o top.full
    BY <1>2 DEF Frame
  <1> HIDE DEF p, q, t
  <1>4. stack'[1].cur = Root
    <2>1. CASE depth - 1 = 1
      BY <1>3, <2>1, RunningFacts DEF p, q
    <2>2. CASE depth - 1 # 1
      <3>1. 1 \in 1..(depth - 2)
        BY <1>1, <2>2
      <3> QED
        BY <3>1, RunningFacts
    <2> QED
      BY <2>1, <2>2
  <1>5. \A k \in 1..(depth - 1) : k <= Len(stack) /\ stack'[k].at = stack[k].at
                                    /\ stack'[k].cur = stack[k].cur /\ stack[k].loop
    <2> SUFFICES ASSUME NEW k \in 1..(depth - 1)
                 PROVE  k <= Len(stack) /\ stack'[k].at = stack[k].at
                                    /\ stack'[k].cur = stack[k].cur /\ stack[k].loop
      OBVIOUS
    <2>1. k <= Len(stack) /\ stack[k].loop
      BY <1>1, RunningFacts
    <2>2. CASE k = depth - 1
      BY <1>3, <2>1, <2>2 DEF p, q
    <2>3. CASE k # depth - 1
      BY <1>1, <2>1, <2>3
    <2> QED
      BY <2>2, <2>3
  <1>6. \A k \in 1..(depth - 1) : k # 1 => k - 1 \in 1..(depth - 1)
    BY <1>1
  <1>7. ASSUME Paired(t) PROVE Aligned(t, stack') /\ EndMet(t, q, lastEnd')
    <2>1. Aligned(t, stack) /\ stack \in Seq(Frame) /\ t \in Seq(Node) /\ Len(t) \in Nat
      BY <1>7, RunningFacts DEF t
    <2>2. depth - 1 \in 1..Len(stack) /\ depth - 1 \in 1..(depth - 1) /\ depth - 1 # depth
      BY <1>1
    <2>3. InStep(t, Begin(stack, depth - 1), depth - 1, p)
      BY <2>1, <2>2 DEF Aligned, p
    <2>4. Begin(stack', depth - 1) = Begin(stack, depth - 1)
      BY <1>5, <1>6, <2>2 DEF Begin
    <2>5. InStep(t, Begin(stack', depth - 1), depth - 1, q)
      BY <1>2, <1>3, <2>3, <2>4, InStepSame
    <2>6. InStep(t, Begin(stack', Len(stack')), Len(stack'), stack'[Len(stack')])
      BY <2>5 DEF q
    <2>7. \A k \in 1..(Len(stack') - 1) :
             k <= Len(stack) /\ stack'[k].at = stack[k].at /\ (stack'[k].loop => stack[k].loop)
      <3>1. \A k \in 1..(Len(stack') - 1) : k \in 1..(depth - 1)
        BY <1>1
      <3> QED
        BY <1>5, <3>1
    <2>8. Aligned(t, stack')
      BY <1>1, <2>1, <2>6, <2>7, AlignedFrom
    <2>9. InStep(t, p.at, depth, top)
      <3>1. Begin(stack, depth) = p.at
        BY <1>1 DEF Begin, p
      <3>2. InStep(t, Begin(stack, depth), depth, top)
        BY <1>7, TopInStep DEF t
      <3> QED
        BY <3>1, <3>2
    <2>10. t[p.at].cmd = "range" /\ Nesting(t, p.at - 1) = (depth - 1) - 1
      BY <1>2, <2>3 DEF InStep
    <2>11. Nesting(t, p.at) = depth - 1
      <3>1. Nesting(t, p.at) = Nesting(t, p.at - 1) + 1
        BY <1>2, <2>1, <2>10, NestingStep
      <3> QED
        BY <1>1, <2>10, <3>1
    <2>12. /\ Nesting(t, top.at - 1) = depth - 1
           /\ \A n \in p.at..(top.at - 1) : Nesting(t, n) >= depth - 1
      BY <2>9 DEF InStep
    <2>13. top.at \in (p.at + 1)..Len(t) /\ t[top.at].cmd = "end" /\ lastEnd' = top.at
      BY <1>2, <1>7, <2>1 DEF t
    <2>14. Nesting(t, top.at) = (depth - 1) - 1
      <3>1. top.at \in 1..Len(t)
        BY <1>2, <2>13
      <3>2. Nesting(t, top.at) = Nesting(t, top.at - 1) + (-1)
        BY <2>1, <2>13, <3>1, NestingStep
      <3> QED
        BY <1>1, <2>12, <3>2
    <2>15. Closes(t, p.at, top.at)
      BY <2>11, <2>12, <2>14 DEF Closes
    <2> QED
      BY <1>3, <2>8, <2>13, <2>15 DEF EndMet
  <1>8. ASSUME Balanced(t), NEW k \in 1..(depth - 1) PROVE Yielded(t, stack', k)
    <2>1. Paired(t) /\ t \in Seq(Node) /\ stack \in Seq(Frame)
      BY <1>8, RunningFacts DEF t
    <2>2. Yielded(t, stack, k)
      <3>1. k \in 1..depth
        BY <1>1
      <3> QED
        BY <1>8, <3>1, RunningFacts DEF t
    <2>3. Due(t, stack', k) = Due(t, stack, k)
      BY <1>5, <1>6, DueSame
    <2>4. CASE k = depth - 1
      <3> DEFINE w == Ahead(t, p)
                 u == top.full
      <3>1. Due(t, stack, depth) = u
        <4>1. Due(t, stack, depth) = u \o Ahead(t, top)
          BY <1>8, TopOwes DEF t
        <4>2. Ahead(t, top) = Meaning(t)[top.at][top.cur]
          BY DEF Ahead
        <4>3. top.at \in 1..Len(t) /\ t[top.at].cmd = "end" /\ top.cur \in Val
          BY <1>2, <2>1, LenProperties DEF t, Frame
        <4>4. Meaning(t)[top.at][top.cur] = <<>>
          BY <1>8, <2>1, <4>3, MeaningEnd
        <4>5. u \o <<>> = u
          BY <1>2, ConcatEmptySeq
        <4> QED
          BY <4>1, <4>2, <4>4, <4>5
      <3>2. w \in Seq(Group)
        <4>1. InStep(t, Begin(stack, k), k, p)
          <5>1. Aligned(t, stack) /\ k \in 1..Len(stack)
            BY <1>1, <2>1, RunningFacts DEF t
          <5> QED
            BY <2>4, <5>1 DEF Aligned, p
        <4>2. p.at <= Len(t)
          BY <1>2
        <4> QED
          BY <1>2, <1>8, <2>1, <4>1, <4>2, AheadType
      <3>3. Ahead(t, q) = w
        BY <1>2, <1>3 DEF Ahead
      <3> HIDE DEF w, u
      <3>4. Due(t, stack, k) = p.full \o ((IF ~p.dry THEN u ELSE <<>>) \o w)
        <4>1. k < Len(stack) /\ k + 1 = depth /\ stack[k] = p
          BY <1>1, <2>4 DEF p
        <4> QED
          BY <2>2, <3>1, <4>1 DEF Yielded, w
      <3>5. q.full = IF p.dry THEN p.full ELSE p.full \o u
        BY <1>3 DEF u
      <3>6. u \in Seq(Group) /\ p.full \in Seq(Group)
        BY <1>2 DEF u
      <3>7. (p.full \o u) \o w = p.full \o (u \o w)
        <4> DEFINE v == p.full
        <4>1. v \in Seq(Group)
          BY <3>6
        <4> HIDE DEF v
        <4>2. (v \o u) \o w = v \o (u \o w)
          BY <3>2, <3>6, <4>1, ConcatAssociative
        <4> QED
          BY <4>2 DEF v
      <3>8. <<>> \o w = w
        BY <3>2, ConcatEmptySeq
      <3>9. Due(t, stack, k) = q.full \o (<<>> \o Ahead(t, q))
        BY <3>3, <3>4, <3>5, <3>7, <3>8
      <3>10. ~(k < Len(stack')) /\ stack'[k] = q
        BY <1>1, <2>4 DEF q
      <3> QED
        BY <2>3, <3>9, <3>10 DEF Yielded
    <2>5. CASE k # depth - 1
      <3>1. k \in 1..(depth - 2) /\ k \in Nat /\ k < Len(stack) /\ k < Len(stack')
        BY <1>1, <2>5
      <3>2. k + 1 \in 1..(depth - 1)
        BY <3>1
      <3>3. stack'[k] = stack[k] /\ stack'[k + 1].cur = stack[k + 1].cur
        BY <1>5, <3>1, <3>2
      <3>4. k # 1 => stack'[k - 1].at = stack[k - 1].at
        BY <1>5, <1>6
      <3> QED
        BY <2>2, <3>1, <3>3, <3>4, YieldedSame
    <2> QED
      BY <2>4, <2>5
  <1>9. ASSUME Balanced(t), NeverFails(t), NEW k \in 1..(depth - 1) PROVE NoNil(stack'[k])
    <2>1. k \in 1..depth
      BY <1>1
    <2>2. NoNil(stack[k])
      BY <1>9, <2>1, RunningFacts DEF t
    <2>3. CASE k = depth - 1
      BY <1>2, <1>3, <2>2, <2>3 DEF NoNil, p, q
    <2>4. CASE k # depth - 1
      BY <1>1, <2>2, <2>4
    <2> QED
      BY <2>3, <2>4
  <1> QED
    BY <1>1, <1>4, <1>7, <1>8, <1>9 DEF Running, t
--------------------------------------------------------------------------------
(* Nodes that cannot fail, and what they yield.                                *)
LEMMA FanNat ==
  ASSUME NEW n \in Node, NEW v, \A x \in 1..Len(n.fan) : n.fan[x] >= 0
  PROVE  Fan(n, v) \in Nat
  <1> DEFINE f == n.fan
             l == v.path[Len(v.path)]
  <1>1. f \in Seq(Int)
    BY DEF Node
  <1>2. DOMAIN f = 1..Len(f)
    BY <1>1, LenProperties
  <1>3. \A x \in DOMAIN f : f[x] \in Int /\ f[x] >= 0
    BY <1>1, <1>2, ElementOfSeq
  <1>4. Fan(n, v) = IF l \in DOMAIN f THEN f[l] ELSE 0
    BY DEF Fan
  <1> HIDE DEF f, l
  <1> QED
    BY <1>3, <1>4

LEMMA Harmless ==
  ASSUME NEW n \in Node, NEW v \in Val, AllowMissing, n.expr # "index",
         \A x \in 1..Len(n.fan) : n.fan[x] >= 0
  PROVE  /\ Eval(n, v).st = "ok"
         /\ n.expr # "self" => \A c \in 1..Len(Eval(n, v).vals) : ~Eval(n, v).vals[c].nil
  <1>1. Fan(n, v) \in Nat
    BY FanNat
  <1>2. CASE n.expr = "text"
    BY <1>2 DEF Eval, Outcome, TextVal
  <1>3. CASE n.expr = "self"
    BY <1>3 DEF Eval, Outcome
  <1>4. CASE n.expr # "text" /\ n.expr # "self"
    <2>1. Eval(n, v) = Select(n, v)
      BY <1>4 DEF Eval
    <2>2. Missing = [st |-> "ok", vals |-> <<>>]
      BY DEF Missing, Outcome
    <2>3. CASE v.nil \/ (Fan(n, v) = 0 /\ n.expr = "field")
      <3>1. Select(n, v) = Missing
        BY <1>1, <2>3 DEF Select
      <3> QED
        BY <2>1, <2>2, <3>1
    <2>4. CASE ~(v.nil \/ (Fan(n, v) = 0 /\ n.expr = "field"))
      <3>1. Select(n, v) = [st |-> "ok", vals |-> Children(v, Fan(n, v))]
        BY <1>1, <2>4 DEF Select, Outcome
      <3> DEFINE z == Fan(n, v)
                 s == Children(v, z)
      <3>2. z \in Nat /\ s \in Seq(Val) /\ DOMAIN s = 1..z
        BY <1>1, ChildrenType DEF Children
      <3>3. \A c \in 1..z : ~s[c].nil
        BY DEF Children
      <3> HIDE DEF z, s
      <3>4. Len(s) = z
        BY <3>2, LenProperties
      <3>5. Eval(n, v) = [st |-> "ok", vals |-> s]
        BY <2>1, <3>1 DEF z, s
      <3> QED
        BY <3>3, <3>4, <3>5
    <2> QED
      BY <2>3, <2>4
  <1> QED
    BY <1>2, <1>3, <1>4

LEMMA OutcomeKinds == outcome.st \in {"ok", "error", "panic"}
  <1>1. Eval(node, top.cur).st \in {"ok", "error", "panic"}
    BY DEF Eval, Select, Missing, Outcome
  <1> QED
    BY <1>1 DEF outcome, Outcome

(* On a fresh JSONPath the counters say what kind of node is visited.          *)
LEMMA FreshNode ==
  ASSUME WalkInv, AtNode, calls = 1
  PROVE  /\ inRange = depth - 1 /\ depth \in Nat \ {0}
         /\ begun = (IF node.cmd = "range" THEN 1 ELSE 0)
         /\ ended = (IF node.cmd = "end" /\ depth # 1 THEN 1 ELSE 0)
         /\ top.at \in 1..Len(template) /\ node = template[top.at] /\ node \in Node
         /\ top.cur \in Val
         /\ node.cmd \in Keywords
         /\ outcome.st = "ok" => /\ node.cmd # "unknown" /\ (node.cmd = "end" => depth # 1)
                                 /\ node.cmd # "end" => outcome = Eval(node, top.cur)
         /\ outcome.vals \in Seq(Val)
  <1>1. Inv /\ status = "running" /\ ~top.loop
    BY DEF WalkInv, AtNode
  <1>2. /\ depth \in Nat \ {0} /\ stack # <<>> /\ top.cur \in Val
    BY <1>1, TopFacts DEF Frame
  <1>3. inRange = depth - 1 /\ beginRange = 0 /\ endRange = 0
    BY <1>1, <1>2 DEF Inv, Loops
  <1>4. /\ top.at \in 1..Len(template) /\ node \in Node /\ outcome.vals \in Seq(Val)
        /\ begun = beginRange + (IF node.cmd = "range" THEN 1 ELSE 0)
        /\ ended = endRange + (IF node.cmd = "end" /\ inRange > 0 THEN 1 ELSE 0)
        /\ outcome.st = "ok" /\ node.cmd = "end" => inRange > 0
    BY <1>1, NodeFacts
  <1>5. inRange > 0 <=> depth # 1
    BY <1>2, <1>3
  <1>6. outcome.st = "ok" => /\ node.cmd # "unknown"
                             /\ node.cmd # "end" => outcome = Eval(node, top.cur)
    BY DEF outcome, Outcome
  <1>7. node = template[top.at] /\ node.cmd \in Keywords
    BY <1>4 DEF node, Node
  <1> QED
    BY <1>2, <1>3, <1>4, <1>5, <1>6, <1>7

LEMMA RangeVisited ==
  ASSUME WalkInv, calls = 1, VisitRange
  PROVE  Running'
  <1> DEFINE f == [top EXCEPT !.loop = TRUE,
                              !.dry = (outcome.vals = <<>>),
                              !.todo = IF outcome.vals = <<>> THEN <<Nil>> ELSE outcome.vals]
             t == template
  <1>1. /\ status = "running" /\ AtNode /\ ~top.loop /\ Replace(f) /\ outcome.st = "ok"
        /\ begun > 0 /\ UNCHANGED <<template, status>> /\ lastEnd' = lastEnd
    BY DEF VisitRange, AtNode
  <1>2. Inv
    BY DEF WalkInv
  <1>3. /\ top.at \in 1..Len(t) /\ t[top.at].cmd = "range" /\ node = t[top.at] /\ node \in Node
        /\ outcome = Eval(t[top.at], top.cur) /\ outcome.vals \in Seq(Val) /\ top.cur \in Val
    <2>1. node.cmd = "range"
      BY <1>1, FreshNode
    <2> QED
      BY <1>1, <2>1, FreshNode
  <1>4. /\ f \in Frame /\ f.loop /\ f.at = top.at /\ f.cur = top.cur /\ f.full = top.full
        /\ f.todo = (IF outcome.vals = <<>> THEN <<Nil>> ELSE outcome.vals)
        /\ f.dry = (outcome.vals = <<>>)
    <2>1. <<Nil>> \in Seq(Val)
      BY FixedVals
    <2>2. top \in Frame
      BY <1>1, RunningFacts
    <2> QED
      BY <1>3, <2>1, <2>2 DEF Frame
  <1> HIDE DEF f
  <1>5. /\ stack' \in Seq(Frame) /\ Len(stack') = depth /\ stack'[depth] = f
        /\ \A a \in 1..(depth - 1) : stack'[a] = stack[a]
    <2>1. f.at >= top.at /\ f.at <= Len(template)
      BY <1>3, <1>4
    <2> QED
      BY <1>1, <1>2, <1>4, <2>1, ChangeTop
  <1>6. Paired(t) => InStep(t, Begin(stack, depth), depth, f) /\ EndMet(t, f, lastEnd')
    <2> SUFFICES ASSUME Paired(t)
                 PROVE  InStep(t, Begin(stack, depth), depth, f) /\ EndMet(t, f, lastEnd')
      OBVIOUS
    <2>1. InStep(t, Begin(stack, depth), depth, top)
      BY <1>1, TopInStep
    <2>2. f.todo # <<>>
      BY <1>4
    <2> QED
      BY <1>3, <1>4, <2>1, <2>2 DEF InStep, EndMet
  <1>7. Balanced(t) => f.full \o Ahead(t, f) = top.full \o Ahead(t, top)
    <2> SUFFICES ASSUME Balanced(t) PROVE Ahead(t, f) = Ahead(t, top)
      BY <1>4
    <2> DEFINE F == Meaning(t)[top.at + 1]
               vals == outcome.vals
               R == Meaning(t)[MatchingEnd(t, top.at) + 1][top.cur]
    <2>1. Ahead(t, top) = Each(F, vals) \o R
      <3>1. Ahead(t, top) = Meaning(t)[top.at][top.cur]
        BY <1>1 DEF Ahead
      <3>2. t \in Seq(Node)
        BY <1>1, RunningFacts
      <3>3. Meaning(t)[top.at][top.cur]
              = Each(Meaning(t)[top.at + 1], Eval(t[top.at], top.cur).vals) \o R
        BY <1>3, <3>2, MeaningRange
      <3> QED
        BY <1>3, <3>1, <3>3
    <2>2. Ahead(t, f) = (IF f.dry THEN <<>> ELSE Each(F, f.todo)) \o R
      BY <1>4 DEF Ahead
    <2> HIDE DEF F, R
    <2>3. CASE vals = <<>>
      <3>1. f.dry /\ Each(F, vals) = <<>>
        BY <1>4, <2>3, EachEmpty
      <3> QED
        BY <2>1, <2>2, <3>1
    <2>4. CASE vals # <<>>
      BY <1>4, <2>1, <2>2, <2>4
    <2> QED
      BY <2>3, <2>4
  <1>8. Balanced(t) /\ NeverFails(t) => NoNil(f)
    <2> SUFFICES ASSUME NeverFails(t), ~f.dry PROVE NoNil(f)
      BY DEF NoNil
    <2>1. f.todo = Eval(node, top.cur).vals
      BY <1>3, <1>4
    <2>2. /\ AllowMissing /\ node.expr # "index" /\ node.expr # "self"
          /\ \A x \in 1..Len(node.fan) : node.fan[x] >= 0
      BY <1>3 DEF NeverFails
    <2>3. \A c \in 1..Len(Eval(node, top.cur).vals) : ~Eval(node, top.cur).vals[c].nil
      BY <1>3, <2>2, Harmless
    <2> QED
      BY <2>1, <2>3 DEF NoNil
  <1>9. f.at <= Len(t) /\ f.cur = top.cur /\ f \in Frame
    BY <1>3, <1>4
  <1> HIDE DEF t
  <1> QED
    BY <1>1, <1>5, <1>6, <1>7, <1>8, <1>9, Replaced DEF t

LEMMA ValueVisited ==
  ASSUME WalkInv, calls = 1, VisitValue
  PROVE  Running'
  <1> DEFINE g == [node |-> top.at, vals |-> outcome.vals]
             f == [top EXCEPT !.at = @ + 1, !.full = Append(@, g)]
             t == template
  <1>1. /\ status = "running" /\ AtNode /\ ~top.loop /\ Replace(f) /\ outcome.st = "ok"
        /\ begun = 0 /\ ~(ended > 0 /\ ended <= inRange)
        /\ UNCHANGED <<template, status>> /\ lastEnd' = lastEnd
    BY DEF VisitValue, AtNode
  <1>2. Inv
    BY DEF WalkInv
  <1>3. /\ top.at \in 1..Len(t) /\ t[top.at].cmd \notin {"range", "end"}
        /\ outcome = Eval(t[top.at], top.cur) /\ outcome.vals \in Seq(Val) /\ top.cur \in Val
        /\ top \in Frame /\ t \in Seq(Node) /\ Len(t) \in Nat /\ depth \in Nat \ {0}
    <2>1. node.cmd # "range"
      BY <1>1, FreshNode
    <2>2. node.cmd # "end"
      <3> SUFFICES ASSUME node.cmd = "end" PROVE FALSE
        OBVIOUS
      <3>1. depth # 1 /\ ended = 1 /\ inRange = depth - 1 /\ depth \in Nat \ {0}
        BY <1>1, FreshNode
      <3> QED
        BY <1>1, <3>1
    <2> QED
      BY <1>1, <2>1, <2>2, FreshNode, RunningFacts
  <1>4. /\ f \in Frame /\ ~f.loop /\ f.at = top.at + 1 /\ f.cur = top.cur
        /\ f.full = Append(top.full, g) /\ g \in Group /\ top.full \in Seq(Group)
    <2>1. g \in Group
      BY <1>3 DEF Group
    <2>2. top.full \in Seq(Group) /\ top.at + 1 \in Nat \ {0}
      BY <1>3 DEF Frame
    <2> HIDE DEF g
    <2>3. Append(top.full, g) \in Seq(Group)
      BY <2>1, <2>2, AppendProperties
    <2>4. f = [top EXCEPT !.at = top.at + 1, !.full = Append(top.full, g)]
      BY <1>3 DEF Frame
    <2>5. /\ f \in Frame /\ f.loop = top.loop /\ f.at = top.at + 1 /\ f.cur = top.cur
          /\ f.full = Append(top.full, g)
      BY <1>3, <2>2, <2>3, <2>4 DEF Frame
    <2> QED
      BY <1>1, <2>1, <2>2, <2>5
  <1> HIDE DEF f
  <1>5. /\ stack' \in Seq(Frame) /\ Len(stack') = depth /\ stack'[depth] = f
        /\ \A a \in 1..(depth - 1) : stack'[a] = stack[a]
    <2>1. f.at >= top.at
      BY <1>3, <1>4
    <2> QED
      BY <1>1, <1>2, <1>4, <2>1, ChangeTop
  <1>6. Paired(t) => InStep(t, Begin(stack, depth), depth, f) /\ EndMet(t, f, lastEnd')
    <2> SUFFICES ASSUME Paired(t)
                 PROVE  InStep(t, Begin(stack, depth), depth, f) /\ EndMet(t, f, lastEnd')
      OBVIOUS
    <2> DEFINE b == Begin(stack, depth)
    <2>1. InStep(t, b, depth, top)
      BY <1>1, TopInStep
    <2> HIDE DEF b
    <2>2. /\ Nesting(t, top.at - 1) = depth - 1
          /\ \A n \in b..(top.at - 1) : Nesting(t, n) >= depth - 1
          /\ \A n \in 0..(top.at - 1) : Nesting(t, n) >= 0
      BY <2>1 DEF InStep
    <2>3. Nesting(t, top.at) = depth - 1
      <3>1. Nesting(t, top.at) = Nesting(t, top.at - 1) + 0
        BY <1>3, NestingStep
      <3> QED
        BY <1>3, <2>2, <3>1
    <2>4. f.at - 1 = top.at /\ f.at <= Len(t) + 1
      BY <1>3, <1>4
    <2>5. /\ \A n \in b..top.at : n \in b..(top.at - 1) \/ n = top.at
          /\ \A n \in 0..top.at : n \in 0..(top.at - 1) \/ n = top.at
      BY <1>3
    <2>6. /\ \A n \in b..top.at : Nesting(t, n) >= depth - 1
          /\ \A n \in 0..top.at : Nesting(t, n) >= 0
      BY <1>3, <2>2, <2>3, <2>5
    <2> QED
      BY <1>4, <2>3, <2>4, <2>6 DEF InStep, EndMet, b
  <1>7. Balanced(t) => f.full \o Ahead(t, f) = top.full \o Ahead(t, top)
    <2> SUFFICES ASSUME Balanced(t) PROVE f.full \o Ahead(t, f) = top.full \o Ahead(t, top)
      OBVIOUS
    <2> DEFINE x == Meaning(t)[top.at + 1][top.cur]
               s == <<g>>
               u == top.full
    <2>1. Ahead(t, top) = s \o x
      <3>1. Ahead(t, top) = Meaning(t)[top.at][top.cur]
        BY <1>1 DEF Ahead
      <3>2. Meaning(t)[top.at][top.cur]
              = <<[node |-> top.at, vals |-> Eval(t[top.at], top.cur).vals]>> \o x
        BY <1>3, MeaningValue
      <3> QED
        BY <1>3, <3>1, <3>2
    <2>2. Ahead(t, f) = x
      BY <1>4 DEF Ahead
    <2>3. x \in Seq(Group)
      <3>1. top.at + 1 \in 1..(Len(t) + 1)
        BY <1>3
      <3> QED
        BY <1>3, <3>1, MeaningAt
    <2>4. s \in Seq(Group) /\ u \in Seq(Group)
      BY <1>4
    <2>5. f.full = u \o s
      BY <1>4, AppendIsConcat
    <2> HIDE DEF x, s, u
    <2>6. (u \o s) \o x = u \o (s \o x)
      BY <2>3, <2>4, ConcatAssociative
    <2> QED
      BY <2>1, <2>2, <2>5, <2>6 DEF u
  <1>8. NoNil(f) /\ ~f.loop
    BY <1>4 DEF NoNil
  <1> HIDE DEF t
  <1> QED
    BY <1>1, <1>4, <1>5, <1>6, <1>7, <1>8, Replaced DEF t

LEMMA LoopLeft ==
  ASSUME WalkInv, calls = 1, EndLoop
  PROVE  Running'
  <1> DEFINE f == [top EXCEPT !.loop = FALSE, !.dry = FALSE,
                              !.at = IF lastEnd > @ THEN lastEnd + 1 ELSE @ + 1]
             past == IF lastEnd > top.at THEN lastEnd + 1 ELSE top.at + 1
             t == template
  <1>1. /\ status = "running" /\ top.loop /\ top.todo = <<>> /\ Replace(f)
        /\ UNCHANGED <<template, status>> /\ lastEnd' = lastEnd
    BY DEF EndLoop
  <1>2. Inv
    BY DEF WalkInv
  <1>3. /\ top \in Frame /\ t \in Seq(Node) /\ Len(t) \in Nat /\ depth \in Nat \ {0}
        /\ top.at \in Nat \ {0} /\ lastEnd \in Nat /\ top.cur \in Val
    BY <1>1, RunningFacts DEF Frame
  <1>4. top.at <= Len(t)
    BY <1>1, <1>3, RunningFacts
  <1>5. /\ f \in Frame /\ ~f.loop /\ f.at = past /\ f.cur = top.cur /\ f.full = top.full
        /\ past \in Nat \ {0} /\ past >= top.at
    <2>1. past \in Nat \ {0} /\ past >= top.at
      BY <1>3
    <2>2. f = [top EXCEPT !.loop = FALSE, !.dry = FALSE, !.at = past]
      BY <1>3 DEF Frame
    <2> HIDE DEF past
    <2>3. f \in Frame /\ f.loop = FALSE /\ f.at = past /\ f.cur = top.cur /\ f.full = top.full
      BY <1>3, <2>1, <2>2 DEF Frame
    <2> QED
      BY <2>1, <2>3
  <1> HIDE DEF f
  <1>6. /\ stack' \in Seq(Frame) /\ Len(stack') = depth /\ stack'[depth] = f
        /\ \A a \in 1..(depth - 1) : stack'[a] = stack[a]
    <2>1. f.at >= top.at
      BY <1>5
    <2> QED
      BY <1>1, <1>2, <1>5, <2>1, ChangeTop
  <1>7. ASSUME Paired(t)
        PROVE  /\ lastEnd \in (top.at + 1)..Len(t) /\ Closes(t, top.at, lastEnd)
               /\ past = lastEnd + 1
    <2>1. EndMet(t, top, lastEnd)
      BY <1>1, <1>7, RunningFacts
    <2>2. lastEnd \in (top.at + 1)..Len(t) /\ Closes(t, top.at, lastEnd)
      BY <1>1, <2>1 DEF EndMet
    <2> QED
      BY <1>3, <2>2
  <1> HIDE DEF past
  <1>8. ASSUME Paired(t) PROVE InStep(t, Begin(stack, depth), depth, f) /\ EndMet(t, f, lastEnd')
    <2> DEFINE b == Begin(stack, depth)
    <2>1. InStep(t, b, depth, top)
      BY <1>1, <1>8, TopInStep
    <2>2. b \in Nat
      <3>1. depth # 1 => depth - 1 \in 1..depth
        BY <1>3
      <3>2. depth # 1 => stack[depth - 1] \in Frame
        BY <1>1, <3>1, RunningFacts
      <3> QED
        BY <3>2 DEF Begin, Frame
    <2> HIDE DEF b
    <2>3. /\ Nesting(t, top.at - 1) = depth - 1 /\ t[top.at].cmd = "range"
          /\ \A n \in b..(top.at - 1) : Nesting(t, n) >= depth - 1
          /\ \A n \in 0..(top.at - 1) : Nesting(t, n) >= 0
      BY <1>1, <2>1 DEF InStep
    <2>4. Nesting(t, top.at) = depth
      <3>1. top.at \in 1..Len(t)
        BY <1>3, <1>4
      <3>2. Nesting(t, top.at) = Nesting(t, top.at - 1) + 1
        BY <1>3, <2>3, <3>1, NestingStep
      <3> QED
        BY <1>3, <2>3, <3>2
    <2>5. /\ lastEnd \in (top.at + 1)..Len(t) /\ f.at = lastEnd + 1
          /\ Nesting(t, lastEnd) = depth - 1
          /\ \A n \in top.at..(lastEnd - 1) : Nesting(t, n) >= depth
      BY <1>5, <1>7, <1>8, <2>4 DEF Closes
    <2>6. f.at - 1 = lastEnd /\ f.at <= Len(t) + 1
      BY <1>3, <2>5
    <2>7. /\ \A n \in b..lastEnd : n \in b..(top.at - 1) \/ n \in top.at..(lastEnd - 1) \/ n = lastEnd
          /\ \A n \in 0..lastEnd : n \in 0..(top.at - 1) \/ n \in top.at..(lastEnd - 1) \/ n = lastEnd
      BY <1>3, <2>2, <2>5
    <2>8. \A n \in 0..lastEnd : Nesting(t, n) \in Int
      BY <1>3, <2>5, NestingStep
    <2>9. \A n \in top.at..(lastEnd - 1) : n \in 0..lastEnd
      BY <1>3
    <2>10. \A n \in top.at..(lastEnd - 1) : Nesting(t, n) >= depth - 1 /\ Nesting(t, n) >= 0
      <3> SUFFICES ASSUME NEW n \in top.at..(lastEnd - 1)
                   PROVE  Nesting(t, n) >= depth - 1 /\ Nesting(t, n) >= 0
        OBVIOUS
      <3>1. Nesting(t, n) >= depth /\ Nesting(t, n) \in Int
        BY <2>5, <2>8, <2>9
      <3> QED
        BY <1>3, <3>1
    <2>11. /\ \A n \in b..lastEnd : Nesting(t, n) >= depth - 1
           /\ \A n \in 0..lastEnd : Nesting(t, n) >= 0
      BY <1>3, <2>3, <2>5, <2>7, <2>10
    <2> QED
      BY <1>5, <2>5, <2>6, <2>11 DEF InStep, EndMet, b
  <1>9. Balanced(t) => f.full \o Ahead(t, f) = top.full \o Ahead(t, top)
    <2> SUFFICES ASSUME Balanced(t) PROVE Ahead(t, f) = Ahead(t, top)
      BY <1>5
    <2> DEFINE e == MatchingEnd(t, top.at)
               F == Meaning(t)[top.at + 1]
               R == Meaning(t)[e + 1][top.cur]
    <2>1. Paired(t)
      BY DEF Paired
    <2>2. e = lastEnd
      <3>1. top.at \in 1..Len(t)
        BY <1>3, <1>4
      <3> QED
        BY <1>3, <1>7, <2>1, <3>1, EndIsMatching
    <2>3. Ahead(t, f) = Meaning(t)[lastEnd + 1][top.cur]
      BY <1>5, <1>7, <2>1 DEF Ahead
    <2>4. R \in Seq(Group)
      <3> HIDE DEF e
      <3>1. e + 1 \in 1..(Len(t) + 1)
        BY <1>3, <1>7, <2>1, <2>2
      <3> QED
        BY <1>3, <3>1, MeaningAt
    <2>5. Ahead(t, top) = (IF top.dry THEN <<>> ELSE Each(F, <<>>)) \o R
      BY <1>1 DEF Ahead
    <2> HIDE DEF R, F, e
    <2>6. Ahead(t, top) = R
      <3>1. Each(F, <<>>) = <<>> /\ <<>> \o R = R
        BY <2>4, EachEmpty, ConcatEmptySeq
      <3> QED
        BY <2>5, <3>1
    <2> QED
      BY <2>2, <2>3, <2>6 DEF R
  <1>10. NoNil(f)
    BY <1>5 DEF NoNil
  <1> HIDE DEF t
  <1> QED
    BY <1>1, <1>5, <1>6, <1>8, <1>9, <1>10, Replaced DEF t

LEMMA Iterated ==
  ASSUME WalkInv, calls = 1, Iterate
  PROVE  Running'
  <1>1. /\ status = "running" /\ top.loop /\ top.todo # <<>> /\ rootAt' = top.at
        /\ stack' = Append([stack EXCEPT ![depth].todo = Tail(@)], NewFrame(Head(top.todo)))
        /\ UNCHANGED <<template, status, lastEnd>>
    BY DEF Iterate
  <1>2. Inv
    BY DEF WalkInv
  <1>3. /\ stack' \in Seq(Frame) /\ Len(stack') = depth + 1
        /\ stack'[depth + 1] = NewFrame(Head(top.todo))
        /\ stack'[depth] = [top EXCEPT !.todo = Tail(@)]
        /\ \A a \in 1..(depth - 1) : stack'[a] = stack[a]
    BY <1>1, <1>2, PushCall
  <1>4. stack'[depth + 1] = [at |-> top.at + 1, cur |-> Head(top.todo), full |-> <<>>,
                             loop |-> FALSE, todo |-> <<>>, dry |-> FALSE]
    BY <1>1, <1>3 DEF NewFrame
  <1>5. stack'[depth] \in Frame /\ stack'[depth + 1] \in Frame
    <2>1. depth \in 1..Len(stack') /\ depth + 1 \in 1..Len(stack')
      BY <1>1, <1>3, RunningFacts
    <2> QED
      BY <1>3, <2>1, ElementOfSeq
  <1> QED
    BY <1>1, <1>3, <1>4, <1>5, Pushed

LEMMA EndVisited ==
  ASSUME WalkInv, calls = 1, VisitEnd
  PROVE  Running' /\ status' = "running"
  <1>1. /\ status = "running" /\ AtNode /\ ~top.loop /\ PassUp(top.full) /\ outcome.st = "ok"
        /\ ended > 0 /\ lastEnd' = top.at /\ UNCHANGED template
    BY DEF VisitEnd, AtNode
  <1>2. Inv
    BY DEF WalkInv
  <1>3. node.cmd = "end" /\ depth # 1 /\ node = template[top.at] /\ top.at \in 1..Len(template)
    BY <1>1, FreshNode
  <1>4. UNCHANGED status
    BY <1>3, <1>1 DEF PassUp
  <1>5. /\ stack' \in Seq(Frame) /\ Len(stack') = depth - 1
        /\ stack'[depth - 1] = IF stack[depth - 1].dry THEN stack[depth - 1]
                               ELSE [stack[depth - 1] EXCEPT !.full = @ \o top.full]
        /\ \A k \in 1..(depth - 2) : stack'[k] = stack[k]
    BY <1>1, <1>2, <1>3, PopCall
  <1>6. top.at <= Len(template) /\ template[top.at].cmd = "end"
    BY <1>3
  <1> QED
    BY <1>1, <1>3, <1>4, <1>5, <1>6, Popped

(* Only the outermost call gets past the last node, and it has yielded it all. *)
LEMMA FallenOff ==
  ASSUME WalkInv, calls = 1, status = "running", ~top.loop, top.at > Len(template),
         Paired(template)
  PROVE  /\ depth = 1 /\ ~SurplusEnd(template)
         /\ Balanced(template) => top.full = Meaning(template)[1][Root]
  <1> DEFINE t == template
  <1>1. /\ t \in Seq(Node) /\ Len(t) \in Nat /\ depth \in Nat \ {0} /\ top \in Frame
        /\ top.at \in Nat /\ top.cur \in Val /\ top = stack[depth] /\ stack[1].cur = Root
    BY RunningFacts DEF Frame
  <1>2. InStep(t, Begin(stack, depth), depth, top)
    BY TopInStep
  <1>3. top.at = Len(t) + 1 /\ top.at - 1 = Len(t)
    BY <1>1, <1>2 DEF InStep
  <1>4. Nesting(t, Len(t)) = depth - 1 /\ \A n \in 0..Len(t) : Nesting(t, n) >= 0
    BY <1>2, <1>3 DEF InStep
  <1>5. ~SurplusEnd(t)
    <2> SUFFICES ASSUME NEW n \in 1..Len(t), Nesting(t, n) < 0 PROVE FALSE
      BY DEF SurplusEnd
    <2>1. n \in 0..Len(t)
      BY <1>1
    <2>2. Nesting(t, n) >= 0 /\ Nesting(t, n) \in Int
      BY <1>1, <1>4, <2>1, NestingStep
    <2> QED
      BY <2>2
  <1>6. Balanced(t)
    BY <1>5 DEF Paired
  <1>7. depth = 1
    BY <1>1, <1>4, <1>6 DEF Balanced
  <1>8. top.full = Meaning(t)[1][Root]
    <2>1. Due(t, stack, depth) = top.full \o Ahead(t, top) /\ top.full \in Seq(Group)
      BY <1>6, TopOwes
    <2>2. Ahead(t, top) = Meaning(t)[Len(t) + 1][top.cur]
      BY <1>3 DEF Ahead
    <2>3. Meaning(t)[Len(t) + 1][top.cur] = <<>>
      BY <1>1, <1>6, MeaningOver
    <2>4. top.full \o <<>> = top.full
      BY <2>1, ConcatEmptySeq
    <2>5. Due(t, stack, depth) = Meaning(t)[0 + 1][Root]
      BY <1>1, <1>7 DEF Due, Begin
    <2> QED
      BY <2>1, <2>2, <2>3, <2>4, <2>5
  <1> QED
    BY <1>5, <1>7, <1>8
--------------------------------------------------------------------------------
(* The user's first call.                                                      *)
LEMMA FirstCall ==
  ASSUME WalkInv, Call, calls' = 1
  PROVE  Running' /\ status' = "running"
  <1> DEFINE f == NewFrame(Root)
             t == template
  <1>1. /\ calls = 0 /\ rootAt' = 0 /\ stack' = <<f>> /\ status' = "running"
        /\ UNCHANGED template
    <2>1. calls \in Nat /\ calls' = calls + 1
      BY WalkAssumption DEF Call, WalkInv, Inv, TypeOK
    <2>2. calls = 0
      BY <2>1
    <2> QED
      BY <2>2 DEF Call, WalkInv, Ended
  <1>2. /\ f.at = 1 /\ f.cur = Root /\ f.full = <<>> /\ ~f.loop /\ ~f.dry /\ f.todo = <<>>
    BY <1>1 DEF NewFrame
  <1> HIDE DEF f
  <1>3. stack'[1] = f /\ Len(stack') = 1 /\ depth' = 1 /\ top' = f
    BY <1>1 DEF depth, top
  <1>4. t \in Seq(Node) /\ Len(t) \in Nat /\ Root \in Val
    BY WalkAssumption, FixedVals DEF WalkInv, Inv, TypeOK
  <1>5. Aligned(t, stack')
    <2>1. Nesting(t, 0) = 0
      BY <1>4, NestingStep
    <2>2. \A n \in 0..(1 - 1) : n = 0
      OBVIOUS
    <2>3. InStep(t, 0, 1, f)
      BY <1>2, <1>4, <2>1, <2>2 DEF InStep
    <2>4. Begin(stack', 1) = 0
      BY DEF Begin
    <2>5. \A k \in 1..Len(stack') : k = 1
      BY <1>3
    <2> QED
      BY <1>3, <2>3, <2>4, <2>5 DEF Aligned
  <1>6. EndMet(t, f, lastEnd')
    BY <1>2 DEF EndMet
  <1>7. Balanced(t) => Yielded(t, stack', 1)
    <2> SUFFICES ASSUME Balanced(t) PROVE Yielded(t, stack', 1)
      OBVIOUS
    <2> DEFINE m == Meaning(t)[1][Root]
    <2>1. m \in Seq(Group)
      BY <1>4, MeaningAt
    <2>2. Ahead(t, f) = m
      BY <1>2 DEF Ahead
    <2>3. Due(t, stack', 1) = m
      <3>1. Begin(stack', 1) + 1 = 1
        BY DEF Begin
      <3> QED
        BY <1>2, <1>3, <3>1 DEF Due
    <2> HIDE DEF m
    <2>4. m = <<>> \o (<<>> \o m)
      BY <2>1, ConcatEmptySeq
    <2>5. ~(1 < Len(stack'))
      BY <1>3
    <2> QED
      BY <1>2, <1>3, <2>2, <2>3, <2>4, <2>5 DEF Yielded
  <1>8. NoNil(f)
    BY <1>2 DEF NoNil
  <1>9. \A k \in 1..depth' : k = 1
    BY <1>3
  <1>10. Balanced(t) => \A k \in 1..depth' : Yielded(t, stack', k)
    BY <1>7, <1>9
  <1>11. \A k \in 1..depth' : NoNil(stack'[k])
    BY <1>3, <1>8, <1>9
  <1> QED
    BY <1>1, <1>2, <1>3, <1>5, <1>6, <1>10, <1>11 DEF Running

(* While it is running, LoopSemantics has nothing to say of it.                *)
LEMMA StillRunning ==
  ASSUME status' = "running" PROVE LoopSemantics'
  BY DEF LoopSemantics

LEMMA WalkInit == Init => WalkInv
  <1> SUFFICES ASSUME Init PROVE WalkInv
    OBVIOUS
  <1>1. Inv
    BY InvInit
  <1>2. calls = 0 /\ rootAt = 0 /\ status = "idle"
    BY DEF Init
  <1>3. Running /\ LoopSemantics
    BY <1>2 DEF Running, LoopSemantics
  <1> QED
    BY <1>1, <1>2, <1>3 DEF WalkInv, Ended

(* What a step of the evaluation does to a fresh JSONPath.                     *)
LEMMA FreshStep ==
  ASSUME WalkInv, calls = 1, Step
  PROVE  Running' /\ LoopSemantics'
  <1>0. status = "running" /\ UNCHANGED <<template, calls>>
    BY DEF Step, AtNode, WalkFails, VisitEnd, VisitRange, VisitValue, FallOff, Iterate,
           IterateNil, EndLoop, Unwind, PassUp
  <1>1. CASE WalkFails
    <2>1. AtNode /\ outcome.st # "ok" /\ status' = outcome.st
      BY <1>1 DEF WalkFails, Unwind
    <2>2. status' \in {"error", "panic"}
      BY <2>1, OutcomeKinds
    <2>3. ASSUME Balanced(template), NeverFails(template) PROVE FALSE
      <3>1. /\ top.at \in 1..Len(template) /\ node = template[top.at] /\ node \in Node
            /\ top.cur \in Val /\ inRange = depth - 1 /\ depth \in Nat \ {0}
        BY <2>1, FreshNode
      <3>2. /\ AllowMissing /\ node.cmd # "unknown" /\ node.expr # "index"
            /\ \A x \in 1..Len(node.fan) : node.fan[x] >= 0
        BY <2>3, <3>1 DEF NeverFails
      <3>3. CASE node.cmd = "end"
        <4>1. depth = 1
          <5>1. inRange > 0 => outcome.st = "ok"
            BY <3>3 DEF outcome, Outcome
          <5> QED
            BY <2>1, <3>1, <5>1
        <4>2. /\ template \in Seq(Node) /\ Len(template) \in Nat /\ Paired(template)
          BY <1>0, <2>3, RunningFacts
        <4>3. Nesting(template, top.at - 1) = 0
          <5>1. InStep(template, Begin(stack, depth), depth, top)
            BY <1>0, <4>2, TopInStep
          <5> QED
            BY <4>1, <5>1 DEF InStep
        <4>4. Nesting(template, top.at) = Nesting(template, top.at - 1) + (-1)
          BY <3>1, <3>3, <4>2, NestingStep
        <4>5. Nesting(template, top.at) < 0
          BY <4>3, <4>4
        <4> QED
          BY <2>3, <3>1, <4>5 DEF Balanced, SurplusEnd
      <3>4. CASE node.cmd # "end"
        <4>1. outcome = Eval(node, top.cur)
          BY <3>2, <3>4 DEF outcome
        <4>2. Eval(node, top.cur).st = "ok"
          BY <3>1, <3>2, Harmless
        <4> QED
          BY <2>1, <4>1, <4>2
      <3> QED
        BY <3>3, <3>4
    <2> QED
      BY <1>0, <2>2, <2>3 DEF Running, LoopSemantics
  <1>2. CASE VisitEnd
    BY <1>2, EndVisited, StillRunning
  <1>3. CASE VisitRange
    <2>1. status' = "running"
      BY <1>0, <1>3 DEF VisitRange
    <2> QED
      BY <1>3, <2>1, RangeVisited, StillRunning
  <1>4. CASE VisitValue
    <2>1. status' = "running"
      BY <1>0, <1>4 DEF VisitValue
    <2> QED
      BY <1>4, <2>1, ValueVisited, StillRunning
  <1>5. CASE FallOff
    <2>1. ~top.loop /\ top.at > Len(template) /\ PassUp(top.full)
      BY <1>5 DEF FallOff
    <2>2. CASE depth = 1
      <3>1. status' = "done" /\ result' = top.full
        BY <2>1, <2>2 DEF PassUp
      <3>2. Balanced(template) => Paired(template)
        BY DEF Paired
      <3>3. SurplusEnd(template) => Paired(template)
        BY DEF Paired
      <3>4. /\ Balanced(template) => result' = Meaning(template)[1][Root]
            /\ ~SurplusEnd(template)
        BY <1>0, <2>1, <3>1, <3>2, <3>3, FallenOff
      <3> QED
        BY <1>0, <3>1, <3>4 DEF Running, LoopSemantics
    <2>3. CASE depth # 1
      <3>1. UNCHANGED status
        BY <2>1, <2>3 DEF PassUp
      <3>2. ~Paired(template)
        BY <1>0, <2>1, <2>3, FallenOff
      <3>3. Inv
        BY DEF WalkInv
      <3>4. /\ stack' \in Seq(Frame) /\ Len(stack') = depth - 1
            /\ stack'[depth - 1] = IF stack[depth - 1].dry THEN stack[depth - 1]
                                   ELSE [stack[depth - 1] EXCEPT !.full = @ \o top.full]
            /\ \A k \in 1..(depth - 2) : stack'[k] = stack[k]
        BY <1>0, <2>1, <2>3, <3>3, PopCall
      <3>5. Running'
        BY <1>0, <2>1, <2>3, <3>1, <3>2, <3>4, Popped
      <3> QED
        BY <1>0, <3>1, <3>5, StillRunning
    <2> QED
      BY <2>2, <2>3
  <1>6. CASE Iterate
    <2>1. status' = "running"
      BY <1>0, <1>6 DEF Iterate
    <2> QED
      BY <1>6, <2>1, Iterated, StillRunning
  <1>7. CASE IterateNil
    <2>1. /\ top.loop /\ top.todo # <<>> /\ ~top.dry /\ Head(top.todo).nil /\ status' = "panic"
      BY <1>7 DEF IterateNil
    <2>2. ASSUME Balanced(template), NeverFails(template) PROVE FALSE
      <3>1. NoNil(top) /\ top \in Frame
        BY <1>0, <2>2, RunningFacts
      <3>2. 1 \in 1..Len(top.todo) /\ Head(top.todo) = top.todo[1]
        <4>1. top.todo \in Seq(Val)
          BY <3>1 DEF Frame
        <4> QED
          BY <2>1, <4>1, EmptySeq
      <3> QED
        BY <2>1, <3>1, <3>2 DEF NoNil
    <2> QED
      BY <1>0, <2>1, <2>2 DEF Running, LoopSemantics
  <1>8. CASE EndLoop
    <2>1. status' = "running"
      BY <1>0, <1>8 DEF EndLoop
    <2> QED
      BY <1>8, <2>1, LoopLeft, StillRunning
  <1> QED
    BY <1>1, <1>2, <1>3, <1>4, <1>5, <1>6, <1>7, <1>8 DEF Step

LEMMA WalkStep == WalkInv /\ [Next]_vars => WalkInv'
  <1> SUFFICES ASSUME WalkInv, [Next]_vars PROVE WalkInv'
    OBVIOUS
  <1>1. Inv'
    BY InvStep DEF WalkInv
  <1>2. calls \in Nat /\ (status = "idle" <=> calls = 0)
    BY WalkAssumption DEF WalkInv, Inv, TypeOK, Ended
  <1>3. CASE Call
    <2>1. calls' = calls + 1 /\ status' = "running"
      BY <1>3 DEF Call
    <2>2. Running'
      <3>1. CASE calls' = 1
        BY <1>3, <3>1, FirstCall
      <3>2. CASE calls' # 1
        BY <3>2 DEF Running
      <3> QED
        BY <3>1, <3>2
    <2> QED
      BY <1>1, <1>2, <2>1, <2>2, StillRunning DEF WalkInv, Ended
  <1>4. CASE Step
    <2>1. status = "running" /\ UNCHANGED calls /\ status' # "idle"
      <3>1. status = "running" /\ UNCHANGED calls
        BY <1>4 DEF Step, AtNode, WalkFails, VisitEnd, VisitRange, VisitValue, FallOff, Iterate,
                    IterateNil, EndLoop, Unwind
      <3>2. status' # "idle"
        BY <1>4, <3>1, OutcomeKinds
           DEF Step, WalkFails, VisitEnd, VisitRange, VisitValue, FallOff, Iterate,
               IterateNil, EndLoop, Unwind, PassUp
      <3> QED
        BY <3>1, <3>2
    <2>2. Running' /\ LoopSemantics'
      <3>1. CASE calls = 1
        BY <1>4, <3>1, FreshStep
      <3>2. CASE calls # 1
        BY <2>1, <3>2 DEF Running, LoopSemantics
      <3> QED
        BY <3>1, <3>2
    <2> QED
      BY <1>1, <1>2, <2>1, <2>2 DEF WalkInv, Ended
  <1>5. CASE UNCHANGED vars
    <2>1. /\ template' = template /\ stack' = stack /\ status' = status /\ lastEnd' = lastEnd
          /\ calls' = calls /\ rootAt' = rootAt /\ result' = result
          /\ depth' = depth /\ top' = top
      BY <1>5 DEF vars, counters, depth, top
    <2>2. Running'
      BY <2>1 DEF WalkInv, Running
    <2>3. Ended'
      BY <2>1 DEF WalkInv, Ended, LoopSemantics
    <2> QED
      BY <1>1, <2>2, <2>3 DEF WalkInv
  <1> QED
    BY <1>3, <1>4, <1>5 DEF Next

THEOREM WalkInvariance == Spec => []WalkInv
  BY WalkInit, WalkStep, PTL DEF Spec

(* For every template: on a fresh JSONPath the counters and the end last met   *)
(* find the matching end of every range, so that a balanced template yields    *)
(* what its nested loops mean, and fails only where a node fails; an end too   *)
(* many is always refused.                                                     *)
THEOREM LoopsAreNested == Spec => []LoopSemantics
  <1>1. WalkInv => LoopSemantics
    BY DEF WalkInv, Ended
  <1> QED
    BY <1>1, WalkInvariance, PTL
================================================================================
