------------------------------- MODULE EvalProofs -------------------------------
(* Theorems about Eval, for any documents, expressions and templates.          *)
EXTENDS EvalMeaning, FiniteSetTheorems, FunctionTheorems, SequenceTheorems,
        WellFoundedInduction, TLAPS

D == DOMAIN doc

Frames == [nodes : Lists, at : Nat \ {0}, cur : Seq(D), todo : Seq(D), out : Seq(D),
           elems : Seq(D), left : Seq(D), m : Nat \ {0}]

Given == doc \in Documents /\ template \in Templates /\ allow \in BOOLEAN

StackOK == /\ stack \in Seq(Frames)
           /\ \A s \in 1..Len(stack) : stack[s].at <= Len(stack[s].nodes) + 1

ModeOK ==
    /\ mode \in {"next", "walk", "return", "ok", "error"}
    /\ ret \in [err : BOOLEAN, vals : Seq(D)]
    /\ full \in Seq(Seq(D)) /\ Len(full) <= Len(template)
    /\ mode \in {"walk", "return"} => Len(full) < Len(template)
    /\ mode = "walk" => stack # <<>>
    /\ mode \in {"next", "ok", "error"} => stack = <<>>

(* A frame that waits for a call: what a return finds.                         *)
Pending(f) ==
    /\ f.at <= Len(f.nodes)
    /\ \/ f.nodes[f.at].type = "filter" /\ f.elems # <<>>
       \/ f.nodes[f.at].type = "union" /\ f.m <= Len(f.nodes[f.at].members)

Waiting == \A s \in 1..Len(stack) : s < Len(stack) \/ mode = "return" => Pending(stack[s])

(* Only a filter that waits for its right operand holds a left one.            *)
LeftOK ==
    \A s \in 1..Len(stack) : stack[s].left # <<>> =>
        /\ s < Len(stack) \/ mode = "return"
        /\ stack[s].nodes[stack[s].at].type = "filter"

Inv == Given /\ StackOK /\ ModeOK /\ Waiting /\ CallsMatch /\ LeftOK
--------------------------------------------------------------------------------
LEMMA Replaced ==
  ASSUME NEW S, NEW q \in Seq(S), q # <<>>, NEW f \in S
  PROVE  LET t == [q EXCEPT ![Len(q)] = f]
         IN  /\ t \in Seq(S) /\ Len(t) = Len(q) /\ Len(q) \in Nat /\ Len(q) > 0
             /\ t[Len(q)] = f
             /\ \A s \in 1..Len(q) : s < Len(q) => t[s] = q[s]
  OBVIOUS

LEMMA Pushed ==
  ASSUME NEW S, NEW q \in Seq(S), NEW f \in S
  PROVE  /\ Append(q, f) \in Seq(S) /\ Len(Append(q, f)) = Len(q) + 1
         /\ Len(q) \in Nat /\ Append(q, f) # <<>>
         /\ Append(q, f)[Len(q) + 1] = f
         /\ \A s \in 1..Len(q) : Append(q, f)[s] = q[s]
  OBVIOUS

LEMMA Popped ==
  ASSUME NEW S, NEW q \in Seq(S), q # <<>>
  PROVE  LET t == SubSeq(q, 1, Len(q) - 1)
         IN  /\ t \in Seq(S) /\ Len(t) = Len(q) - 1
             /\ Len(q) \in Nat /\ Len(q) > 0
             /\ \A s \in 1..(Len(q) - 1) : t[s] = q[s]
  <1>1. Len(q) \in Nat /\ Len(q) > 0
    BY EmptySeq, LenProperties
  <1>2. \A s \in 1..(Len(q) - 1) : q[s] \in S
    BY <1>1, ElementOfSeq
  <1>3. 1 \in 1..(Len(q) + 1) /\ Len(q) - 1 \in 0..Len(q) /\ Len(q) - 1 + 1 - 1 = Len(q) - 1
    BY <1>1
  <1>4. SubSeq(q, 1, Len(q) - 1) \in Seq(S) /\ Len(SubSeq(q, 1, Len(q) - 1)) = Len(q) - 1
        /\ \A s \in 1..(Len(q) - 1) : SubSeq(q, 1, Len(q) - 1)[s] = q[s]
    BY <1>1, <1>3, SubSeqProperties
  <1> QED
    BY <1>1, <1>4

LEMMA TopType ==
  ASSUME Inv, stack # <<>>
  PROVE  top \in Frames /\ Len(stack) \in Nat /\ Len(stack) > 0
         /\ top.at <= Len(top.nodes) + 1 /\ Len(top.nodes) \in Nat
  <1>1. Len(stack) \in Nat /\ Len(stack) > 0 /\ top \in Frames
    BY LenProperties, EmptySeq, ElementOfSeq DEF Inv, StackOK, top
  <1>2. top.nodes \in Seq(Nodes)
    BY <1>1, EvalAssumption DEF Frames
  <1>3. top.at <= Len(top.nodes) + 1
    BY <1>1 DEF Inv, StackOK, top
  <1> QED
    BY <1>1, <1>2, <1>3, LenProperties

(* What each kind of step makes of the stack.                                  *)
(* The first N frames stay what they are.                                      *)
Below(N) == \A s \in Nat : 0 < s /\ s <= N => stack'[s] = stack[s]

LEMMA Continues ==
  ASSUME Inv, NEW N \in Nat, N > 0, Len(stack) = N, Len(stack') = N,
         mode \in {"walk", "return"},
         stack' \in Seq(Frames), Below(N - 1),
         stack'[N].nodes = top.nodes, stack'[N].at <= Len(top.nodes) + 1,
         stack'[N].at = 1 => top.at = 1 /\ stack'[N].cur = top.cur,
         stack'[N].left = <<>>, mode' = "walk", ret' = ret, Stay
  PROVE  Inv'
  <1> USE DEF Stay
  <1>1. \A s \in Nat : 0 < s /\ s < N => stack'[s] = stack[s]
    BY DEF Below
  <1>2. Given' /\ Frames' = Frames /\ D' = D
    BY DEF Inv, Given, Frames, D
  <1>3. StackOK'
    <2> SUFFICES ASSUME NEW s \in 1..N
                 PROVE  stack'[s].at <= Len(stack'[s].nodes) + 1
      BY <1>2 DEF StackOK
    <2>1. CASE s < N
      <3>1. stack'[s] = stack[s] /\ s \in 1..Len(stack)
        BY <1>1, <2>1
      <3> QED
        BY <3>1 DEF Inv, StackOK
    <2>2. CASE s = N
      BY <2>2
    <2> QED
      BY <2>1, <2>2
  <1>4. ModeOK'
    <2>1. stack' # <<>>
      BY EmptySeq
    <2> QED
      BY <1>2, <2>1 DEF Inv, ModeOK
  <1>5. Waiting'
    <2> SUFFICES ASSUME NEW s \in 1..N, s < N
                 PROVE  Pending(stack'[s])
      BY DEF Waiting, Pending
    <2> QED
      BY <1>1 DEF Inv, Waiting
  <1>6. CallsMatch'
    <2> SUFFICES ASSUME NEW s \in 1..(N - 1)
                 PROVE  /\ stack'[s].at <= Len(stack'[s].nodes)
                        /\ stack'[s + 1].at = 1 =>
                              Calls(stack'[s], stack'[s + 1].nodes, stack'[s + 1].cur)
      BY DEF CallsMatch, Calls
    <2>1. stack'[s] = stack[s] /\ s \in 1..(Len(stack) - 1)
      BY <1>1
    <2>2. CASE s + 1 < N
      BY <1>1, <2>1, <2>2 DEF Inv, CallsMatch
    <2>3. CASE s + 1 = N
      BY <2>1, <2>3 DEF Inv, CallsMatch, top
    <2> QED
      BY <2>2, <2>3
  <1>7. LeftOK'
    <2> SUFFICES ASSUME NEW s \in 1..N, stack'[s].left # <<>>
                 PROVE  s < N /\ stack'[s].nodes[stack'[s].at].type = "filter"
      BY DEF LeftOK
    <2>1. CASE s < N
      <3>1. stack'[s] = stack[s] /\ s \in 1..Len(stack)
        BY <1>1, <2>1
      <3> QED
        BY <2>1, <3>1 DEF Inv, LeftOK
    <2>2. CASE s = N
      BY <2>2
    <2> QED
      BY <2>1, <2>2
  <1> QED
    BY <1>2, <1>3, <1>4, <1>5, <1>6, <1>7 DEF Inv

LEMMA StepContinue ==
  ASSUME Inv, stack # <<>>, mode \in {"walk", "return"}, NEW f \in Frames,
         f.nodes = top.nodes, f.at <= Len(top.nodes) + 1,
         f.at = 1 => top.at = 1 /\ f.cur = top.cur, f.left = <<>>,
         stack' = [stack EXCEPT ![Len(stack)] = f],
         mode' = "walk", ret' = ret, Stay
  PROVE  Inv'
  <1>1. /\ stack' \in Seq(Frames) /\ Len(stack') = Len(stack)
        /\ Len(stack) \in Nat /\ Len(stack) > 0
        /\ stack'[Len(stack)] = f
        /\ \A s \in 1..Len(stack) : s < Len(stack) => stack'[s] = stack[s]
    BY Replaced DEF Inv, StackOK
  <1>2. \A N \in Nat : \A s \in Nat : 0 < s /\ s <= N - 1 => s \in 1..N /\ s < N
    OBVIOUS
  <1>3. Below(Len(stack) - 1)
    BY <1>1, <1>2, Zenon DEF Below
  <1> QED
    BY <1>1, <1>3, Continues

LEMMA Returns ==
  ASSUME Inv, NEW N \in Nat, N > 0, Len(stack) = N, Len(stack') = N - 1,
         mode \in {"walk", "return"},
         stack' \in Seq(Frames), Below(N - 1),
         ret' \in [err : BOOLEAN, vals : Seq(D)], mode' = "return", Stay
  PROVE  Inv'
  <1> USE DEF Stay
  <1>1. \A s \in Nat : 0 < s /\ s < N => stack'[s] = stack[s]
    BY DEF Below
  <1>2. Given' /\ Frames' = Frames /\ D' = D
    BY DEF Inv, Given, Frames, D
  <1>3. StackOK'
    <2> SUFFICES ASSUME NEW s \in 1..(N - 1)
                 PROVE  stack'[s].at <= Len(stack'[s].nodes) + 1
      BY <1>2 DEF StackOK
    <2> QED
      BY <1>1 DEF Inv, StackOK
  <1>4. ModeOK'
    BY <1>2 DEF Inv, ModeOK
  <1>5. Waiting'
    <2> SUFFICES ASSUME NEW s \in 1..(N - 1)
                 PROVE  Pending(stack'[s])
      BY DEF Waiting, Pending
    <2> QED
      BY <1>1 DEF Inv, Waiting
  <1>6. CallsMatch'
    <2> SUFFICES ASSUME NEW s \in 1..(N - 1 - 1)
                 PROVE  /\ stack'[s].at <= Len(stack'[s].nodes)
                        /\ stack'[s + 1].at = 1 =>
                              Calls(stack'[s], stack'[s + 1].nodes, stack'[s + 1].cur)
      BY DEF CallsMatch, Calls
    <2>1. stack'[s] = stack[s] /\ stack'[s + 1] = stack[s + 1] /\ s \in 1..(N - 1)
      BY <1>1
    <2> QED
      BY <2>1 DEF Inv, CallsMatch
  <1>7. LeftOK'
    <2> SUFFICES ASSUME NEW s \in 1..(N - 1), stack'[s].left # <<>>
                 PROVE  stack'[s].nodes[stack'[s].at].type = "filter"
      BY DEF LeftOK
    <2>1. CASE s < N
      <3>1. stack'[s] = stack[s] /\ s \in 1..Len(stack)
        BY <1>1, <2>1
      <3> QED
        BY <2>1, <3>1 DEF Inv, LeftOK
    <2> QED
      BY <2>1
  <1> QED
    BY <1>2, <1>3, <1>4, <1>5, <1>6, <1>7 DEF Inv

LEMMA StepReturn ==
  ASSUME Inv, stack # <<>>, mode \in {"walk", "return"},
         NEW err \in BOOLEAN, NEW vals \in Seq(D), Return(err, vals)
  PROVE  Inv'
  <1>1. /\ stack' \in Seq(Frames) /\ Len(stack') = Len(stack) - 1
        /\ Len(stack) \in Nat /\ Len(stack) > 0
        /\ \A s \in 1..(Len(stack) - 1) : stack'[s] = stack[s]
    BY Popped DEF Inv, StackOK, Return
  <1>2. Below(Len(stack) - 1)
    BY <1>1 DEF Below
  <1>3. ret' \in [err : BOOLEAN, vals : Seq(D)] /\ mode' = "return" /\ Stay
    BY DEF Return
  <1> QED
    BY <1>1, <1>2, <1>3, Returns

LEMMA FrameType ==
  ASSUME NEW list \in Lists, NEW input \in Seq(D)
  PROVE  Frame(list, input) \in Frames /\ Frame(list, input).at = 1
         /\ Frame(list, input).nodes = list /\ Frame(list, input).cur = input
         /\ Frame(list, input).left = <<>>
  BY DEF Frame, Frames

LEMMA CallsDown ==
  ASSUME Inv, NEW N \in Nat, N > 0, Len(stack) = N, Len(stack') = N + 1,
         mode \in {"walk", "return"}, stack' \in Seq(Frames), Below(N - 1),
         stack'[N].nodes = top.nodes, stack'[N].at = top.at, stack'[N].cur = top.cur,
         Pending(stack'[N]), stack'[N + 1].at = 1, stack'[N + 1].nodes \in Lists,
         Calls(stack'[N], stack'[N + 1].nodes, stack'[N + 1].cur),
         stack'[N].left # <<>> => stack'[N].nodes[stack'[N].at].type = "filter",
         stack'[N + 1].left = <<>>, mode' = "walk", ret' = ret, Stay
  PROVE  Inv'
  <1> USE DEF Stay
  <1>1. \A s \in Nat : 0 < s /\ s < N => stack'[s] = stack[s]
    BY DEF Below
  <1>2. Given' /\ Frames' = Frames /\ D' = D
    BY DEF Inv, Given, Frames, D
  <1>3. StackOK'
    <2>1. stack[N].at <= Len(stack[N].nodes) + 1
      BY DEF Inv, StackOK
    <2>2. Len(stack'[N + 1].nodes) \in Nat
      BY EvalAssumption, LenProperties
    <2> SUFFICES ASSUME NEW s \in 1..(N + 1)
                 PROVE  stack'[s].at <= Len(stack'[s].nodes) + 1
      BY <1>2 DEF StackOK
    <2>3. CASE s < N
      <3>1. stack'[s] = stack[s] /\ s \in 1..Len(stack)
        BY <1>1, <2>3
      <3> QED
        BY <3>1 DEF Inv, StackOK
    <2>4. CASE s = N
      BY <2>1, <2>4 DEF top
    <2>5. CASE s = N + 1
      BY <2>2, <2>5
    <2> QED
      BY <2>3, <2>4, <2>5
  <1>4. ModeOK'
    <2>1. stack' # <<>>
      BY EmptySeq
    <2> QED
      BY <1>2, <2>1 DEF Inv, ModeOK
  <1>5. Waiting'
    <2> SUFFICES ASSUME NEW s \in 1..N PROVE Pending(stack'[s])
      BY DEF Waiting, Pending
    <2>1. CASE s < N
      BY <1>1, <2>1 DEF Inv, Waiting
    <2>2. CASE s = N
      BY <2>2
    <2> QED
      BY <2>1, <2>2
  <1>6. CallsMatch'
    <2> SUFFICES ASSUME NEW s \in 1..(N + 1 - 1)
                 PROVE  /\ stack'[s].at <= Len(stack'[s].nodes)
                        /\ stack'[s + 1].at = 1 =>
                              Calls(stack'[s], stack'[s + 1].nodes, stack'[s + 1].cur)
      BY DEF CallsMatch
    <2>1. CASE s < N
      <3>1. stack'[s] = stack[s] /\ s \in 1..(N - 1)
        BY <1>1, <2>1
      <3>2. stack'[s + 1].at = stack[s + 1].at /\ stack'[s + 1].nodes = stack[s + 1].nodes
            /\ stack'[s + 1].cur = stack[s + 1].cur
        <4>1. CASE s + 1 < N
          BY <1>1, <4>1
        <4>2. CASE s + 1 = N
          BY <4>2 DEF top
        <4> QED
          BY <2>1, <4>1, <4>2
      <3> QED
        BY <3>1, <3>2 DEF Inv, CallsMatch
    <2>2. CASE s = N
      BY <2>2 DEF Pending
    <2> QED
      BY <2>1, <2>2
  <1>7. LeftOK'
    <2> SUFFICES ASSUME NEW s \in 1..(N + 1), stack'[s].left # <<>>
                 PROVE  s < N + 1 /\ stack'[s].nodes[stack'[s].at].type = "filter"
      BY DEF LeftOK
    <2>1. CASE s < N
      <3>1. stack'[s] = stack[s] /\ s \in 1..Len(stack)
        BY <1>1, <2>1
      <3> QED
        BY <2>1, <3>1 DEF Inv, LeftOK
    <2>2. CASE s = N
      BY <2>2
    <2>3. CASE s = N + 1
      BY <2>3
    <2> QED
      BY <2>1, <2>2, <2>3
  <1> QED
    BY <1>2, <1>3, <1>4, <1>5, <1>6, <1>7 DEF Inv

LEMMA StepCall ==
  ASSUME Inv, stack # <<>>, mode \in {"walk", "return"}, NEW g \in Frames,
         g.nodes = top.nodes, g.at = top.at, g.cur = top.cur, Pending(g),
         g.left # <<>> => node.type = "filter",
         NEW list \in Lists, NEW input \in Seq(D), Calls(g, list, input),
         stack' = Append([stack EXCEPT ![Len(stack)] = g], Frame(list, input)),
         mode' = "walk", ret' = ret, Stay
  PROVE  Inv'
  <1> DEFINE t == [stack EXCEPT ![Len(stack)] = g]
             N == Len(stack)
  <1>1. /\ t \in Seq(Frames) /\ Len(t) = N /\ N \in Nat /\ N > 0 /\ t[N] = g
        /\ \A s \in 1..N : s < N => t[s] = stack[s]
    BY Replaced DEF Inv, StackOK
  <1>2. Frame(list, input) \in Frames
    BY FrameType
  <1>3. stack' = Append(t, Frame(list, input))
    OBVIOUS
  <1> HIDE DEF t, N
  <1>4. /\ stack' \in Seq(Frames) /\ Len(stack') = N + 1
        /\ stack'[N + 1] = Frame(list, input)
        /\ \A s \in 1..N : stack'[s] = t[s]
    <2> HIDE <1>3
    <2>1. \A u \in Seq(Frames) : u = Append(t, Frame(list, input)) =>
            /\ u \in Seq(Frames) /\ Len(u) = N + 1
            /\ u[N + 1] = Frame(list, input)
            /\ \A s \in 1..N : u[s] = t[s]
      BY <1>1, <1>2, Pushed
    <2>2. Append(t, Frame(list, input)) \in Seq(Frames)
      BY <1>1, <1>2, Pushed
    <2> QED
      BY <1>3, <2>1, <2>2
  <1>5. stack'[N] = g /\ Below(N - 1) /\ N = Len(stack)
    BY <1>1, <1>4 DEF Below, N
  <1> QED
    BY <1>1, <1>4, <1>5, FrameType, CallsDown DEF node
--------------------------------------------------------------------------------
(* What the eval functions take from the document is in it.                    *)
LEMMA ElementsType ==
  ASSUME Given, NEW p \in D
  PROVE  Elements(p) \in Seq(D) /\ p \in Seq(Steps)
  <1>1. IsDocument(doc)
    BY EvalAssumption DEF Given
  <1>2. doc[p].kids \in Seq(Steps) /\ p \in Seq(Steps)
        /\ \A s \in 1..Len(doc[p].kids) : Append(p, doc[p].kids[s]) \in D
    BY <1>1 DEF IsDocument, D
  <1>3. DOMAIN doc[p].kids = 1..Len(doc[p].kids) /\ Len(doc[p].kids) \in Nat
    BY <1>2, LenProperties
  <1>4. Elements(p) \in [1..Len(doc[p].kids) -> D]
    BY <1>2, <1>3 DEF Elements
  <1> QED
    BY <1>2, <1>3, <1>4, SeqDef

LEMMA VisitsType ==
  ASSUME Given, NEW p \in D, NEW v \in Visits(p)
  PROVE  v \in Seq(D)
  <1> DEFINE e == Elements(p)
  <1>1. e \in Seq(D)
    BY ElementsType
  <1>2. Len(e) \in Nat /\ DOMAIN e = 1..Len(e) /\ \A s \in DOMAIN e : e[s] \in D
    BY <1>1, LenProperties, ElementOfSeq
  <1>3. v = e \/ \E f \in [DOMAIN e -> DOMAIN e] : v = [s \in DOMAIN e |-> e[f[s]]]
    BY DEF Visits
  <1> HIDE DEF e
  <1>4. v = e \/ v \in [1..Len(e) -> D]
    BY <1>2, <1>3
  <1> QED
    BY <1>1, <1>2, <1>4, SeqDef

LEMMA FieldType ==
  ASSUME Given, NEW p \in D, NEW name
  PROVE  Field(p, name) \in Seq(D)
  <1>1. IsDocument(doc)
    BY EvalAssumption DEF Given
  <1>2. doc[p].kids \in Seq(Steps)
        /\ \A s \in 1..Len(doc[p].kids) : Append(p, doc[p].kids[s]) \in D
    BY <1>1 DEF IsDocument, D
  <1>3. DOMAIN doc[p].kids = 1..Len(doc[p].kids)
    BY <1>2, LenProperties
  <1>4. CASE Field(p, name) = <<>>
    BY <1>4
  <1>5. CASE Field(p, name) # <<>>
    <2>1. PICK s \in DOMAIN doc[p].kids : doc[p].kids[s] = name
      BY <1>5 DEF Field
    <2>2. Append(p, name) \in D
      BY <1>2, <1>3, <2>1
    <2>3. Field(p, name) = <<Append(p, name)>>
      BY <1>5 DEF Field
    <2> HIDE DEF Field
    <2> QED
      BY <2>2, <2>3
  <1> QED
    BY <1>4, <1>5

(* The last index a slice takes lies before its end.                           *)
LEMMA LastStep ==
  ASSUME NEW n \in Nat, NEW step \in Nat, step > 0, n > 0,
         NEW s \in 1..((n + step - 1) \div step)
  PROVE  (s - 1) * step \in Nat /\ (s - 1) * step < n
  <1> DEFINE q == (n + step - 1) \div step
  <1>1. q \in Int /\ step * q <= n + step - 1
    OBVIOUS
  <1>2. step * s <= step * q
    BY <1>1
  <1>3. (s - 1) * step = step * s - step
    OBVIOUS
  <1>4. (s - 1) * step \in Nat
    OBVIOUS
  <1> QED
    BY <1>1, <1>2, <1>3, <1>4

LEMMA SliceType ==
  ASSUME NEW list \in Seq(D), NEW p \in Params,
         ~ZeroElements(p, Len(list)), Bounded(p, Len(list)), ~BadStep(p)
  PROVE  Slice(p, list) \in Seq(D)
  <1> DEFINE from == From(p, Len(list))
             to   == To(p, Len(list))
             step == StepOf(p)
             n    == to - from
             last == (n + step - 1) \div step
  <1>1. /\ from \in Int /\ to \in Int /\ Len(list) \in Nat
        /\ step \in Nat /\ step > 0
    BY EvalAssumption DEF From, To, StepOf, BadStep, Params, Entry, GoInt, MinInt
  <1>2. 0 <= from /\ from < to /\ to <= Len(list)
    BY <1>1 DEF ZeroElements, Bounded
  <1>3. Slice(p, list) = [s \in 1..last |-> list[from + (s - 1) * step + 1]]
    BY DEF Slice
  <1> HIDE DEF from, to, step
  <1>4. n \in Nat /\ n > 0
    BY <1>1, <1>2
  <1>5. \A s \in 1..last : (s - 1) * step \in Nat /\ (s - 1) * step < n
    <2> HIDE DEF n
    <2> QED
      BY <1>1, <1>4, LastStep
  <1>6. last \in Nat
    <2> HIDE DEF n
    <2>1. \A d \in Nat, k \in Nat : k > 0 => d \div k \in Nat
      OBVIOUS
    <2>2. n + step - 1 \in Nat
      BY <1>1, <1>4
    <2> QED
      BY <1>1, <2>1, <2>2
  <1> HIDE DEF last
  <1>7. \A s \in 1..last : list[from + (s - 1) * step + 1] \in D
    <2> SUFFICES ASSUME NEW s \in 1..last PROVE list[from + (s - 1) * step + 1] \in D
      OBVIOUS
    <2>1. PICK k \in Nat : k = (s - 1) * step /\ k < n
      BY <1>5
    <2>2. from + k + 1 \in 1..Len(list)
      BY <1>1, <1>2, <2>1
    <2> QED
      BY <2>1, <2>2, ElementOfSeq
  <1>8. [s \in 1..last |-> list[from + (s - 1) * step + 1]] \in [1..last -> D]
    BY <1>7
  <1> QED
    BY <1>3, <1>6, <1>8, SeqDef

LEMMA TopLeft ==
  ASSUME Inv, stack # <<>>, mode = "walk" \/ node.type # "filter"
  PROVE  top.left = <<>>
  <1>1. Len(stack) \in 1..Len(stack)
    BY TopType
  <1> QED
    BY <1>1, TopType DEF Inv, LeftOK, top, node

LEMMA VisitedType ==
  ASSUME Inv, stack # <<>>, top.todo # <<>>, NEW vals \in Seq(D)
  PROVE  /\ this \in D
         /\ Visited(vals).left = top.left
         /\ Visited(vals) \in Frames /\ Visited(vals).nodes = top.nodes
         /\ Visited(vals).at = top.at /\ Visited(vals).cur = top.cur
  <1>1. top \in Frames
    BY TopType
  <1>2. top.todo \in Seq(D) /\ top.out \in Seq(D)
    BY <1>1 DEF Frames
  <1>3. this \in D /\ Tail(top.todo) \in Seq(D) /\ top.out \o vals \in Seq(D)
    BY <1>2, HeadTailProperties, ConcatProperties DEF this
  <1> QED
    BY <1>1, <1>3 DEF Visited, Frames

LEMMA VisitStep ==
  ASSUME Inv, mode = "walk", top.todo # <<>>, NEW vals \in Seq(D), Continue(Visited(vals))
  PROVE  Inv'
  <1>1. stack # <<>>
    BY DEF Inv, ModeOK
  <1>2. top.at <= Len(top.nodes) + 1
    BY <1>1, TopType
  <1>3. /\ stack' = [stack EXCEPT ![Len(stack)] = Visited(vals)]
        /\ mode' = "walk" /\ ret' = ret /\ Stay
    BY DEF Continue
  <1> QED
    BY <1>1, <1>2, <1>3, VisitedType, TopLeft, StepContinue

LEMMA NextNodeStep ==
  ASSUME Inv, mode = "walk", top.at <= Len(top.nodes), NEW vals \in Seq(D),
         stack' = [stack EXCEPT ![Len(stack)] =
                     [Frame(top.nodes, vals) EXCEPT !.at = top.at + 1]],
         mode' = "walk", ret' = ret, Stay
  PROVE  Inv'
  <1> DEFINE f == [Frame(top.nodes, vals) EXCEPT !.at = top.at + 1]
  <1>1. stack # <<>>
    BY DEF Inv, ModeOK
  <1>2. top \in Frames /\ Len(top.nodes) \in Nat
    BY <1>1, TopType
  <1>3. top.at \in Nat \ {0} /\ top.nodes \in Lists
    BY <1>2 DEF Frames
  <1>4. f \in Frames /\ f.nodes = top.nodes /\ f.at = top.at + 1 /\ f.left = <<>>
    <2>1. Frame(top.nodes, vals) \in Frames /\ Frame(top.nodes, vals).nodes = top.nodes
          /\ Frame(top.nodes, vals).left = <<>>
      BY <1>3, FrameType
    <2>2. \A g \in Frames, k \in Nat \ {0} :
              /\ [g EXCEPT !.at = k] \in Frames
              /\ [g EXCEPT !.at = k].nodes = g.nodes /\ [g EXCEPT !.at = k].at = k
              /\ [g EXCEPT !.at = k].left = g.left
      BY DEF Frames
    <2>3. top.at + 1 \in Nat \ {0}
      BY <1>3
    <2> QED
      BY <2>1, <2>2, <2>3
  <1> HIDE DEF f
  <1>5. f.at <= Len(top.nodes) + 1 /\ f.at # 1
    BY <1>2, <1>3, <1>4
  <1>6. stack' = [stack EXCEPT ![Len(stack)] = f]
    BY DEF f
  <1> QED
    BY <1>1, <1>4, <1>5, <1>6, StepContinue

LEMMA NodeType ==
  ASSUME Inv, stack # <<>>, top.at <= Len(top.nodes)
  PROVE  node \in Nodes /\ IsNode(node)
  <1>1. top \in Frames
    BY TopType
  <1>2. top.nodes \in Seq(Nodes) /\ top.at \in Nat \ {0}
    BY <1>1, EvalAssumption DEF Frames
  <1>3. top.at \in 1..Len(top.nodes)
    BY <1>2, LenProperties
  <1> QED
    BY <1>2, <1>3, ElementOfSeq, EvalAssumption DEF node

(* A return that finds a caller finds it at a filter or union.                 *)
LEMMA CallerType ==
  ASSUME Inv, mode = "return", stack # <<>>
  PROVE  Pending(top) /\ top.at <= Len(top.nodes) /\ ret.err \in BOOLEAN /\ ret.vals \in Seq(D)
  <1>1. Len(stack) \in 1..Len(stack)
    BY TopType
  <1> QED
    BY <1>1 DEF Inv, Waiting, ModeOK, top, Pending

LEMMA TestedStep ==
  ASSUME Inv, Returned("filter"), NEW keep, Tested(keep)
  PROVE  Inv'
  <1> DEFINE f == [top EXCEPT !.elems = Tail(@), !.left = <<>>,
                      !.out = IF keep THEN Append(@, Head(top.elems)) ELSE @]
  <1>1. stack # <<>> /\ mode = "return"
    BY DEF Returned
  <1>2. top \in Frames /\ top.at <= Len(top.nodes) + 1
    BY <1>1, TopType
  <1>3. top.elems # <<>> /\ top.elems \in Seq(D) /\ top.out \in Seq(D)
    BY <1>1, <1>2, CallerType DEF Returned, Pending, node, Frames
  <1>4. Tail(top.elems) \in Seq(D) /\ Head(top.elems) \in D
        /\ Append(top.out, Head(top.elems)) \in Seq(D)
    BY <1>3, HeadTailProperties, AppendProperties
  <1>5. <<>> \in Seq(D)
    BY EmptySeq
  <1>6. f \in Frames /\ f.nodes = top.nodes /\ f.at = top.at /\ f.cur = top.cur /\ f.left = <<>>
    BY <1>2, <1>3, <1>4, <1>5 DEF Frames
  <1>7. stack' = [stack EXCEPT ![Len(stack)] = f] /\ mode' = "walk" /\ ret' = ret /\ Stay
    BY DEF Tested, Continue
  <1> HIDE DEF f
  <1> QED
    BY <1>1, <1>2, <1>6, <1>7, StepContinue
--------------------------------------------------------------------------------
LEMMA InitInv == Init => Inv
  <1> SUFFICES ASSUME Init PROVE Inv
    OBVIOUS
  <1> USE DEF Init
  <1>1. Given
    BY DEF Given
  <1>2. template \in Seq(Lists)
    BY EvalAssumption
  <1>3. Len(stack) = 0 /\ stack \in Seq(Frames)
    BY EmptySeq
  <1>4. StackOK /\ Waiting /\ CallsMatch /\ LeftOK
    BY <1>3 DEF StackOK, Waiting, CallsMatch, LeftOK
  <1>5. Len(template) \in Nat /\ full \in Seq(Seq(D)) /\ Len(full) = 0
        /\ ret \in [err : BOOLEAN, vals : Seq(D)]
    BY <1>2, LenProperties, EmptySeq
  <1>6. ModeOK
    BY <1>5 DEF ModeOK
  <1> QED
    BY <1>1, <1>4, <1>6 DEF Inv

LEMMA RootSteps == Inv /\ (WalkNext \/ Collect \/ Finish) => Inv'
  <1>1. ASSUME Inv, WalkNext PROVE Inv'
    <2> DEFINE list == template[Len(full) + 1]
    <2>1. stack = <<>> /\ Given /\ full \in Seq(Seq(D)) /\ Len(full) < Len(template)
      BY <1>1 DEF WalkNext, Inv, ModeOK
    <2>2. template \in Seq(Lists)
      BY <2>1, EvalAssumption DEF Given
    <2>3. Len(full) \in Nat /\ Len(template) \in Nat
      BY <2>1, <2>2, LenProperties
    <2>4. Len(full) + 1 \in 1..Len(template)
      BY <2>1, <2>3
    <2>5. list \in Lists
      BY <2>2, <2>4, ElementOfSeq
    <2>6. <<Root>> \in Seq(D)
      BY <2>1, EvalAssumption DEF Given, IsDocument, D
    <2>7. Frame(list, <<Root>>) \in Frames /\ Frame(list, <<Root>>).at = 1
          /\ Frame(list, <<Root>>).nodes = list /\ Frame(list, <<Root>>).left = <<>>
      BY <2>5, <2>6, FrameType
    <2>8. Len(list) \in Nat
      BY <2>5, EvalAssumption, LenProperties
    <2>9. stack' = Append(<<>>, Frame(list, <<Root>>)) /\ mode' = "walk" /\ ret' = ret
          /\ UNCHANGED <<doc, template, allow, full>>
      BY <1>1, <2>1 DEF WalkNext, Call, Stay
    <2> HIDE DEF list
    <2>10. /\ stack' \in Seq(Frames) /\ Len(stack') = 1 /\ stack' # <<>>
           /\ stack'[1] = Frame(list, <<Root>>)
      BY <2>7, <2>9
    <2>11. Given' /\ Frames' = Frames /\ D' = D
      BY <2>1, <2>9 DEF Given, Frames, D
    <2>12. StackOK'
      BY <2>7, <2>8, <2>10, <2>11 DEF StackOK
    <2>13. Waiting' /\ CallsMatch' /\ LeftOK'
      BY <2>7, <2>9, <2>10 DEF Waiting, CallsMatch, LeftOK
    <2>14. ModeOK'
      BY <1>1, <2>1, <2>9, <2>10, <2>11 DEF ModeOK, Inv
    <2> QED
      BY <2>11, <2>12, <2>13, <2>14 DEF Inv
  <1>2. ASSUME Inv, Collect PROVE Inv'
    <2>1. /\ Given' /\ Frames' = Frames /\ D' = D /\ stack' = stack /\ stack = <<>>
          /\ ret' = ret /\ template' = template
      BY <1>2 DEF Collect, Inv, Given, Frames, D
    <2>2. Len(full) \in Nat /\ Len(template) \in Nat /\ Len(full) < Len(template)
      BY <1>2, EvalAssumption, LenProperties DEF Collect, Inv, ModeOK, Given
    <2>3. ret.vals \in Seq(D) /\ full \in Seq(Seq(D))
      BY <1>2 DEF Inv, ModeOK
    <2>4. full' \in Seq(Seq(D)) /\ Len(full') <= Len(template)
      <3>1. CASE ret.err
        BY <1>2, <2>2, <3>1, EmptySeq DEF Collect
      <3>2. CASE ~ret.err
        BY <1>2, <2>2, <2>3, <3>2, AppendProperties DEF Collect
      <3> QED
        BY <3>1, <3>2
    <2>5. mode' \in {"next", "error"}
      BY <1>2 DEF Collect
    <2>6. ModeOK'
      BY <1>2, <2>1, <2>4, <2>5 DEF ModeOK, Inv
    <2>7. StackOK' /\ Waiting' /\ CallsMatch' /\ LeftOK'
      BY <2>1, EmptySeq DEF StackOK, Waiting, CallsMatch, LeftOK
    <2> QED
      BY <2>1, <2>6, <2>7 DEF Inv
  <1>3. ASSUME Inv, Finish PROVE Inv'
    <2>1. stack = <<>>
      BY <1>3 DEF Finish, Inv, ModeOK
    <2>2. Given' /\ ModeOK' /\ StackOK'
      BY <1>3 DEF Finish, Inv, Given, ModeOK, StackOK, Frames, D
    <2>3. Waiting' /\ CallsMatch' /\ LeftOK'
      BY <1>3, <2>1, EmptySeq DEF Finish, Waiting, CallsMatch, LeftOK
    <2> QED
      BY <2>2, <2>3 DEF Inv
  <1> QED
    BY <1>1, <1>2, <1>3

LEMMA ListSteps ==
  Inv /\ (EndList \/ EndLoop \/ Text \/ Constant \/ Identifier \/ EndField
           \/ FailArray \/ ZeroSelection \/ EndUnion) => Inv'
  <1> SUFFICES ASSUME Inv PROVE (EndList \/ EndLoop \/ Text \/ Constant \/ Identifier
                \/ EndField \/ FailArray \/ ZeroSelection \/ EndUnion) => Inv'
    OBVIOUS
  <1>1. ASSUME mode = "walk"
        PROVE  stack # <<>> /\ top \in Frames /\ top.cur \in Seq(D) /\ top.out \in Seq(D)
    BY <1>1, TopType DEF Inv, ModeOK, Frames
  <1>2. ASSUME NEW vals \in Seq(D), mode = "walk", top.at <= Len(top.nodes), NextNode(vals)
        PROVE  Inv'
    BY <1>2, NextNodeStep DEF NextNode, Continue
  <1>3. CASE EndList
    BY <1>1, <1>3, StepReturn DEF EndList
  <1>4. CASE EndLoop
    BY <1>1, <1>2, <1>4 DEF EndLoop, At
  <1>5. ASSUME NEW type \in {"text", "number"}, At(type)
        PROVE  node.lit \in D
    <2>1. IsNode(node) /\ node.type = type /\ doc \in Documents
      BY <1>1, <1>5, NodeType DEF At, Inv, Given
    <2> QED
      BY <2>1 DEF IsNode, D
  <1>6. CASE Text
    <2>1. node.lit \in D
      BY <1>5, <1>6 DEF Text
    <2>2. <<node.lit>> \in Seq(D)
      BY <2>1
    <2> QED
      BY <1>2, <1>6, <2>2 DEF Text, At
  <1>7. CASE Constant
    <2>1. node.lit \in D /\ top.cur \in Seq(D)
      BY <1>1, <1>5, <1>7 DEF Constant, At
    <2>2. [s \in DOMAIN top.cur |-> node.lit] \in Seq(D)
      <3>1. DOMAIN top.cur = 1..Len(top.cur) /\ Len(top.cur) \in Nat
        BY <2>1, LenProperties
      <3>2. [s \in 1..Len(top.cur) |-> node.lit] \in [1..Len(top.cur) -> D]
        BY <2>1
      <3> QED
        BY <3>1, <3>2, SeqDef
    <2> QED
      BY <1>2, <1>7, <2>2 DEF Constant, At
  <1>8. CASE Identifier
    BY <1>1, <1>8, StepReturn DEF Identifier, At
  <1>9. CASE EndField
    <2>1. CASE top.cur # <<>> /\ top.out = <<>> /\ ~allow
      <3>1. <<>> \in Seq(D)
        BY EmptySeq
      <3> QED
        BY <1>1, <1>9, <2>1, <3>1, StepReturn DEF EndField, At
    <2>2. CASE ~(top.cur # <<>> /\ top.out = <<>> /\ ~allow)
      BY <1>1, <1>2, <1>9, <2>2 DEF EndField, At
    <2> QED
      BY <2>1, <2>2
  <1>10. CASE FailArray
    BY <1>1, <1>10, StepReturn DEF FailArray, Visit, At
  <1>11. CASE ZeroSelection
    BY <1>1, <1>11, NextNodeStep DEF ZeroSelection, Visit, At
  <1>12. CASE EndUnion
    BY <1>1, <1>2, <1>12 DEF EndUnion, At
  <1> QED
    BY <1>3, <1>4, <1>6, <1>7, <1>8, <1>9, <1>10, <1>11, <1>12

LEMMA RecursiveStep == Inv /\ VisitRecursive => Inv'
  <1> SUFFICES ASSUME Inv, VisitRecursive PROVE Inv'
    OBVIOUS
  <1>1. mode = "walk" /\ stack # <<>> /\ top.todo # <<>> /\ Given
    BY DEF VisitRecursive, Visit, At, Inv, ModeOK
  <1>2. top \in Frames /\ top.at <= Len(top.nodes) + 1 /\ this \in D
    <2>1. <<>> \in Seq(D)
      BY EmptySeq
    <2> QED
      BY <1>1, <2>1, TopType, VisitedType
  <1>3. PICK v \in Visits(this) :
            Continue([top EXCEPT !.todo = v \o Tail(@),
                                 !.out = IF v = <<>> THEN @ ELSE Append(@, this)])
    BY DEF VisitRecursive
  <1> DEFINE f == [top EXCEPT !.todo = v \o Tail(@),
                              !.out = IF v = <<>> THEN @ ELSE Append(@, this)]
  <1>4. v \in Seq(D) /\ top.todo \in Seq(D) /\ top.out \in Seq(D)
    BY <1>1, <1>2, VisitsType DEF Frames
  <1>5. v \o Tail(top.todo) \in Seq(D) /\ Append(top.out, this) \in Seq(D)
    BY <1>1, <1>2, <1>4, HeadTailProperties, ConcatProperties, AppendProperties
  <1>6. f \in Frames /\ f.nodes = top.nodes /\ f.at = top.at /\ f.cur = top.cur /\ f.left = <<>>
    BY <1>1, <1>2, <1>4, <1>5, TopLeft DEF Frames
  <1>7. stack' = [stack EXCEPT ![Len(stack)] = f] /\ mode' = "walk" /\ ret' = ret /\ Stay
    BY <1>3 DEF Continue
  <1> HIDE DEF f
  <1> QED
    BY <1>1, <1>2, <1>6, <1>7, StepContinue

LEMMA VisitSteps ==
  Inv /\ (VisitField \/ SkipNull \/ VisitArray \/ VisitWildcard) => Inv'
  <1> SUFFICES ASSUME Inv, NEW type, Visit(type)
               PROVE  VisitField \/ SkipNull \/ VisitArray \/ VisitWildcard => Inv'
    BY DEF VisitField, SkipNull, VisitArray, VisitWildcard
  <1>1. mode = "walk" /\ stack # <<>> /\ top.todo # <<>> /\ Given
        /\ top.at <= Len(top.nodes) /\ <<>> \in Seq(D)
    BY EmptySeq DEF Visit, At, Inv, ModeOK
  <1>2. this \in D
    BY <1>1, VisitedType
  <1>3. ASSUME NEW vals \in Seq(D), Continue(Visited(vals)) PROVE Inv'
    BY <1>1, <1>3, VisitStep
  <1>4. CASE VisitField
    BY <1>1, <1>2, <1>3, <1>4, FieldType DEF VisitField
  <1>5. CASE SkipNull
    BY <1>1, <1>3, <1>5 DEF SkipNull
  <1>6. CASE VisitArray
    <2>1. node.params \in Params
      BY <1>1, <1>6, NodeType DEF VisitArray, Visit, At, IsNode
    <2>2. Elements(this) \in Seq(D)
      BY <1>1, <1>2, ElementsType
    <2>3. ~ZeroElements(node.params, Len(Elements(this)))
          /\ Bounded(node.params, Len(Elements(this))) /\ ~BadStep(node.params)
      BY <1>6 DEF VisitArray, Bad
    <2>4. Slice(node.params, Elements(this)) \in Seq(D)
      BY <2>1, <2>2, <2>3, SliceType
    <2> QED
      BY <1>3, <1>6, <2>4 DEF VisitArray
  <1>7. CASE VisitWildcard
    BY <1>1, <1>2, <1>3, <1>7, VisitsType DEF VisitWildcard
  <1> QED
    BY <1>4, <1>5, <1>6, <1>7

LEMMA FilterSteps ==
  Inv /\ (VisitFilter \/ CallLeft \/ Exists \/ NoOperand \/ BadOperand
           \/ CallRight \/ TestElement) => Inv'
  <1> SUFFICES ASSUME Inv
               PROVE  (VisitFilter \/ CallLeft \/ Exists \/ NoOperand \/ BadOperand
                        \/ CallRight \/ TestElement) => Inv'
    OBVIOUS
  <1>1. ASSUME stack # <<>> PROVE top \in Frames /\ top.cur \in Seq(D) /\ top.out \in Seq(D)
                                  /\ top.elems \in Seq(D) /\ top.left \in Seq(D)
    BY <1>1, TopType DEF Frames
  <1>2. mode = "walk" => stack # <<>>
    BY DEF Inv, ModeOK
  <1>3. CASE VisitFilter
    <2>1. mode = "walk" /\ stack # <<>> /\ top.todo # <<>> /\ top.at <= Len(top.nodes) + 1
          /\ Given /\ <<>> \in Seq(D)
      BY <1>2, <1>3, TopType, EmptySeq DEF VisitFilter, Visit, At, Inv
    <2>2. this \in D /\ Visited(<<>>) \in Frames /\ Visited(<<>>).nodes = top.nodes
          /\ Visited(<<>>).at = top.at /\ Visited(<<>>).cur = top.cur /\ Visited(<<>>).left = <<>>
      BY <2>1, VisitedType, TopLeft
    <2>3. CASE doc[this].kind # "list"
      BY <1>1, <1>3, <2>1, <2>3, StepReturn DEF VisitFilter
    <2>4. CASE doc[this].kind = "list"
      <3> DEFINE g == Visited(<<>>)
                 f == [g EXCEPT !.elems = Elements(this)]
      <3>1. Elements(this) \in Seq(D)
        BY <2>1, <2>2, ElementsType
      <3>2. stack' = [stack EXCEPT ![Len(stack)] = f] /\ mode' = "walk" /\ ret' = ret /\ Stay
        BY <1>3, <2>4 DEF VisitFilter, Continue
      <3> HIDE DEF g
      <3>3. g \in Frames /\ g.nodes = top.nodes /\ g.at = top.at /\ g.cur = top.cur /\ g.left = <<>>
        BY <2>2 DEF g
      <3>4. f \in Frames /\ f.nodes = top.nodes /\ f.at = top.at /\ f.cur = top.cur /\ f.left = <<>>
        BY <3>1, <3>3 DEF Frames
      <3> HIDE DEF f
      <3> QED
        BY <2>1, <3>2, <3>4, StepContinue
    <2> QED
      BY <2>3, <2>4
  <1>4. ASSUME stack # <<>>, top.at <= Len(top.nodes), node.type = "filter"
        PROVE  node.left \in Lists /\ node.right \in Lists
    BY <1>4, NodeType DEF IsNode
  <1>5. CASE CallLeft
    <2>1. mode = "walk" /\ stack # <<>> /\ top.at <= Len(top.nodes) /\ node.type = "filter"
          /\ top.elems # <<>>
      BY <1>2, <1>5 DEF CallLeft, At
    <2>6. top.left = <<>>
      BY <2>1, TopLeft
    <2>2. <<Head(top.elems)>> \in Seq(D) /\ node.left \in Lists /\ top \in Frames
      BY <1>1, <1>4, <2>1, HeadTailProperties
    <2>3. Pending(top) /\ Calls(top, node.left, <<Head(top.elems)>>)
      BY <2>1, <2>6 DEF Pending, Calls, node
    <2>4. stack = [stack EXCEPT ![Len(stack)] = top]
      BY DEF Inv, StackOK, top
    <2>5. stack' = Append([stack EXCEPT ![Len(stack)] = top],
                          Frame(node.left, <<Head(top.elems)>>))
          /\ mode' = "walk" /\ ret' = ret /\ Stay
      BY <1>5, <2>4 DEF CallLeft, Call
    <2> QED
      BY <2>1, <2>2, <2>3, <2>5, <2>6, StepCall
  <1>6. CASE Exists
    <2>1. (ret.vals # <<>>) \in BOOLEAN
      OBVIOUS
    <2> QED
      BY <1>6, <2>1, TestedStep DEF Exists
  <1>7. CASE NoOperand
    BY <1>7, TestedStep DEF NoOperand, Compares
  <1>8. CASE BadOperand
    BY <1>1, <1>8, StepReturn DEF BadOperand, Compares, Returned
  <1>9. CASE CallRight
    <2>1. mode = "return" /\ stack # <<>> /\ node.type = "filter" /\ top.left = <<>>
          /\ Len(ret.vals) = 1
      BY <1>9 DEF CallRight, One, Compares, Returned
    <2>2. top.at <= Len(top.nodes) /\ Pending(top) /\ ret.vals \in Seq(D)
      BY <2>1, CallerType
    <2>3. top.elems # <<>> /\ top \in Frames
      BY <1>1, <2>1, <2>2 DEF Pending, node
    <2> DEFINE g == [top EXCEPT !.left = ret.vals]
    <2>4. /\ g \in Frames /\ g.nodes = top.nodes /\ g.at = top.at /\ g.cur = top.cur
          /\ g.elems = top.elems /\ g.m = top.m /\ g.left = ret.vals
      BY <2>2, <2>3 DEF Frames
    <2>5. ret.vals # <<>>
      BY <2>1, EmptySeq
    <2>6. [stack EXCEPT ![Len(stack)].left = ret.vals] = [stack EXCEPT ![Len(stack)] = g]
      BY DEF top
    <2>7. <<Head(top.elems)>> \in Seq(D) /\ node.right \in Lists
      BY <1>1, <1>4, <2>1, <2>2, <2>3, HeadTailProperties
    <2>8. stack' = Append([stack EXCEPT ![Len(stack)] = g],
                          Frame(node.right, <<Head(top.elems)>>))
          /\ mode' = "walk" /\ ret' = ret /\ Stay
      BY <1>9, <2>6 DEF CallRight
    <2> HIDE DEF g
    <2>9. Pending(g) /\ Calls(g, node.right, <<Head(top.elems)>>)
      BY <2>1, <2>2, <2>3, <2>4, <2>5 DEF Pending, Calls, node
    <2> QED
      BY <2>1, <2>4, <2>7, <2>8, <2>9, StepCall
  <1>10. CASE TestElement
    <2> DEFINE v == Verdict(node.op, top.left[1], ret.vals[1])
    <2>1. Returned("filter") /\ IF v.err THEN Return(TRUE, top.out) ELSE Tested(v.pass)
      BY <1>10 DEF TestElement, One, Compares
    <2> HIDE DEF v
    <2>2. stack # <<>> /\ mode = "return"
      BY <2>1 DEF Returned
    <2>3. CASE v.err
      BY <1>1, <2>1, <2>2, <2>3, StepReturn
    <2>4. CASE ~v.err
      BY <2>1, <2>4, TestedStep
    <2> QED
      BY <2>3, <2>4
  <1> QED
    BY <1>3, <1>5, <1>6, <1>7, <1>8, <1>9, <1>10

LEMMA UnionSteps == Inv /\ (CallMember \/ EndMember) => Inv'
  <1> SUFFICES ASSUME Inv PROVE CallMember \/ EndMember => Inv'
    OBVIOUS
  <1>1. CASE CallMember
    <2>1. mode = "walk" /\ stack # <<>> /\ top.at <= Len(top.nodes) /\ node.type = "union"
          /\ top.m <= Len(node.members)
      BY <1>1 DEF CallMember, At, Inv, ModeOK
    <2>2. top \in Frames /\ top.cur \in Seq(D) /\ top.m \in Nat \ {0}
      BY <2>1, TopType DEF Frames
    <2>3. node.members \in Seq(Lists)
      BY <2>1, NodeType DEF IsNode
    <2>4. top.m \in 1..Len(node.members)
      BY <2>1, <2>2, <2>3, LenProperties
    <2>5. node.members[top.m] \in Lists
      BY <2>3, <2>4, ElementOfSeq
    <2>6. Pending(top) /\ Calls(top, node.members[top.m], top.cur)
      BY <2>1, <2>4 DEF Pending, Calls, node
    <2>7. stack = [stack EXCEPT ![Len(stack)] = top]
      BY DEF Inv, StackOK, top
    <2>8. stack' = Append([stack EXCEPT ![Len(stack)] = top],
                          Frame(node.members[top.m], top.cur))
          /\ mode' = "walk" /\ ret' = ret /\ Stay
      BY <1>1, <2>7 DEF CallMember, Call
    <2>9. top.left = <<>>
      BY <2>1, TopLeft
    <2> QED
      BY <2>1, <2>2, <2>5, <2>6, <2>8, <2>9, StepCall
  <1>2. CASE EndMember
    <2>1. mode = "return" /\ stack # <<>> /\ node.type = "union"
      BY <1>2 DEF EndMember, Returned
    <2>2. top \in Frames /\ top.cur \in Seq(D) /\ top.out \in Seq(D) /\ top.m \in Nat \ {0}
          /\ top.at <= Len(top.nodes) + 1
      BY <2>1, TopType DEF Frames
    <2>3. CASE ret.err
      BY <1>2, <2>1, <2>2, <2>3, StepReturn DEF EndMember
    <2>4. CASE ~ret.err
      <3> DEFINE f == [top EXCEPT !.m = @ + 1, !.out = @ \o ret.vals]
      <3>1. top.out \o ret.vals \in Seq(D)
        BY <2>1, <2>2, CallerType, ConcatProperties
      <3>2. top.left = <<>>
        BY <2>1, TopLeft
      <3>3. f \in Frames /\ f.nodes = top.nodes /\ f.at = top.at /\ f.cur = top.cur
            /\ f.left = <<>>
        <4>1. top.m + 1 \in Nat \ {0}
          BY <2>2
        <4>2. \A k \in Nat \ {0}, o \in Seq(D) :
                LET g == [top EXCEPT !.m = k, !.out = o]
                IN  /\ g \in Frames /\ g.nodes = top.nodes /\ g.at = top.at
                    /\ g.cur = top.cur /\ g.left = top.left
          BY <2>2 DEF Frames
        <4>3. f = [top EXCEPT !.m = top.m + 1, !.out = top.out \o ret.vals]
          BY <2>2 DEF Frames
        <4> QED
          BY <3>1, <3>2, <4>1, <4>2, <4>3
      <3>4. stack' = [stack EXCEPT ![Len(stack)] = f] /\ mode' = "walk" /\ ret' = ret /\ Stay
        BY <1>2, <2>4 DEF EndMember, Continue
      <3> HIDE DEF f
      <3> QED
        BY <2>1, <2>2, <3>3, <3>4, StepContinue
    <2> QED
      BY <2>3, <2>4
  <1> QED
    BY <1>1, <1>2

LEMMA Invariance == Spec => []Inv
  <1>1. ASSUME Inv, UNCHANGED vars PROVE Inv'
    <2>1. doc' = doc /\ template' = template /\ allow' = allow /\ stack' = stack
          /\ mode' = mode /\ ret' = ret /\ full' = full
      BY <1>1 DEF vars
    <2>2. D' = D /\ Frames' = Frames
      BY <2>1 DEF D, Frames
    <2>3. Given' /\ StackOK' /\ ModeOK'
      BY <1>1, <2>1, <2>2 DEF Inv, Given, StackOK, ModeOK
    <2>4. Waiting' /\ CallsMatch' /\ LeftOK'
      BY <1>1, <2>1 DEF Inv, Waiting, CallsMatch, LeftOK, Calls, Pending
    <2> QED
      BY <2>3, <2>4 DEF Inv
  <1>2. Inv /\ [Next]_vars => Inv'
    BY <1>1, RootSteps, ListSteps, VisitSteps, RecursiveStep, FilterSteps, UnionSteps DEF Next
  <1> QED
    BY <1>2, InitInv, PTL DEF Spec
--------------------------------------------------------------------------------
(* Every value the evaluator holds, in any call, stands in the document: no    *)
(* selection of a field, an element, a slice or an operand leaves it.          *)
THEOREM TypeCorrect == Spec => []TypeOK
  <1>1. Inv => TypeOK
    <2> SUFFICES ASSUME Inv PROVE TypeOK
      OBVIOUS
    <2>1. \A f \in Frames : f.at <= Len(f.nodes) + 1 => FrameOK(f)
      BY EvalAssumption, LenProperties DEF FrameOK, Frames, InDocument, D
    <2>2. \A s \in 1..Len(stack) : FrameOK(stack[s])
      BY <2>1, ElementOfSeq DEF Inv, StackOK
    <2>3. InDocument(ret.vals) /\ ret.err \in BOOLEAN
      BY DEF Inv, ModeOK, InDocument, D
    <2>4. \A s \in 1..Len(full) : InDocument(full[s])
      BY ElementOfSeq DEF Inv, ModeOK, InDocument, D
    <2> QED
      BY <2>2, <2>3, <2>4 DEF Inv, Given, ModeOK, TypeOK
  <1> QED
    BY <1>1, Invariance, PTL

(* Every nested call of evalList is the one its caller waits for: an operand   *)
(* of a filter on the element being tested, or a member of a union on the      *)
(* union's own input.                                                          *)
THEOREM CallsAreMatched == Spec => []CallsMatch
  <1>1. Inv => CallsMatch
    BY DEF Inv
  <1> QED
    BY <1>1, Invariance, PTL
--------------------------------------------------------------------------------
Lenient == allow /\ \A s \in DOMAIN template : Tolerant(template[s])

(* Tolerant nodes make no calls, so the one frame is the template's.           *)
Easy == Lenient => /\ Len(stack) <= 1
                   /\ stack # <<>> => mode = "walk" /\ Tolerant(top.nodes)
                   /\ mode = "return" => ~ret.err
                   /\ mode # "error"

LEMMA EasyContinue ==
  ASSUME Inv, Easy, Lenient, stack # <<>>, NEW f, f.nodes = top.nodes, Continue(f)
  PROVE  Easy'
  <1>1. Len(stack') = Len(stack) /\ stack'[Len(stack')].nodes = top.nodes
    <2>1. stack \in Seq(Frames) /\ stack' = [stack EXCEPT ![Len(stack)] = f]
      BY DEF Inv, StackOK, Continue
    <2>2. Len(stack) \in 1..Len(stack)
      BY TopType
    <2> QED
      BY <2>1, <2>2
  <1>2. mode' = "walk"
    BY DEF Continue
  <1>3. Len(stack) <= 1 /\ Tolerant(top.nodes)
    BY DEF Easy
  <1> HIDE DEF Lenient
  <1> QED
    BY <1>1, <1>2, <1>3 DEF Easy, top, Tolerant

LEMMA EasyStep == Inv /\ Easy /\ [Next]_vars => Easy'
  <1> SUFFICES ASSUME Inv, Easy, [Next]_vars, Lenient' PROVE Easy'
    BY DEF Easy
  <1>1. allow' = allow /\ template' = template
    BY DEF Next, vars, WalkNext, Collect, Finish, EndList, EndLoop, Text, Constant,
           Identifier, VisitField, EndField, SkipNull, FailArray, ZeroSelection,
           VisitArray, VisitWildcard, VisitRecursive, VisitFilter, CallLeft, Exists,
           NoOperand, BadOperand, CallRight, TestElement, CallMember, EndMember,
           EndUnion, Tested, NextNode, Continue, Call, Return, Stay
  <1>2. Lenient
    BY <1>1 DEF Lenient
  <1>3. /\ Len(stack) <= 1
        /\ stack # <<>> => mode = "walk" /\ Tolerant(top.nodes)
        /\ mode = "return" => ~ret.err
        /\ mode # "error"
    BY <1>2 DEF Easy
  <1>4. stack # <<>> /\ top.at <= Len(top.nodes)
          => node.type \in {"field", "wildcard", "recursive"}
    <2> SUFFICES ASSUME stack # <<>>, top.at <= Len(top.nodes)
                 PROVE  node.type \in {"field", "wildcard", "recursive"}
      OBVIOUS
    <2>1. top.at \in Nat \ {0} /\ top.nodes \in Seq(Nodes) /\ Len(top.nodes) \in Nat
      BY TopType, EvalAssumption DEF Frames
    <2>2. top.at \in DOMAIN top.nodes
      BY <2>1
    <2> QED
      BY <1>3, <2>2 DEF Tolerant, node
  <1>5. mode = "walk" => stack # <<>>
    BY DEF Inv, ModeOK
  <1>6. CASE WalkNext
    <2>1. mode = "next" /\ stack = <<>>
      BY <1>6 DEF WalkNext, Inv, ModeOK
    <2>2. Len(full) + 1 \in DOMAIN template
      <3>1. Len(full) \in Nat /\ Len(full) < Len(template)
        BY <1>6 DEF WalkNext, Inv, ModeOK
      <3>2. template \in Seq(Lists)
        BY EvalAssumption DEF Inv, Given
      <3> QED
        BY <3>1, <3>2
    <2>3. Tolerant(template[Len(full) + 1])
      BY <1>2, <2>2 DEF Lenient
    <2>4. /\ stack' = Append(<<>>, Frame(template[Len(full) + 1], <<Root>>))
          /\ mode' = "walk"
      BY <1>6, <2>1 DEF WalkNext, Call
    <2> DEFINE first == Frame(template[Len(full) + 1], <<Root>>)
    <2>5. Tolerant(first.nodes)
      BY <2>3 DEF Frame
    <2> HIDE DEF first
    <2>6. Len(stack') = 1 /\ stack'[1] = first
      BY <2>4 DEF first
    <2> QED
      BY <2>4, <2>5, <2>6 DEF Easy, top, Tolerant
  <1>7. CASE Collect
    BY <1>3, <1>7 DEF Collect, Easy
  <1>8. CASE Finish
    <2>1. stack = <<>>
      BY <1>8 DEF Finish, Inv, ModeOK
    <2> QED
      BY <1>3, <1>8, <2>1 DEF Finish, Easy
  <1>9. CASE EndList
    <2>1. stack # <<>> /\ stack \in Seq(Frames) /\ Len(stack) = 1
      <3>1. stack # <<>>
        BY <1>5, <1>9 DEF EndList
      <3>2. stack \in Seq(Frames)
        BY DEF Inv, StackOK
      <3>3. Len(stack) \in Nat /\ Len(stack) > 0
        BY <3>1, TopType
      <3>4. Len(stack) <= 1
        BY <1>3
      <3>5. Len(stack) = 1
        BY <3>3, <3>4
      <3> QED
        BY <3>1, <3>2, <3>5
    <2>2. stack' = SubSeq(stack, 1, 0) /\ mode' = "return" /\ ~ret'.err
      BY <1>9, <2>1 DEF EndList, Return
    <2>3. stack' = <<>> /\ Len(stack') = 0
      BY <2>1, <2>2
    <2> QED
      BY <2>2, <2>3 DEF Easy
  <1>10. CASE EndLoop
    <2>1. stack # <<>> /\ NextNode(top.out)
      BY <1>5, <1>10 DEF EndLoop, At
    <2> DEFINE f == [Frame(top.nodes, top.out) EXCEPT !.at = top.at + 1]
    <2>2. f.nodes = top.nodes /\ Continue(f)
      BY <2>1 DEF NextNode, Frame
    <2> QED
      BY <1>2, <2>1, <2>2, EasyContinue
  <1>11. CASE VisitField
    <2>1. stack # <<>> /\ Continue(Visited(Field(this, node.name)))
      BY <1>5, <1>11 DEF VisitField, Visit, At
    <2>2. Visited(Field(this, node.name)).nodes = top.nodes
      BY <2>1, TopType DEF Visited, Frames
    <2> QED
      BY <1>2, <2>1, <2>2, EasyContinue
  <1>12. CASE EndField
    <2>1. stack # <<>> /\ NextNode(top.out)
      BY <1>2, <1>5, <1>12 DEF EndField, At, Lenient
    <2> DEFINE f == [Frame(top.nodes, top.out) EXCEPT !.at = top.at + 1]
    <2>2. f.nodes = top.nodes /\ Continue(f)
      BY <2>1 DEF NextNode, Frame
    <2> QED
      BY <1>2, <2>1, <2>2, EasyContinue
  <1>13. CASE VisitWildcard
    <2>1. stack # <<>> /\ \E v \in Visits(this) : Continue(Visited(v))
      BY <1>5, <1>13 DEF VisitWildcard, Visit, At
    <2>2. PICK v \in Visits(this) : Continue(Visited(v))
      BY <2>1
    <2>3. Visited(v).nodes = top.nodes
      BY <2>1, TopType DEF Visited, Frames
    <2> QED
      BY <1>2, <2>1, <2>2, <2>3, EasyContinue
  <1>14. CASE VisitRecursive
    <2>1. stack # <<>>
      BY <1>5, <1>14 DEF VisitRecursive, Visit, At
    <2>2. PICK v \in Visits(this) :
            Continue([top EXCEPT !.todo = v \o Tail(@),
                                 !.out = IF v = <<>> THEN @ ELSE Append(@, this)])
      BY <1>14 DEF VisitRecursive
    <2> DEFINE f == [top EXCEPT !.todo = v \o Tail(@),
                                !.out = IF v = <<>> THEN @ ELSE Append(@, this)]
    <2>3. f.nodes = top.nodes
      BY <2>1, TopType DEF Frames
    <2> QED
      BY <1>2, <2>1, <2>2, <2>3, EasyContinue
  <1>15. ~(Text \/ Constant \/ Identifier \/ SkipNull \/ FailArray \/ ZeroSelection)
    BY <1>4, <1>5 DEF Text, Constant, Identifier, SkipNull, FailArray, ZeroSelection,
                      Visit, At
  <1>16. ~(VisitArray \/ VisitFilter \/ CallLeft \/ CallMember \/ EndUnion)
    BY <1>4, <1>5 DEF VisitArray, VisitFilter, CallLeft, CallMember, EndUnion, Visit, At
  <1>17. ~(Exists \/ NoOperand \/ BadOperand \/ CallRight \/ TestElement \/ EndMember)
    BY <1>3 DEF Exists, NoOperand, BadOperand, CallRight, TestElement, EndMember, One,
                Compares, Returned
  <1>18. CASE UNCHANGED vars
    BY <1>2, <1>18 DEF vars, Easy, Lenient, Tolerant, top
  <1> QED
    BY <1>6, <1>7, <1>8, <1>9, <1>10, <1>11, <1>12, <1>13, <1>14, <1>15, <1>16, <1>17,
       <1>18 DEF Next

(* With AllowMissingKeys a template of fields, wildcards and descents never    *)
(* fails, whatever the object: such a rule cannot stop a run.                  *)
THEOREM PathsNeverFail == Spec => []NeverFails
  <1>1. Init => Easy
    BY EmptySeq DEF Init, Easy
  <1>2. Easy => NeverFails
    BY DEF Easy, Lenient, NeverFails
  <1> QED
    BY <1>1, <1>2, EasyStep, Invariance, PTL DEF Spec
--------------------------------------------------------------------------------
(* Induction over the natural numbers and over sequences, for sets.            *)
Smaller == {ss \in Nat \X Nat : ss[1] < ss[2]}

LEMMA Induct ==
  ASSUME NEW P, 0 \in P, \A x \in Nat : x \in P => x + 1 \in P
  PROVE  Nat \subseteq P
  <1> DEFINE I == Nat \ P
  <1> SUFFICES ASSUME I # {} PROVE FALSE
    OBVIOUS
  <1>1. IsWellFoundedOn(Smaller, Nat)
    BY NatLessThanWellFounded DEF OpToRel, Smaller
  <1>2. PICK x \in I : \A y \in I : ~ (<<y, x>> \in Smaller)
    <2> HIDE DEF I
    <2>1. I \subseteq Nat
      BY DEF I
    <2> QED
      BY <1>1, <2>1, WFMin
  <1>3. x \in Nat /\ x # 0 /\ x - 1 \in Nat
    OBVIOUS
  <1>4. x - 1 \in P
    <2>1. <<x - 1, x>> \in Nat \X Nat /\ x - 1 < x
      BY <1>3
    <2> QED
      BY <1>2, <1>3, <2>1 DEF Smaller
  <1>5. (x - 1) + 1 = x
    BY <1>3
  <1> QED
    BY <1>3, <1>4, <1>5

LEMMA SeqInduct ==
  ASSUME NEW S, NEW P, <<>> \in P,
         \A s \in Seq(S), x \in S : s \in P => Append(s, x) \in P
  PROVE  Seq(S) \subseteq P
  <1> DEFINE I == {z \in Nat : \A s \in Seq(S) : Len(s) = z => s \in P}
  <1>1. 0 \in I
    <2>1. \A s \in Seq(S) : Len(s) = 0 => s = <<>>
      BY EmptySeq
    <2> QED
      BY <2>1
  <1>2. ASSUME NEW z \in Nat, z \in I PROVE z + 1 \in I
    <2> SUFFICES ASSUME NEW s \in Seq(S), Len(s) = z + 1 PROVE s \in P
      OBVIOUS
    <2>1. s[z + 1] \in S /\ SubSeq(s, 1, z) \in Seq(S) /\ Len(SubSeq(s, 1, z)) = z
      <3>1. \A a \in 1..z : s[a] \in S
        BY ElementOfSeq
      <3>2. s[z + 1] \in S
        BY ElementOfSeq
      <3>3. Len(SubSeq(s, 1, z)) = IF 1 <= z THEN z - 1 + 1 ELSE 0
        BY <3>1, SubSeqProperties
      <3>4. SubSeq(s, 1, z) \in Seq(S)
        BY <3>1, SubSeqProperties
      <3> QED
        BY <3>2, <3>3, <3>4
    <2>2. s = Append(SubSeq(s, 1, z), s[z + 1])
      <3>1. s \in Seq(S) /\ Len(s) # 0
        OBVIOUS
      <3>2. SubSeq(s, 1, z + 1) = SubSeq(s, 1, (z + 1) - 1) \o <<s[z + 1]>>
        BY SubSeqRecursiveSecond
      <3>3. SubSeq(s, 1, z + 1) = s /\ (z + 1) - 1 = z
        BY SubSeqFull
      <3>4. SubSeq(s, 1, z) \o <<s[z + 1]>> = Append(SubSeq(s, 1, z), s[z + 1])
        BY <2>1
      <3> QED
        BY <3>2, <3>3, <3>4
    <2> QED
      BY <1>2, <2>1, <2>2
  <1> HIDE DEF I
  <1>3. Nat \subseteq I
    BY <1>1, <1>2, Induct
  <1>4. \A s \in Seq(S) : Len(s) \in I /\ Len(s) \in Nat
    BY <1>3, LenProperties
  <1> QED
    BY <1>4 DEF I

(* FlattenSeq, piece by piece.                                                 *)
Upto(ss, z, f) == f = [i \in 1..z |-> IF i = 1 THEN ss[i] ELSE f[i - 1] \o ss[i]]

LEMMA UptoExists ==
  ASSUME NEW ss, NEW z \in Nat
  PROVE  \E f : Upto(ss, z, f)
  <1> DEFINE P == {m \in Nat : \E f : Upto(ss, m, f)}
  <1>1. 0 \in P
    <2>1. Upto(ss, 0, [i \in 1..0 |-> ss[i]])
      BY DEF Upto
    <2> QED
      BY <2>1
  <1>2. ASSUME NEW m \in Nat, m \in P PROVE m + 1 \in P
    <2>1. PICK f : Upto(ss, m, f)
      BY <1>2
    <2> DEFINE g == [i \in 1..(m + 1) |->
                        IF i = m + 1 THEN IF m = 0 THEN ss[i] ELSE f[m] \o ss[i] ELSE f[i]]
    <2>2. Upto(ss, m + 1, g)
      <3>1. \A i \in 1..m : f[i] = IF i = 1 THEN ss[i] ELSE f[i - 1] \o ss[i]
        BY <2>1 DEF Upto
      <3>2. \A i \in 1..m : g[i] = f[i]
        OBVIOUS
      <3>3. \A i \in 1..m : i # 1 => i - 1 \in 1..m
        OBVIOUS
      <3>4. \A i \in 1..m : g[i] = IF i = 1 THEN ss[i] ELSE g[i - 1] \o ss[i]
        <4> HIDE DEF g
        <4> QED
          BY <3>1, <3>2, <3>3
      <3>5. g[m + 1] = IF m + 1 = 1 THEN ss[m + 1] ELSE g[(m + 1) - 1] \o ss[m + 1]
        <4>1. m # 0 => m \in 1..m /\ (m + 1) - 1 = m /\ m + 1 # 1
          OBVIOUS
        <4>2. g[m + 1] = IF m = 0 THEN ss[m + 1] ELSE f[m] \o ss[m + 1]
          OBVIOUS
        <4> HIDE DEF g
        <4> QED
          BY <3>2, <4>1, <4>2
      <3>6. \A i \in 1..(m + 1) : i \in 1..m \/ i = m + 1
        OBVIOUS
      <3>7. g = [i \in 1..(m + 1) |-> g[i]]
        OBVIOUS
      <3> HIDE DEF g
      <3>8. \A i \in 1..(m + 1) : g[i] = IF i = 1 THEN ss[i] ELSE g[i - 1] \o ss[i]
        BY <3>4, <3>5, <3>6
      <3>9. [i \in 1..(m + 1) |-> g[i]]
              = [i \in 1..(m + 1) |-> IF i = 1 THEN ss[i] ELSE g[i - 1] \o ss[i]]
        BY <3>8
      <3> QED
        BY <3>7, <3>9 DEF Upto
    <2> QED
      BY <2>2
  <1> HIDE DEF P
  <1>3. Nat \subseteq P
    BY <1>1, <1>2, Induct
  <1> QED
    BY <1>3 DEF P

LEMMA FlattenUpto ==
  ASSUME NEW ss, Len(ss) \in Nat, Len(ss) # 0
  PROVE  \E f : Upto(ss, Len(ss), f) /\ FlattenSeq(ss) = f[Len(ss)]
  <1> DEFINE f == CHOOSE g : g = [i \in 1..Len(ss) |-> IF i = 1 THEN ss[i] ELSE g[i - 1] \o ss[i]]
  <1>1. FlattenSeq(ss) = f[Len(ss)]
    BY DEF FlattenSeq
  <1>2. Upto(ss, Len(ss), f)
    BY UptoExists DEF Upto
  <1> QED
    BY <1>1, <1>2

LEMMA FlattenEmpty == FlattenSeq(<<>>) = <<>>
  BY EmptySeq DEF FlattenSeq

LEMMA UptoSame ==
  ASSUME NEW ss, NEW tt, NEW z \in Nat, NEW m \in 1..z, NEW f, NEW g,
         \A i \in 1..m : ss[i] = tt[i], Upto(ss, m, f), Upto(tt, z, g)
  PROVE  f[m] = g[m]
  <1> DEFINE P == {i \in Nat : i \in 1..m => f[i] = g[i]}
  <1>0. /\ \A i \in 1..m : f[i] = IF i = 1 THEN ss[i] ELSE f[i - 1] \o ss[i]
        /\ \A i \in 1..z : g[i] = IF i = 1 THEN tt[i] ELSE g[i - 1] \o tt[i]
    BY DEF Upto
  <1>1. 0 \in P
    OBVIOUS
  <1>2. ASSUME NEW i \in Nat, i \in P PROVE i + 1 \in P
    <2> SUFFICES ASSUME i + 1 \in 1..m PROVE f[i + 1] = g[i + 1]
      OBVIOUS
    <2>1. i + 1 \in 1..z /\ (i + 1) - 1 = i /\ (i + 1 # 1 => i \in 1..m)
      OBVIOUS
    <2>2. i + 1 # 1 => f[i] = g[i]
      BY <1>2, <2>1
    <2>3. f[i + 1] = IF i + 1 = 1 THEN ss[i + 1] ELSE f[i] \o ss[i + 1]
      BY <1>0, <2>1
    <2>4. g[i + 1] = IF i + 1 = 1 THEN tt[i + 1] ELSE g[i] \o tt[i + 1]
      BY <1>0, <2>1
    <2> QED
      BY <2>2, <2>3, <2>4
  <1> HIDE DEF P
  <1>3. Nat \subseteq P
    BY <1>1, <1>2, Induct
  <1>4. m \in P /\ m \in 1..m
    BY <1>3
  <1> QED
    BY <1>4 DEF P

LEMMA FlattenAppend ==
  ASSUME NEW S, NEW ss \in Seq(Seq(S)), NEW x \in Seq(S)
  PROVE  FlattenSeq(Append(ss, x)) = FlattenSeq(ss) \o x
  <1> DEFINE tt == Append(ss, x)
             z == Len(ss)
  <1>1. z \in Nat /\ Len(tt) = z + 1 /\ tt[z + 1] = x /\ \A i \in 1..z : tt[i] = ss[i]
    BY AppendProperties, LenProperties
  <1> HIDE DEF tt
  <1>2. PICK g : Upto(tt, z + 1, g) /\ FlattenSeq(tt) = g[z + 1]
    BY <1>1, FlattenUpto
  <1>3. g[z + 1] = IF z + 1 = 1 THEN tt[z + 1] ELSE g[(z + 1) - 1] \o tt[z + 1]
    <2>1. z + 1 \in 1..(z + 1)
      BY <1>1
    <2> HIDE DEF z
    <2> QED
      BY <1>2, <2>1 DEF Upto
  <1>4. CASE z = 0
    <2>1. ss = <<>> /\ g[z + 1] = x
      BY <1>1, <1>3, <1>4, EmptySeq
    <2>2. <<>> \o x = x
      BY ConcatEmptySeq
    <2> QED
      BY <1>2, <2>1, <2>2, FlattenEmpty DEF tt
  <1>5. CASE z # 0
    <2>1. PICK f : Upto(ss, z, f) /\ FlattenSeq(ss) = f[z]
      BY <1>1, <1>5, FlattenUpto
    <2>2. f[z] = g[z]
      <3>1. z + 1 \in Nat /\ z \in 1..(z + 1) /\ \A i \in 1..z : ss[i] = tt[i]
        BY <1>1, <1>5
      <3> HIDE DEF z
      <3> QED
        BY <1>1, <1>2, <2>1, <3>1, UptoSame
    <2>3. g[z + 1] = g[z] \o x
      BY <1>1, <1>3, <1>5
    <2> QED
      BY <1>2, <2>1, <2>2, <2>3 DEF tt
  <1> QED
    BY <1>4, <1>5

LEMMA FlattenType ==
  ASSUME NEW S, NEW ss \in Seq(Seq(S))
  PROVE  FlattenSeq(ss) \in Seq(S)
  <1> DEFINE P == {s \in Seq(Seq(S)) : FlattenSeq(s) \in Seq(S)}
  <1>1. <<>> \in P
    BY FlattenEmpty, EmptySeq
  <1>2. ASSUME NEW s \in Seq(Seq(S)), NEW x \in Seq(S), s \in P PROVE Append(s, x) \in P
    BY <1>2, FlattenAppend, AppendProperties, ConcatProperties
  <1> HIDE DEF P
  <1>3. Seq(Seq(S)) \subseteq P
    BY <1>1, <1>2, SeqInduct
  <1> QED
    BY <1>3 DEF P

--------------------------------------------------------------------------------
(* What a function yields on each value of a sequence in turn.                 *)
Fun(F, S, T) == F \in [S -> T]

LEMMA EachSeq ==
  ASSUME NEW S, NEW T, NEW F, Fun(F, S, T), NEW s \in Seq(S)
  PROVE  [i \in 1..Len(s) |-> F[s[i]]] \in Seq(T)
  <1>1. Len(s) \in Nat /\ \A i \in 1..Len(s) : s[i] \in S
    BY LenProperties, ElementOfSeq
  <1>2. \A i \in 1..Len(s) : F[s[i]] \in T
    BY <1>1 DEF Fun
  <1> QED
    BY <1>1, <1>2

LEMMA EachType ==
  ASSUME NEW S, NEW T, NEW F, Fun(F, S, Seq(T)), NEW s \in Seq(S)
  PROVE  Each(F, s) \in Seq(T)
  <1> DEFINE U == Seq(T)
             f == [i \in 1..Len(s) |-> F[s[i]]]
  <1>1. f \in Seq(U)
    <2> HIDE DEF U
    <2>1. Fun(F, S, U)
      BY DEF U
    <2> QED
      BY <2>1, EachSeq
  <1>2. FlattenSeq(f) \in Seq(T)
    BY <1>1, FlattenType
  <1> HIDE DEF U
  <1> QED
    BY <1>2 DEF Each

LEMMA EachEmpty == \A F : Each(F, <<>>) = <<>>
  <1> SUFFICES ASSUME NEW F PROVE Each(F, <<>>) = <<>>
    OBVIOUS
  <1> DEFINE f == [i \in 1..Len(<<>>) |-> F[(<<>>)[i]]]
  <1>1. f = <<>>
    <2>1. Len(<<>>) = 0
      OBVIOUS
    <2>2. f \in [1..0 -> {}]
      BY <2>1
    <2> QED
      BY <2>2
  <1> HIDE DEF f
  <1>2. FlattenSeq(f) = <<>>
    BY <1>1, FlattenEmpty
  <1> QED
    BY <1>2 DEF Each, f

LEMMA EachAppend ==
  ASSUME NEW S, NEW T, NEW F, Fun(F, S, Seq(T)), NEW s \in Seq(S), NEW x \in S
  PROVE  Each(F, Append(s, x)) = Each(F, s) \o F[x]
  <1> DEFINE U == Seq(T)
             t == Append(s, x)
             f == [i \in 1..Len(s) |-> F[s[i]]]
             g == [i \in 1..Len(t) |-> F[t[i]]]
  <1>1. /\ t \in Seq(S) /\ Len(s) \in Nat /\ Len(t) = Len(s) + 1 /\ t[Len(s) + 1] = x
        /\ \A i \in 1..Len(s) : t[i] = s[i]
    BY AppendProperties, LenProperties
  <1> HIDE DEF t, U
  <1>2. f \in Seq(U) /\ g \in Seq(U) /\ F[x] \in U
    <2>1. Fun(F, S, U)
      BY DEF U
    <2> HIDE DEF f, g
    <2>2. F[x] \in U
      BY <2>1 DEF Fun
    <2> QED
      BY <1>1, <2>1, <2>2, EachSeq DEF f, g
  <1>3. /\ Len(f) = Len(s) /\ Len(g) = Len(t)
        /\ \A i \in 1..Len(s) : f[i] = F[s[i]]
        /\ \A i \in 1..Len(t) : g[i] = F[t[i]]
    <2>1. DOMAIN f = 1..Len(s) /\ DOMAIN g = 1..Len(t)
      OBVIOUS
    <2> HIDE DEF f, g
    <2>2. Len(f) = Len(s) /\ Len(g) = Len(t)
      BY <1>1, <1>2, <2>1, LenProperties
    <2> QED
      BY <2>2 DEF f, g
  <1> HIDE DEF f, g
  <1>4. g = Append(f, F[x])
    <2> DEFINE w == F[x]
    <2> HIDE DEF w
    <2>0. w \in U
      BY <1>2 DEF w
    <2>1. /\ Append(f, w) \in Seq(U) /\ Len(Append(f, w)) = Len(f) + 1
          /\ Append(f, w)[Len(f) + 1] = w
          /\ \A i \in 1..Len(f) : Append(f, w)[i] = f[i]
      BY <1>2, <2>0, AppendProperties
    <2>2. Len(g) = Len(f) + 1
      BY <1>1, <1>3
    <2>3. \A i \in 1..Len(g) : i \in 1..Len(f) \/ i = Len(f) + 1
      BY <1>1, <1>3
    <2>4. \A i \in 1..Len(f) : i \in 1..Len(s) /\ i \in 1..Len(t)
      BY <1>1, <1>3
    <2>5. g[Len(f) + 1] = w
      BY <1>1, <1>3 DEF w
    <2>6. \A i \in 1..Len(g) : g[i] = Append(f, w)[i]
      BY <1>1, <1>3, <2>1, <2>3, <2>4, <2>5
    <2>7. g = Append(f, w)
      BY <1>2, <2>1, <2>2, <2>6, SeqEqual
    <2> QED
      BY <2>7 DEF w
  <1>5. FlattenSeq(g) = FlattenSeq(f) \o F[x]
    BY <1>2, <1>4, FlattenAppend DEF U
  <1> QED
    BY <1>5 DEF Each, f, g, t

LEMMA EachOne ==
  ASSUME NEW S, NEW T, NEW F, Fun(F, S, Seq(T)), NEW x \in S
  PROVE  Each(F, <<x>>) = F[x] /\ F[x] \in Seq(T)
  <1>1. F[x] \in Seq(T)
    BY DEF Fun
  <1>2. <<x>> = Append(<<>>, x) /\ <<>> \in Seq(S)
    OBVIOUS
  <1>3. Each(F, Append(<<>>, x)) = Each(F, <<>>) \o F[x]
    BY <1>2, EachAppend
  <1>4. Each(F, <<>>) \o F[x] = F[x]
    BY <1>1, EachEmpty, ConcatEmptySeq
  <1> QED
    BY <1>1, <1>2, <1>3, <1>4

LEMMA EachConcat ==
  ASSUME NEW S, NEW T, NEW F, Fun(F, S, Seq(T)), NEW s \in Seq(S), NEW t \in Seq(S)
  PROVE  Each(F, s \o t) = Each(F, s) \o Each(F, t)
  <1> DEFINE P == {u \in Seq(S) : Each(F, s \o u) = Each(F, s) \o Each(F, u)}
  <1>0. Each(F, s) \in Seq(T)
    BY EachType
  <1>1. <<>> \in P
    <2>1. s \o <<>> = s /\ Each(F, s) \o <<>> = Each(F, s)
      BY <1>0, ConcatEmptySeq
    <2>2. Each(F, <<>>) = <<>> /\ <<>> \in Seq(S)
      BY EachEmpty
    <2> DEFINE e == <<>>
    <2> HIDE DEF e
    <2>3. s \o e = s /\ Each(F, s) \o e = Each(F, s) /\ Each(F, e) = e /\ e \in Seq(S)
      BY <2>1, <2>2 DEF e
    <2>4. e \in P
      BY <2>3
    <2> QED
      BY <2>4 DEF e
  <1>2. ASSUME NEW u \in Seq(S), NEW x \in S, u \in P PROVE Append(u, x) \in P
    <2>1. s \o Append(u, x) = Append(s \o u, x) /\ s \o u \in Seq(S) /\ Append(u, x) \in Seq(S)
      BY ConcatProperties
    <2>2. Each(F, Append(s \o u, x)) = Each(F, s \o u) \o F[x]
      <3> DEFINE w == s \o u
      <3>1. w \in Seq(S)
        BY <2>1
      <3> HIDE DEF w
      <3>2. Each(F, Append(w, x)) = Each(F, w) \o F[x]
        BY <3>1, EachAppend
      <3> QED
        BY <3>2 DEF w
    <2>3. Each(F, Append(u, x)) = Each(F, u) \o F[x]
      BY EachAppend
    <2>4. Each(F, u) \in Seq(T) /\ F[x] \in Seq(T)
      BY EachType, EachOne
    <2> DEFINE a == Each(F, s)
               b == Each(F, u)
               c == F[x]
    <2>5. (a \o b) \o c = a \o (b \o c)
      <3> HIDE DEF a, b, c
      <3>1. a \in Seq(T)
        BY <1>0 DEF a
      <3>2. b \in Seq(T)
        BY <2>4 DEF b
      <3>3. c \in Seq(T)
        BY <2>4 DEF c
      <3> QED
        BY <3>1, <3>2, <3>3, ConcatAssociative
    <2>6. Each(F, s \o u) = a \o b
      BY <1>2
    <2>7. Each(F, s \o Append(u, x)) = a \o Each(F, Append(u, x))
      <3> HIDE DEF a, b, c
      <3>1. Each(F, Append(s \o u, x)) = (a \o b) \o c
        BY <2>2, <2>6 DEF c
      <3>2. Each(F, Append(u, x)) = b \o c
        BY <2>3 DEF b, c
      <3> QED
        BY <2>1, <2>5, <3>1, <3>2
    <2> QED
      BY <2>1, <2>7
  <1> HIDE DEF P
  <1>3. Seq(S) \subseteq P
    BY <1>1, <1>2, SeqInduct
  <1> QED
    BY <1>3 DEF P

LEMMA HeadAndTail ==
  ASSUME NEW S, NEW s \in Seq(S), s # <<>>
  PROVE  Head(s) \in S /\ Tail(s) \in Seq(S) /\ s = <<Head(s)>> \o Tail(s)
         /\ <<Head(s)>> \in Seq(S)
  <1>1. Head(s) \in S /\ Tail(s) \in Seq(S)
    BY HeadTailProperties
  <1> DEFINE t == Tail(s)
             h == <<Head(s)>>
  <1>2. /\ Len(s) \in Nat \ {0} /\ Len(t) = Len(s) - 1 /\ Head(s) = s[1]
        /\ \A i \in 1..Len(t) : t[i] = s[i + 1]
    BY EmptySeq, HeadTailProperties
  <1>3. h \in Seq(S) /\ Len(h) = 1 /\ h[1] = s[1] /\ t \in Seq(S)
    BY <1>1, <1>2
  <1> HIDE DEF t, h
  <1>4. /\ h \o t \in Seq(S) /\ Len(h \o t) = Len(h) + Len(t)
        /\ \A i \in 1..(Len(h) + Len(t)) :
               (h \o t)[i] = IF i <= Len(h) THEN h[i] ELSE t[i - Len(h)]
    BY <1>3, ConcatProperties
  <1>5. Len(h \o t) = Len(s)
    BY <1>2, <1>3, <1>4
  <1>6. \A i \in 1..Len(s) : (h \o t)[i] = s[i]
    <2> SUFFICES ASSUME NEW i \in 1..Len(s) PROVE (h \o t)[i] = s[i]
      OBVIOUS
    <2>1. i \in 1..(Len(h) + Len(t))
      BY <1>4, <1>5
    <2>2. CASE i = 1
      BY <1>3, <1>4, <2>1, <2>2
    <2>3. CASE i # 1
      <3>1. i - 1 \in 1..Len(t) /\ (i - 1) + 1 = i /\ ~(i <= 1)
        BY <1>2, <2>3
      <3>2. (h \o t)[i] = t[i - 1]
        BY <1>3, <1>4, <2>1, <3>1
      <3>3. t[i - 1] = s[(i - 1) + 1]
        BY <1>2, <3>1
      <3> QED
        BY <3>1, <3>2, <3>3
    <2> QED
      BY <2>2, <2>3
  <1>7. s = h \o t
    BY <1>4, <1>5, <1>6, SeqEqual
  <1> QED
    BY <1>1, <1>3, <1>7 DEF h, t

LEMMA EachHead ==
  ASSUME NEW S, NEW T, NEW F, Fun(F, S, Seq(T)), NEW s \in Seq(S), s # <<>>
  PROVE  /\ Each(F, s) = F[Head(s)] \o Each(F, Tail(s))
         /\ F[Head(s)] \in Seq(T) /\ Each(F, Tail(s)) \in Seq(T)
  <1> DEFINE h == Head(s)
             t == Tail(s)
             e == <<h>>
  <1>1. h \in S /\ t \in Seq(S) /\ s = e \o t /\ e \in Seq(S)
    BY HeadAndTail
  <1> HIDE DEF h, t
  <1>2. Each(F, e) = F[h] /\ F[h] \in Seq(T)
    BY <1>1, EachOne
  <1> HIDE DEF e
  <1>3. Each(F, e \o t) = Each(F, e) \o Each(F, t)
    BY <1>1, EachConcat
  <1>4. Each(F, t) \in Seq(T)
    BY <1>1, EachType
  <1> QED
    BY <1>1, <1>2, <1>3, <1>4 DEF h, t

(* One function after another is one function.                                 *)
LEMMA EachEach ==
  ASSUME NEW S, NEW T, NEW U, NEW F, Fun(F, S, Seq(T)), NEW G, Fun(G, T, Seq(U)),
         NEW H, \A x \in S : H[x] = Each(G, F[x]), Fun(H, S, Seq(U)), NEW s \in Seq(S)
  PROVE  Each(G, Each(F, s)) = Each(H, s)
  <1> DEFINE P == {u \in Seq(S) : Each(G, Each(F, u)) = Each(H, u)}
  <1>1. <<>> \in P
    BY EachEmpty
  <1>2. ASSUME NEW u \in Seq(S), NEW x \in S, u \in P PROVE Append(u, x) \in P
    <2>1. Each(F, Append(u, x)) = Each(F, u) \o F[x]
      BY EachAppend
    <2>2. Each(H, Append(u, x)) = Each(H, u) \o H[x]
      BY EachAppend
    <2>3. Each(F, u) \in Seq(T) /\ F[x] \in Seq(T)
      BY EachType, EachOne
    <2> DEFINE a == Each(F, u)
               b == F[x]
    <2>4. Each(G, a \o b) = Each(G, a) \o Each(G, b)
      <3> HIDE DEF a, b
      <3>1. a \in Seq(T)
        BY <2>3 DEF a
      <3>2. b \in Seq(T)
        BY <2>3 DEF b
      <3> QED
        BY <3>1, <3>2, EachConcat
    <2>5. H[x] = Each(G, b) /\ Each(H, u) = Each(G, a)
      BY <1>2
    <2>6. Append(u, x) \in Seq(S)
      BY AppendProperties
    <2> QED
      BY <2>1, <2>2, <2>4, <2>5, <2>6
  <1> HIDE DEF P
  <1>3. Seq(S) \subseteq P
    BY <1>1, <1>2, SeqInduct
  <1> QED
    BY <1>3 DEF P
--------------------------------------------------------------------------------
(* How often a value occurs in a sequence.                                     *)
LEMMA CountEmpty == \A v : Count(<<>>, v) = 0
  <1> SUFFICES ASSUME NEW v PROVE Count(<<>>, v) = 0
    OBVIOUS
  <1>1. {i \in DOMAIN <<>> : (<<>>)[i] = v} = {}
    OBVIOUS
  <1> QED
    BY <1>1, FS_EmptySet DEF Count

LEMMA CountAppend ==
  ASSUME NEW S, NEW s \in Seq(S), NEW x \in S, NEW v
  PROVE  /\ Count(s, v) \in Nat
         /\ Count(Append(s, x), v) = Count(s, v) + IF x = v THEN 1 ELSE 0
  <1> DEFINE t == Append(s, x)
             I == {i \in 1..Len(s) : s[i] = v}
             J == {i \in 1..Len(t) : t[i] = v}
             z == Len(s) + 1
  <1>1. /\ t \in Seq(S) /\ Len(s) \in Nat /\ Len(t) = z /\ t[z] = x
        /\ \A i \in 1..Len(s) : t[i] = s[i]
    BY AppendProperties, LenProperties
  <1>2. IsFiniteSet(I)
    <2>1. IsFiniteSet(1..Len(s))
      BY <1>1, FS_Interval
    <2> QED
      BY <2>1, FS_Subset
  <1>3. Count(s, v) = Cardinality(I) /\ Count(t, v) = Cardinality(J)
    <2>1. DOMAIN s = 1..Len(s) /\ DOMAIN t = 1..Len(t)
      BY <1>1, LenProperties
    <2> QED
      BY <2>1 DEF Count
  <1>4. Cardinality(I) \in Nat
    BY <1>2, FS_CardinalityType
  <1> HIDE DEF t
  <1>5. CASE x = v
    <2>1. J = I \cup {z} /\ z \notin I
      BY <1>1, <1>5
    <2>2. Cardinality(J) = Cardinality(I) + 1
      BY <1>2, <2>1, FS_AddElement
    <2> QED
      BY <1>3, <1>4, <1>5, <2>2 DEF t
  <1>6. CASE x # v
    <2>1. J = I
      BY <1>1, <1>6
    <2> HIDE DEF I, J
    <2> QED
      BY <1>3, <1>4, <1>6, <2>1 DEF t
  <1> QED
    BY <1>5, <1>6

LEMMA CountType ==
  ASSUME NEW S, NEW s \in Seq(S), NEW v
  PROVE  Count(s, v) \in Nat
  <1>1. CASE s = <<>>
    BY <1>1, CountEmpty
  <1>2. CASE s # <<>>
    <2>1. s[1] \in S
      BY <1>2, EmptySeq
    <2> QED
      BY <2>1, CountAppend
  <1> QED
    BY <1>1, <1>2

LEMMA CountConcat ==
  ASSUME NEW S, NEW s \in Seq(S), NEW t \in Seq(S), NEW v
  PROVE  Count(s \o t, v) = Count(s, v) + Count(t, v)
  <1> DEFINE P == {u \in Seq(S) : Count(s \o u, v) = Count(s, v) + Count(u, v)}
  <1>0. Count(s, v) \in Nat
    BY CountType
  <1>1. <<>> \in P
    <2> DEFINE e == <<>>
    <2>1. s \o e = s /\ e \in Seq(S) /\ Count(e, v) = 0
      BY ConcatEmptySeq, CountEmpty
    <2> HIDE DEF e
    <2>3. Count(s \o e, v) = Count(s, v) + Count(e, v)
      <3>1. Count(s \o e, v) = Count(s, v)
        BY <2>1
      <3> QED
        BY <1>0, <2>1, <3>1
    <2>2. e \in P
      BY <2>1, <2>3
    <2> QED
      BY <2>2 DEF e
  <1>2. ASSUME NEW u \in Seq(S), NEW x \in S, u \in P PROVE Append(u, x) \in P
    <2>1. s \o Append(u, x) = Append(s \o u, x) /\ s \o u \in Seq(S) /\ Append(u, x) \in Seq(S)
      BY ConcatProperties
    <2> DEFINE w == s \o u
               n == IF x = v THEN 1 ELSE 0
    <2>2. w \in Seq(S) /\ n \in Nat
      BY <2>1
    <2>3. Count(w, v) = Count(s, v) + Count(u, v) /\ s \o Append(u, x) = Append(w, x)
      BY <1>2, <2>1
    <2> HIDE DEF w
    <2>4. Count(Append(w, x), v) = Count(w, v) + n
      BY <2>2, CountAppend
    <2>5. Count(Append(u, x), v) = Count(u, v) + n /\ Count(u, v) \in Nat
      BY CountAppend
    <2> HIDE DEF n
    <2>6. Count(s \o Append(u, x), v) = Count(s, v) + Count(Append(u, x), v)
      BY <1>0, <2>2, <2>3, <2>4, <2>5
    <2> QED
      BY <2>1, <2>6
  <1> HIDE DEF P
  <1>3. Seq(S) \subseteq P
    BY <1>1, <1>2, SeqInduct
  <1> QED
    BY <1>3 DEF P

LEMMA CountOne == \A x, v : Count(<<x>>, v) = IF x = v THEN 1 ELSE 0
  <1> SUFFICES ASSUME NEW x, NEW v PROVE Count(<<x>>, v) = IF x = v THEN 1 ELSE 0
    OBVIOUS
  <1>1. <<x>> = Append(<<>>, x) /\ <<>> \in Seq({x}) /\ x \in {x}
    OBVIOUS
  <1>2. Count(Append(<<>>, x), v) = Count(<<>>, v) + IF x = v THEN 1 ELSE 0
    <2> DEFINE e == <<>>
               S == {x}
    <2>1. e \in Seq(S) /\ x \in S
      BY <1>1
    <2> HIDE DEF e, S
    <2>2. Count(Append(e, x), v) = Count(e, v) + IF x = v THEN 1 ELSE 0
      BY <2>1, CountAppend
    <2> QED
      BY <2>2 DEF e
  <1> QED
    BY <1>1, <1>2, CountEmpty

LEMMA CountRange ==
  ASSUME NEW S, NEW s \in Seq(S), NEW v
  PROVE  v \in Range(s) <=> Count(s, v) > 0
  <1> DEFINE I == {i \in 1..Len(s) : s[i] = v}
  <1>1. Len(s) \in Nat /\ DOMAIN s = 1..Len(s)
    BY LenProperties
  <1>2. IsFiniteSet(I)
    <2>1. IsFiniteSet(1..Len(s))
      BY <1>1, FS_Interval
    <2> QED
      BY <2>1, FS_Subset
  <1>3. Count(s, v) = Cardinality(I)
    BY <1>1 DEF Count
  <1>4. v \in Range(s) <=> I # {}
    BY <1>1 DEF Range
  <1> HIDE DEF I
  <1>5. Cardinality(I) \in Nat /\ (Cardinality(I) = 0 <=> I = {})
    BY <1>2, FS_CardinalityType, FS_EmptySet
  <1> QED
    BY <1>3, <1>4, <1>5

Around(p, x, q) == p \o (<<x>> \o q)

LEMMA SplitAt ==
  ASSUME NEW S, NEW s \in Seq(S), NEW v \in Range(s)
  PROVE  v \in S /\ \E p, q \in Seq(S) : s = Around(p, v, q)
  <1>1. PICK i \in 1..Len(s) : s[i] = v
    BY LenProperties DEF Range
  <1>2. Len(s) \in Nat /\ v \in S /\ \A j \in 1..Len(s) : s[j] \in S
    BY <1>1, LenProperties, ElementOfSeq
  <1> DEFINE p == SubSeq(s, 1, i - 1)
             h == <<v>>
             q == SubSeq(s, i + 1, Len(s))
             r == h \o q
  <1>3. p \in Seq(S) /\ Len(p) = i - 1 /\ \A j \in 1..(i - 1) : p[j] = s[j]
    <2>1. \A j \in 1..(i - 1) : s[j] \in S
      BY <1>2
    <2>2. Len(p) = IF 1 <= i - 1 THEN (i - 1) - 1 + 1 ELSE 0
      BY <2>1, SubSeqProperties
    <2>3. \A j \in 1..((i - 1) - 1 + 1) : p[j] = s[1 + j - 1]
      BY <2>1, SubSeqProperties
    <2>4. p \in Seq(S)
      BY <2>1, SubSeqProperties
    <2> HIDE DEF p
    <2>5. (i - 1) - 1 + 1 = i - 1 /\ \A j \in 1..(i - 1) : 1 + j - 1 = j
      OBVIOUS
    <2> QED
      BY <2>2, <2>3, <2>4, <2>5
  <1>4. q \in Seq(S) /\ Len(q) = Len(s) - i /\ \A j \in 1..(Len(s) - i) : q[j] = s[i + j]
    <2>1. \A j \in (i + 1)..Len(s) : s[j] \in S
      BY <1>2
    <2>2. Len(q) = IF i + 1 <= Len(s) THEN Len(s) - (i + 1) + 1 ELSE 0
      BY <1>2, <2>1, SubSeqProperties
    <2>3. \A j \in 1..(Len(s) - (i + 1) + 1) : q[j] = s[(i + 1) + j - 1]
      BY <1>2, <2>1, SubSeqProperties
    <2>4. q \in Seq(S)
      BY <1>2, <2>1, SubSeqProperties
    <2> HIDE DEF q
    <2>5. Len(s) - (i + 1) + 1 = Len(s) - i /\ \A j \in Int : (i + 1) + j - 1 = i + j
      BY <1>2
    <2>6. Len(q) = Len(s) - i
      BY <1>2, <2>2
    <2>7. ASSUME NEW j \in 1..(Len(s) - i) PROVE q[j] = s[i + j]
      <3>1. j \in 1..(Len(s) - (i + 1) + 1)
        BY <2>5
      <3>2. q[j] = s[(i + 1) + j - 1]
        BY <2>3, <3>1
      <3>3. (i + 1) + j - 1 = i + j
        BY <2>5
      <3> QED
        BY <3>2, <3>3
    <2> QED
      BY <2>4, <2>6, <2>7
  <1>5. h \in Seq(S) /\ Len(h) = 1 /\ h[1] = v
    BY <1>2
  <1> HIDE DEF p, q, h
  <1>6. r \in Seq(S) /\ Len(r) = Len(s) - i + 1 /\ r[1] = v
        /\ \A j \in 1..(Len(s) - i) : r[j + 1] = s[i + j]
    <2>1. /\ r \in Seq(S) /\ Len(r) = Len(h) + Len(q)
          /\ \A j \in 1..(Len(h) + Len(q)) :
                 r[j] = IF j <= Len(h) THEN h[j] ELSE q[j - Len(h)]
      BY <1>4, <1>5, ConcatProperties
    <2>2. \A j \in 1..(Len(s) - i) : j + 1 \in 1..(Len(h) + Len(q)) /\ ~(j + 1 <= 1)
                                     /\ (j + 1) - 1 = j
      BY <1>2, <1>4, <1>5
    <2>3. 1 \in 1..(Len(h) + Len(q)) /\ 1 <= Len(h)
      BY <1>2, <1>4, <1>5
    <2> HIDE DEF r
    <2>4. r[1] = v
      BY <1>5, <2>1, <2>3
    <2>5. ASSUME NEW j \in 1..(Len(s) - i) PROVE r[j + 1] = s[i + j]
      <3>1. r[j + 1] = q[(j + 1) - 1]
        BY <1>5, <2>1, <2>2
      <3> QED
        BY <1>4, <2>2, <3>1
    <2>6. Len(r) = Len(s) - i + 1
      BY <1>2, <1>4, <1>5, <2>1
    <2> QED
      BY <2>1, <2>4, <2>5, <2>6
  <1> HIDE DEF r
  <1>7. s = p \o r
    <2> DEFINE w == p \o r
    <2>1. /\ w \in Seq(S) /\ Len(w) = Len(p) + Len(r)
          /\ \A j \in 1..(Len(p) + Len(r)) :
                 w[j] = IF j <= Len(p) THEN p[j] ELSE r[j - Len(p)]
      BY <1>3, <1>6, ConcatProperties
    <2> HIDE DEF w
    <2>2. Len(w) = Len(s)
      BY <1>2, <1>3, <1>6, <2>1
    <2>3. ASSUME NEW j \in 1..Len(s) PROVE w[j] = s[j]
      <3>1. w[j] = IF j <= i - 1 THEN p[j] ELSE r[j - (i - 1)]
        BY <1>3, <2>1, <2>2
      <3>2. CASE j <= i - 1
        BY <1>3, <3>1, <3>2
      <3>3. CASE j = i
        BY <1>1, <1>6, <3>1, <3>3
      <3>4. CASE j > i
        <4>1. j - i \in 1..(Len(s) - i) /\ (j - i) + 1 = j - (i - 1) /\ i + (j - i) = j
          BY <1>2, <3>4
        <4>2. r[(j - i) + 1] = s[i + (j - i)]
          BY <1>6, <4>1
        <4> QED
          BY <3>1, <3>4, <4>1, <4>2
      <3> QED
        BY <3>2, <3>3, <3>4
    <2>4. s = w
      BY <2>1, <2>2, <2>3, SeqEqual
    <2> QED
      BY <2>4 DEF w
  <1> QED
    BY <1>2, <1>3, <1>4, <1>7 DEF r, h, Around
--------------------------------------------------------------------------------
(* Every value of one sequence has its place in another.                       *)
Within(s, t) == \A v : Count(s, v) <= Count(t, v)

LEMMA WithinRefl == \A S : \A s \in Seq(S) : Within(s, s)
  BY CountType DEF Within

LEMMA WithinTrans ==
  ASSUME NEW S, NEW s \in Seq(S), NEW t \in Seq(S), NEW u \in Seq(S), Within(s, t), Within(t, u)
  PROVE  Within(s, u)
  <1> SUFFICES ASSUME NEW v PROVE Count(s, v) <= Count(u, v)
    BY DEF Within
  <1>1. Count(s, v) \in Nat /\ Count(t, v) \in Nat /\ Count(u, v) \in Nat
    BY CountType
  <1>2. Count(s, v) <= Count(t, v) /\ Count(t, v) <= Count(u, v)
    BY DEF Within
  <1> QED
    BY <1>1, <1>2

LEMMA WithinConcat ==
  ASSUME NEW S, NEW s \in Seq(S), NEW t \in Seq(S), NEW u \in Seq(S), NEW w \in Seq(S),
         Within(s, u), Within(t, w)
  PROVE  Within(s \o t, u \o w)
  <1> SUFFICES ASSUME NEW v PROVE Count(s \o t, v) <= Count(u \o w, v)
    BY DEF Within
  <1>1. /\ Count(s, v) \in Nat /\ Count(t, v) \in Nat
        /\ Count(u, v) \in Nat /\ Count(w, v) \in Nat
    BY CountType
  <1>2. Count(s, v) <= Count(u, v) /\ Count(t, v) <= Count(w, v)
    BY DEF Within
  <1>3. Count(s \o t, v) = Count(s, v) + Count(t, v)
    BY CountConcat
  <1>4. Count(u \o w, v) = Count(u, v) + Count(w, v)
    BY CountConcat
  <1> QED
    BY <1>1, <1>2, <1>3, <1>4

LEMMA WithinRange ==
  ASSUME NEW S, NEW s \in Seq(S), NEW t \in Seq(S), Within(s, t)
  PROVE  Range(s) \subseteq Range(t)
  <1> SUFFICES ASSUME NEW v \in Range(s) PROVE v \in Range(t)
    OBVIOUS
  <1>1. Count(s, v) \in Nat /\ Count(t, v) \in Nat /\ Count(s, v) <= Count(t, v)
    BY CountType DEF Within
  <1>2. Count(s, v) > 0
    BY CountRange
  <1>3. Count(t, v) > 0
    BY <1>1, <1>2
  <1> QED
    BY <1>3, CountRange

LEMMA WithinEmpty ==
  ASSUME NEW S, NEW s \in Seq(S)
  PROVE  Within(<<>>, s) /\ (Within(s, <<>>) => s = <<>>)
  <1>1. Within(<<>>, s)
    <2> SUFFICES ASSUME NEW v PROVE Count(<<>>, v) <= Count(s, v)
      BY DEF Within
    <2>1. Count(<<>>, v) = 0 /\ Count(s, v) \in Nat
      BY CountEmpty, CountType
    <2> QED
      BY <2>1
  <1>2. ASSUME Within(s, <<>>), s # <<>> PROVE FALSE
    <2>1. <<>> \in Seq(S)
      OBVIOUS
    <2>2. Range(s) \subseteq Range(<<>>)
      BY <1>2, <2>1, WithinRange
    <2>3. 1 \in DOMAIN s
      BY <1>2, EmptySeq
    <2> QED
      BY <2>2, <2>3 DEF Range
  <1> QED
    BY <1>1, <1>2

(* Taking one value out of both.                                               *)
LEMMA WithinRest ==
  ASSUME NEW S, NEW s \in Seq(S), NEW x \in S, NEW t \in Seq(S), Within(Append(s, x), t)
  PROVE  \E p, q \in Seq(S) : t = Around(p, x, q) /\ Within(s, p \o q)
  <1>1. Append(s, x) \in Seq(S)
    BY AppendProperties
  <1>2. x \in Range(t)
    <2>1. x \in Range(Append(s, x))
      <3>1. Count(Append(s, x), x) = Count(s, x) + 1 /\ Count(s, x) \in Nat
        BY CountAppend
      <3>2. Count(Append(s, x), x) > 0
        BY <3>1
      <3> QED
        BY <1>1, <3>2, CountRange
    <2> QED
      BY <1>1, <2>1, WithinRange
  <1>3. PICK p \in Seq(S), q \in Seq(S) : t = Around(p, x, q)
    BY <1>2, SplitAt
  <1> DEFINE h == <<x>>
             r == h \o q
  <1>4. h \in Seq(S) /\ r \in Seq(S) /\ t = p \o r
    BY <1>3, ConcatProperties DEF Around
  <1>5. ASSUME NEW v PROVE Count(s, v) <= Count(p \o q, v)
    <2> DEFINE n == IF x = v THEN 1 ELSE 0
    <2>1. Count(Append(s, x), v) = Count(s, v) + n /\ n \in Nat
      BY CountAppend
    <2>2. Count(h, v) = n
      BY CountOne
    <2> HIDE DEF n, h, r
    <2>3. Count(p \o r, v) = Count(p, v) + Count(r, v)
      BY <1>4, CountConcat
    <2>4. Count(r, v) = Count(h, v) + Count(q, v)
      BY <1>4, CountConcat DEF r
    <2>5. Count(p \o q, v) = Count(p, v) + Count(q, v)
      BY CountConcat
    <2>6. Count(s, v) \in Nat /\ Count(p, v) \in Nat /\ Count(q, v) \in Nat
      BY CountType
    <2>7. Count(Append(s, x), v) <= Count(p \o r, v)
      BY <1>4 DEF Within
    <2> QED
      BY <2>1, <2>2, <2>3, <2>4, <2>5, <2>6, <2>7
  <1> QED
    BY <1>3, <1>5 DEF Within

LEMMA WithinLen ==
  ASSUME NEW S, NEW s \in Seq(S), NEW t \in Seq(S), Within(s, t)
  PROVE  Len(s) <= Len(t)
  <1> DEFINE P == {u \in Seq(S) : \A w \in Seq(S) : Within(u, w) => Len(u) <= Len(w)}
  <1>1. <<>> \in P
    BY LenProperties
  <1>2. ASSUME NEW u \in Seq(S), NEW x \in S, u \in P PROVE Append(u, x) \in P
    <2> SUFFICES ASSUME NEW w \in Seq(S), Within(Append(u, x), w)
                 PROVE  Len(Append(u, x)) <= Len(w)
      BY AppendProperties
    <2>1. PICK p \in Seq(S), q \in Seq(S) : w = Around(p, x, q) /\ Within(u, p \o q)
      BY WithinRest
    <2> DEFINE h == <<x>>
               r == h \o q
               m == p \o q
    <2>2. h \in Seq(S) /\ Len(h) = 1
      OBVIOUS
    <2>3. m \in Seq(S) /\ Len(m) = Len(p) + Len(q)
      BY ConcatProperties
    <2> HIDE DEF h
    <2>4. r \in Seq(S) /\ Len(r) = Len(h) + Len(q)
      BY <2>2, ConcatProperties
    <2>5. w = p \o r
      BY <2>1 DEF h, Around
    <2> HIDE DEF r, m
    <2>6. Len(w) = Len(p) + Len(r)
      BY <2>4, <2>5, ConcatProperties
    <2>7. Len(u) <= Len(m)
      BY <1>2, <2>1, <2>3 DEF m
    <2>8. Len(p) \in Nat /\ Len(q) \in Nat /\ Len(u) \in Nat /\ Len(Append(u, x)) = Len(u) + 1
      BY LenProperties, AppendProperties
    <2> QED
      BY <2>2, <2>3, <2>4, <2>6, <2>7, <2>8
  <1> HIDE DEF P
  <1>3. Seq(S) \subseteq P
    BY <1>1, <1>2, SeqInduct
  <1> QED
    BY <1>3 DEF P

LEMMA WithinEach ==
  ASSUME NEW S, NEW T, NEW F, Fun(F, S, Seq(T)), NEW s \in Seq(S), NEW t \in Seq(S),
         Within(s, t)
  PROVE  Within(Each(F, s), Each(F, t))
  <1>a. \A p, q \in Seq(S) : Each(F, p \o q) = Each(F, p) \o Each(F, q)
    BY EachConcat
  <1> DEFINE P == {u \in Seq(S) : \A w \in Seq(S) : Within(u, w) => Within(Each(F, u), Each(F, w))}
  <1>1. <<>> \in P
    <2>1. \A w \in Seq(S) : Within(<<>>, Each(F, w))
      BY EachType, WithinEmpty
    <2>2. <<>> \in Seq(S)
      OBVIOUS
    <2> DEFINE e == <<>>
    <2> HIDE DEF e
    <2>3. e \in Seq(S) /\ Each(F, e) = e /\ \A w \in Seq(S) : Within(e, Each(F, w))
      BY <2>1, <2>2, EachEmpty DEF e
    <2>4. e \in P
      BY <2>3
    <2> QED
      BY <2>4 DEF e
  <1>2. ASSUME NEW u \in Seq(S), NEW x \in S, u \in P PROVE Append(u, x) \in P
    <2> SUFFICES ASSUME NEW w \in Seq(S), Within(Append(u, x), w)
                 PROVE  Within(Each(F, Append(u, x)), Each(F, w))
      BY AppendProperties
    <2>1. PICK p \in Seq(S), q \in Seq(S) : w = Around(p, x, q) /\ Within(u, p \o q)
      BY WithinRest
    <2> DEFINE h == <<x>>
               r == h \o q
               m == p \o q
               fu == Each(F, u)
               fp == Each(F, p)
               fq == Each(F, q)
               fx == F[x]
    <2>2. h \in Seq(S) /\ Each(F, h) = fx /\ fx \in Seq(T)
      BY EachOne
    <2>3. m \in Seq(S) /\ Each(F, m) = fp \o fq /\ fp \in Seq(T) /\ fq \in Seq(T) /\ fu \in Seq(T)
      <3>1. m \in Seq(S)
        BY ConcatProperties
      <3>2. Each(F, p \o q) = Each(F, p) \o Each(F, q)
        BY <1>a
      <3>3. Each(F, p) \in Seq(T) /\ Each(F, q) \in Seq(T) /\ Each(F, u) \in Seq(T)
        BY EachType
      <3> QED
        BY <3>1, <3>2, <3>3
    <2> HIDE DEF h, fx
    <2>4. r \in Seq(S) /\ Each(F, r) = fx \o fq
      <3>1. Each(F, h \o q) = Each(F, h) \o Each(F, q)
        BY <1>a, <2>2
      <3> QED
        BY <2>2, <3>1, ConcatProperties
    <2>5. w = p \o r
      BY <2>1 DEF h, Around
    <2> HIDE DEF r, m
    <2>6. Each(F, w) = fp \o (fx \o fq)
      <3>1. Each(F, p \o r) = Each(F, p) \o Each(F, r)
        BY <1>a, <2>4
      <3> QED
        BY <2>4, <2>5, <3>1
    <2>7. Within(fu, fp \o fq)
      BY <1>2, <2>1, <2>3 DEF m
    <2>8. Each(F, Append(u, x)) = fu \o fx
      BY EachAppend DEF fx
    <2> HIDE DEF fu, fp, fq
    <2>9. ASSUME NEW v PROVE Count(fu \o fx, v) <= Count(fp \o (fx \o fq), v)
      <3> DEFINE y == fx \o fq
                 z == fp \o fq
      <3>1. y \in Seq(T) /\ Count(y, v) = Count(fx, v) + Count(fq, v)
        BY <2>2, <2>3, CountConcat, ConcatProperties
      <3>2. Count(z, v) = Count(fp, v) + Count(fq, v)
        BY <2>3, CountConcat
      <3>3. Count(fu \o fx, v) = Count(fu, v) + Count(fx, v)
        BY <2>2, <2>3, CountConcat
      <3>4. Count(fu, v) <= Count(z, v)
        BY <2>7 DEF Within
      <3> HIDE DEF y, z
      <3>5. Count(fp \o y, v) = Count(fp, v) + Count(y, v)
        BY <2>3, <3>1, CountConcat
      <3>6. Count(fu, v) \in Nat /\ Count(fx, v) \in Nat /\ Count(fp, v) \in Nat
            /\ Count(fq, v) \in Nat
        BY <2>2, <2>3, CountType
      <3>7. Count(fu \o fx, v) <= Count(fp \o y, v)
        BY <3>1, <3>2, <3>3, <3>4, <3>5, <3>6
      <3> QED
        BY <3>7 DEF y
    <2> QED
      BY <2>6, <2>8, <2>9 DEF Within
  <1> HIDE DEF P
  <1>3. Seq(S) \subseteq P
    BY <1>1, <1>2, SeqInduct
  <1> QED
    BY <1>3 DEF P
--------------------------------------------------------------------------------
(* Recursion over a measure: what holds of a value when it holds of all        *)
(* smaller ones holds of all, and a function may be defined by its smaller     *)
(* values.                                                                     *)
Carries(P, S, m) == \A x \in S : (\A y \in S : m[y] < m[x] => y \in P) => x \in P

LEMMA MeasureInduct ==
  ASSUME NEW S, NEW m \in [S -> Nat], NEW P, Carries(P, S, m)
  PROVE  S \subseteq P
  <1> USE DEF Carries
  <1> DEFINE Q == {n \in Nat : \A x \in S : m[x] < n => x \in P}
  <1>1. 0 \in Q
    OBVIOUS
  <1>2. ASSUME NEW n \in Nat, n \in Q PROVE n + 1 \in Q
    <2> SUFFICES ASSUME NEW x \in S, m[x] < n + 1 PROVE x \in P
      OBVIOUS
    <2>1. \A y \in S : m[y] < m[x] => y \in P
      BY <1>2
    <2> QED
      BY <2>1
  <1> HIDE DEF Q
  <1>3. Nat \subseteq Q
    BY <1>1, <1>2, Induct
  <1>4. ASSUME NEW x \in S PROVE x \in P
    <2>1. m[x] + 1 \in Nat /\ m[x] < m[x] + 1
      OBVIOUS
    <2>2. m[x] + 1 \in Q
      BY <1>3, <2>1
    <2> QED
      BY <2>1, <2>2 DEF Q
  <1> QED
    BY <1>4

Descends(F, S, V, m) ==
    /\ m \in [S -> Nat] /\ F \in [[S -> V] \X S -> V]
    /\ \A g, h \in [S -> V], x \in S :
           (\A y \in S : m[y] < m[x] => g[y] = h[y]) => F[<<g, x>>] = F[<<h, x>>]

LEMMA Recursion ==
  ASSUME NEW S, NEW V, V # {}, NEW m, NEW F, Descends(F, S, V, m)
  PROVE  \E g \in [S -> V] : \A x \in S : g[x] = F[<<g, x>>]
  <1> USE DEF Descends
  <1> DEFINE G(n) == {g \in [S -> V] : \A x \in S : m[x] < n => g[x] = F[<<g, x>>]}
  <1>0. \A g \in [S -> V], x \in S : F[<<g, x>>] \in V
    OBVIOUS
  <1>1. ASSUME NEW n \in Nat, NEW k \in Nat, NEW g \in G(n), NEW h \in G(k),
               NEW z \in S, m[z] < n, m[z] < k
        PROVE  g[z] = h[z]
    <2> DEFINE P == {x \in S : m[x] < n /\ m[x] < k => g[x] = h[x]}
    <2>1. ASSUME NEW x \in S, \A y \in S : m[y] < m[x] => y \in P PROVE x \in P
      <3> SUFFICES ASSUME m[x] < n, m[x] < k PROVE g[x] = h[x]
        OBVIOUS
      <3>1. \A y \in S : m[y] < m[x] => g[y] = h[y]
        BY <2>1
      <3>2. F[<<g, x>>] = F[<<h, x>>]
        BY <3>1
      <3> QED
        BY <3>2
    <2> HIDE DEF P
    <2>2. Carries(P, S, m)
      BY <2>1 DEF Carries
    <2>3. S \subseteq P
      BY <2>2, MeasureInduct
    <2> QED
      BY <1>1, <2>3 DEF P
  <1> DEFINE Q == {n \in Nat : \E g : g \in G(n)}
  <1>2. 0 \in Q
    <2>1. PICK v \in V : TRUE
      OBVIOUS
    <2>2. [x \in S |-> v] \in G(0)
      OBVIOUS
    <2> HIDE DEF G
    <2> QED
      BY <2>2
  <1>3. ASSUME NEW n \in Nat, n \in Q PROVE n + 1 \in Q
    <2>1. PICK g : g \in G(n)
      BY <1>3
    <2>2. PICK h \in [S -> V] : \A x \in S : h[x] = F[<<g, x>>]
      <3>1. [x \in S |-> F[<<g, x>>]] \in [S -> V]
        BY <1>0, <2>1
      <3> QED
        BY <3>1
    <2>3. ASSUME NEW x \in S, m[x] < n + 1 PROVE h[x] = F[<<h, x>>]
      <3>1. ASSUME NEW y \in S, m[y] < m[x] PROVE g[y] = h[y]
        <4>1. m[y] < n
          BY <2>3, <3>1
        <4> QED
          BY <2>1, <2>2, <4>1
      <3>2. F[<<g, x>>] = F[<<h, x>>]
        BY <2>1, <3>1
      <3> QED
        BY <2>2, <3>2
    <2>4. h \in G(n + 1)
      BY <2>3
    <2> HIDE DEF G
    <2> QED
      BY <2>4
  <1>4. Nat \subseteq Q
    <2> HIDE DEF Q
    <2> QED
      BY <1>2, <1>3, Induct
  <1> DEFINE c == [x \in S |-> CHOOSE g : g \in G(m[x] + 1)]
             w == [x \in S |-> c[x][x]]
  <1>5. ASSUME NEW x \in S PROVE c[x] \in G(m[x] + 1) /\ c[x] \in [S -> V]
    <2>1. m[x] + 1 \in Q
      <3>1. m[x] + 1 \in Nat
        OBVIOUS
      <3> HIDE DEF Q
      <3> QED
        BY <1>4, <3>1
    <2>2. \E g : g \in G(m[x] + 1)
      BY <2>1
    <2> HIDE DEF G
    <2>3. c[x] \in G(m[x] + 1)
      BY <2>2
    <2> QED
      BY <2>3 DEF G
  <1> HIDE DEF c
  <1>6. w \in [S -> V] /\ \A x \in S : w[x] = c[x][x]
    BY <1>5
  <1> HIDE DEF w
  <1>7. ASSUME NEW x \in S PROVE w[x] = F[<<w, x>>]
    <2>1. ASSUME NEW y \in S, m[y] < m[x] PROVE c[x][y] = w[y]
      <3>1. m[y] < m[x] + 1 /\ m[y] < m[y] + 1 /\ m[x] + 1 \in Nat /\ m[y] + 1 \in Nat
        BY <2>1
      <3>2. c[x] \in G(m[x] + 1) /\ c[y] \in G(m[y] + 1)
        BY <1>5
      <3> HIDE DEF G
      <3>3. c[x][y] = c[y][y]
        BY <1>1, <3>1, <3>2
      <3> QED
        BY <1>6, <3>3
    <2>2. F[<<c[x], x>>] = F[<<w, x>>]
      BY <1>5, <1>6, <2>1
    <2>3. c[x][x] = F[<<c[x], x>>]
      <3>1. m[x] < m[x] + 1
        OBVIOUS
      <3> QED
        BY <1>5, <3>1
    <2> QED
      BY <1>6, <2>2, <2>3
  <1> QED
    BY <1>6, <1>7

(* The sequences in a finite set have a longest one.                           *)
LEMMA Longest ==
  ASSUME NEW S, NEW E, IsFiniteSet(E), E \subseteq Seq(S)
  PROVE  \E h \in Nat : \A p \in E : Len(p) <= h
  <1>1. PICK n \in Nat : ExistsSurjection(1..n, E)
    BY FS_NatSurjection
  <1>2. PICK f : f \in Surjection(1..n, E)
    BY <1>1 DEF ExistsSurjection
  <1>3. f \in [1..n -> E] /\ \A p \in E : \E i \in 1..n : f[i] = p
    BY <1>2, Fun_SurjectionProperties
  <1> DEFINE P == {k \in Nat : \E h \in Nat : \A i \in 1..n : i <= k => Len(f[i]) <= h}
  <1>4. 0 \in P
    OBVIOUS
  <1>5. ASSUME NEW k \in Nat, k \in P PROVE k + 1 \in P
    <2>0. k + 1 \in Nat
      OBVIOUS
    <2> SUFFICES \E h \in Nat : \A i \in 1..n : i <= k + 1 => Len(f[i]) <= h
      BY <2>0, Zenon
    <2>1. PICK h \in Nat : \A i \in 1..n : i <= k => Len(f[i]) <= h
      BY <1>5
    <2>2. CASE k + 1 \in 1..n
      <3>1. \A i \in 1..n : Len(f[i]) \in Nat
        BY <1>3, LenProperties
      <3>2. Len(f[k + 1]) \in Nat
        BY <2>2, <3>1
      <3> DEFINE z == Len(f[k + 1]) + h
      <3>3. z \in Nat
        BY <3>2
      <3>4. \A i \in 1..n : i <= k + 1 => Len(f[i]) <= z
        <4> SUFFICES ASSUME NEW i \in 1..n, i <= k + 1 PROVE Len(f[i]) <= z
          OBVIOUS
        <4>1. CASE i = k + 1
          BY <3>2, <4>1
        <4>2. CASE i <= k
          BY <2>1, <3>1, <3>2, <4>2
        <4> QED
          BY <4>1, <4>2
      <3> QED
        BY <3>3, <3>4
    <2>3. CASE k + 1 \notin 1..n
      <3>1. \A i \in 1..n : i <= k + 1 => i <= k
        BY <2>3
      <3> QED
        BY <2>1, <3>1
    <2> QED
      BY <2>2, <2>3
  <1> HIDE DEF P
  <1>6. n \in P
    BY <1>4, <1>5, Induct
  <1>7. PICK h \in Nat : \A i \in 1..n : i <= n => Len(f[i]) <= h
    BY <1>6 DEF P
  <1>8. \A i \in 1..n : Len(f[i]) <= h
    BY <1>7
  <1> QED
    BY <1>3, <1>8
--------------------------------------------------------------------------------
(* What lists of nodes denote is well-defined, and of the type it should be.   *)
LEMMA EachSame ==
  ASSUME NEW F, NEW G, NEW s, \A i \in 1..Len(s) : F[s[i]] = G[s[i]]
  PROVE  Each(F, s) = Each(G, s)
  <1>1. [i \in 1..Len(s) |-> F[s[i]]] = [i \in 1..Len(s) |-> G[s[i]]]
    OBVIOUS
  <1> QED
    BY <1>1, Zenon DEF Each

LEMMA SeqWider ==
  ASSUME NEW S, NEW T, S \subseteq T, NEW s \in Seq(S)
  PROVE  s \in Seq(T)
  <1>1. Len(s) \in Nat /\ s \in [1..Len(s) -> T]
    BY LenProperties, ElementOfSeq
  <1> QED
    BY <1>1, SeqDef

LEMMA KidsType ==
  ASSUME NEW d \in Documents, NEW v \in DOMAIN d
  PROVE  /\ Kids(d, v) \in Seq(DOMAIN d) /\ DOMAIN d[v].kids = 1..Len(d[v].kids)
         /\ Len(d[v].kids) \in Nat /\ Len(Kids(d, v)) = Len(d[v].kids)
         /\ v \in Seq(Steps)
         /\ \A s \in 1..Len(d[v].kids) :
                /\ Kids(d, v)[s] = Append(v, d[v].kids[s])
                /\ Kids(d, v)[s] \in DOMAIN d /\ Len(Kids(d, v)[s]) = Len(v) + 1
  <1> DEFINE k == d[v].kids
  <1>1. k \in Seq(Steps) /\ v \in Seq(Steps) /\ \A s \in 1..Len(k) : Append(v, k[s]) \in DOMAIN d
    BY EvalAssumption DEF IsDocument
  <1>2. DOMAIN k = 1..Len(k) /\ Len(k) \in Nat
    BY <1>1, LenProperties
  <1>3. Kids(d, v) = [s \in 1..Len(k) |-> Append(v, k[s])]
    BY <1>2 DEF Kids
  <1>4. Kids(d, v) \in [1..Len(k) -> DOMAIN d]
    BY <1>1, <1>3
  <1>5. Kids(d, v) \in Seq(DOMAIN d)
    BY <1>2, <1>4, SeqDef
  <1>6. Len(Kids(d, v)) = Len(k)
    BY <1>2, <1>4, <1>5, LenProperties
  <1>7. ASSUME NEW s \in 1..Len(k)
        PROVE  Kids(d, v)[s] = Append(v, k[s]) /\ Kids(d, v)[s] \in DOMAIN d
               /\ Len(Kids(d, v)[s]) = Len(v) + 1
    <2>1. k[s] \in Steps
      BY <1>1, ElementOfSeq
    <2>2. Len(Append(v, k[s])) = Len(v) + 1
      BY <1>1, <2>1, AppendProperties
    <2>3. Kids(d, v)[s] = Append(v, k[s])
      BY <1>3
    <2> QED
      BY <1>1, <2>2, <2>3
  <1> QED
    BY <1>1, <1>2, <1>5, <1>6, <1>7

LEMMA OutcomesType ==
  ASSUME NEW d \in Documents
  PROVE  /\ Failure \notin DOMAIN d /\ Failure \in Outcomes(d)
         /\ DOMAIN d \subseteq Outcomes(d) /\ Seq(DOMAIN d) \subseteq Seq(Outcomes(d))
         /\ Root \in DOMAIN d
  <1>1. IsDocument(d)
    BY EvalAssumption
  <1>2. Seq(DOMAIN d) \subseteq Seq(Outcomes(d))
    BY SeqWider DEF Outcomes
  <1> QED
    BY <1>1, <1>2, MeaningAssumption DEF IsDocument, Outcomes
--------------------------------------------------------------------------------
Down(d, F, v) == IF d[v].kids = <<>> THEN <<>> ELSE <<v>> \o Each(F, Kids(d, v))

LEMMA DownType ==
  ASSUME NEW d \in Documents, NEW F, Fun(F, DOMAIN d, Seq(DOMAIN d)), NEW v \in DOMAIN d
  PROVE  Down(d, F, v) \in Seq(DOMAIN d)
  <1>1. Each(F, Kids(d, v)) \in Seq(DOMAIN d)
    BY KidsType, EachType
  <1>2. <<v>> \in Seq(DOMAIN d) /\ <<>> \in Seq(DOMAIN d)
    OBVIOUS
  <1>3. <<v>> \o Each(F, Kids(d, v)) \in Seq(DOMAIN d)
    BY <1>1, <1>2, ConcatProperties
  <1> QED
    BY <1>2, <1>3 DEF Down

LEMMA DescentMeasure ==
  ASSUME NEW d \in Documents
  PROVE  \E m \in [DOMAIN d -> Nat] : \A v \in DOMAIN d : \A s \in 1..Len(d[v].kids) :
             m[Kids(d, v)[s]] < m[v]
  <1>1. PICK h \in Nat : \A p \in DOMAIN d : Len(p) <= h
    <2>1. IsFiniteSet(DOMAIN d) /\ DOMAIN d \subseteq Seq(Steps)
      BY MeaningAssumption, EvalAssumption DEF IsDocument
    <2> QED
      BY <2>1, Longest
  <1>2. \A v \in DOMAIN d : Len(v) \in Nat
    BY KidsType, LenProperties
  <1> DEFINE m == [v \in DOMAIN d |-> h - Len(v)]
  <1>3. m \in [DOMAIN d -> Nat]
    BY <1>1, <1>2
  <1>4. ASSUME NEW v \in DOMAIN d, NEW s \in 1..Len(d[v].kids)
        PROVE  m[Kids(d, v)[s]] < m[v]
    <2>1. Kids(d, v)[s] \in DOMAIN d /\ Len(Kids(d, v)[s]) = Len(v) + 1
      BY KidsType
    <2> QED
      BY <1>1, <1>2, <2>1
  <1> QED
    BY <1>3, <1>4

LEMMA DescentType ==
  ASSUME NEW d \in Documents
  PROVE  /\ Fun(Descent(d), DOMAIN d, Seq(DOMAIN d))
         /\ \A v \in DOMAIN d : Descent(d)[v] = Down(d, Descent(d), v)
  <1> DEFINE S == DOMAIN d
             V == Seq(S)
             F == [x \in [S -> V] \X S |-> Down(d, x[1], x[2])]
  <1>1. PICK m \in [S -> Nat] : \A v \in S : \A s \in 1..Len(d[v].kids) :
             m[Kids(d, v)[s]] < m[v]
    BY DescentMeasure
  <1>2. ASSUME NEW v \in S, NEW g, NEW h, \A y \in S : m[y] < m[v] => g[y] = h[y]
        PROVE  Down(d, g, v) = Down(d, h, v)
    <2>1. \A i \in 1..Len(Kids(d, v)) : g[Kids(d, v)[i]] = h[Kids(d, v)[i]]
      BY <1>1, <1>2, KidsType
    <2>2. Each(g, Kids(d, v)) = Each(h, Kids(d, v))
      BY <2>1, EachSame
    <2> QED
      BY <2>2 DEF Down
  <1>3. PICK g \in [S -> V] : \A v \in S : g[v] = Down(d, g, v)
    <2>1. V # {}
      BY EmptySeq
    <2>2. \A g \in [S -> V], v \in S : Down(d, g, v) \in V
      BY DownType DEF Fun
    <2>3. \A g \in [S -> V], v \in S : F[<<g, v>>] = Down(d, g, v)
      OBVIOUS
    <2>4. F \in [[S -> V] \X S -> V]
      BY <2>2
    <2> HIDE DEF S, V, F
    <2>5. \A g, h \in [S -> V], x \in S :
             (\A y \in S : m[y] < m[x] => g[y] = h[y]) => F[<<g, x>>] = F[<<h, x>>]
      BY <1>2, <2>3
    <2>6. Descends(F, S, V, m)
      BY <2>4, <2>5 DEF Descends
    <2>7. \E g \in [S -> V] : \A x \in S : g[x] = F[<<g, x>>]
      BY ONLY <2>1, <2>6, Recursion, SMTT(30)
    <2> QED
      BY <2>3, <2>7
  <1> DEFINE Is(f) == f = [v \in DOMAIN d |-> IF d[v].kids = <<>> THEN <<>>
                                              ELSE <<v>> \o Each(f, Kids(d, v))]
  <1>4. Is(g)
    BY <1>3 DEF Down
  <1>5. Descent(d) = CHOOSE f : Is(f)
    BY DEF Descent
  <1>6. Is(Descent(d))
    <2> HIDE DEF Is
    <2> QED
      BY <1>4, <1>5
  <1> DEFINE f == Descent(d)
  <1>7. f = [v \in S |-> f[v]] /\ \A v \in S : f[v] = Down(d, f, v)
    BY <1>6 DEF Down
  <1> HIDE DEF f
  <1>8. \A v \in S : f[v] = g[v]
    <2> DEFINE P == {v \in S : f[v] = g[v]}
    <2>1. ASSUME NEW x \in S, \A y \in S : m[y] < m[x] => y \in P PROVE x \in P
      <3>1. \A y \in S : m[y] < m[x] => f[y] = g[y]
        BY <2>1
      <3>2. Down(d, f, x) = Down(d, g, x)
        BY <1>2, <3>1
      <3> QED
        BY <1>3, <1>7, <3>2
    <2> HIDE DEF P
    <2>2. Carries(P, S, m)
      BY <2>1 DEF Carries
    <2>3. S \subseteq P
      BY <1>1, <2>2, MeasureInduct
    <2> QED
      BY <2>3 DEF P
  <1>9. f \in [S -> V]
    <2>1. \A v \in S : f[v] \in V
      BY <1>3, <1>8
    <2> QED
      BY <1>7, <2>1
  <1> QED
    BY <1>7, <1>9 DEF f, Fun
--------------------------------------------------------------------------------
LEMMA ListType ==
  ASSUME NEW l \in Lists
  PROVE  /\ l \in Seq(Nodes) /\ Len(l) \in Nat /\ DOMAIN l = 1..Len(l)
         /\ \A k \in 1..Len(l) : l[k] \in Nodes /\ IsNode(l[k])
         /\ Size[l] \in Nat /\ Len(l) <= Size[l]
         /\ \A k \in 1..Len(l) : \A o \in Nested(l[k]) : Len(l) + Size[o] <= Size[l]
  <1>1. l \in Seq(Nodes)
    BY EvalAssumption
  <1>2. Len(l) \in Nat /\ DOMAIN l = 1..Len(l) /\ \A k \in 1..Len(l) : l[k] \in Nodes
    BY <1>1, LenProperties, ElementOfSeq
  <1>3. \A n \in Nodes : IsNode(n)
    BY EvalAssumption
  <1> QED
    BY <1>1, <1>2, <1>3, MeaningAssumption

LEMMA NestedType ==
  ASSUME NEW n \in Nodes
  PROVE  /\ Nested(n) \subseteq Lists
         /\ n.type = "filter" => Nested(n) = {n.left, n.right}
         /\ n.type = "union" => /\ n.members \in Seq(Lists)
                                /\ Len(n.members) \in Nat
                                /\ DOMAIN n.members = 1..Len(n.members)
                                /\ \A s \in 1..Len(n.members) :
                                       n.members[s] \in Lists /\ n.members[s] \in Nested(n)
  <1>1. IsNode(n)
    BY EvalAssumption
  <1>2. CASE n.type = "filter"
    BY <1>1, <1>2 DEF IsNode, Nested
  <1>3. CASE n.type = "union"
    <2>1. n.members \in Seq(Lists)
      BY <1>1, <1>3 DEF IsNode
    <2>2. DOMAIN n.members = 1..Len(n.members) /\ Len(n.members) \in Nat
          /\ \A s \in 1..Len(n.members) : n.members[s] \in Lists
      BY <2>1, LenProperties, ElementOfSeq
    <2>3. Nested(n) = Range(n.members)
      BY <1>3 DEF Nested
    <2> QED
      BY <1>3, <2>1, <2>2, <2>3 DEF Range
  <1>4. CASE n.type # "filter" /\ n.type # "union"
    BY <1>4 DEF Nested
  <1> QED
    BY <1>2, <1>3, <1>4

LEMMA MeansSame ==
  ASSUME NEW d, NEW M, NEW N, NEW n \in Nodes, NEW v,
         \A o \in Nested(n) : M[<<o, 1>>] = N[<<o, 1>>]
  PROVE  Means(d, M, n, v) = Means(d, N, n, v)
  <1>1. IsNode(n)
    BY EvalAssumption
  <1>2. CASE n.type = "filter"
    <2>1. M[<<n.left, 1>>] = N[<<n.left, 1>>] /\ M[<<n.right, 1>>] = N[<<n.right, 1>>]
      BY <1>2, NestedType
    <2>2. \A e : Test(d, M, n, e) = Test(d, N, n, e)
      BY <2>1 DEF Test
    <2>3. Tests(d, M, n) = Tests(d, N, n)
      BY <2>2 DEF Tests
    <2> QED
      BY <1>2, <2>3 DEF Means
  <1>3. CASE n.type = "union"
    <2>1. \A s \in DOMAIN n.members : M[<<n.members[s], 1>>] = N[<<n.members[s], 1>>]
      BY <1>3, NestedType
    <2>2. [s \in DOMAIN n.members |-> M[<<n.members[s], 1>>][v]]
          = [s \in DOMAIN n.members |-> N[<<n.members[s], 1>>][v]]
      BY <2>1
    <2> QED
      BY <1>3, <2>2 DEF Means
  <1>4. CASE n.type \notin {"filter", "union"}
    <2>1. CASE n.type = "field"
      BY <2>1 DEF Means
    <2>2. CASE n.type = "wildcard"
      BY <2>2 DEF Means
    <2>3. CASE n.type = "recursive"
      BY <2>3 DEF Means
    <2>4. CASE n.type = "array"
      BY <2>4 DEF Means
    <2>5. CASE n.type = "identifier"
      BY <2>5 DEF Means
    <2>6. CASE n.type \in {"text", "number"}
      BY <2>6 DEF Means
    <2> QED
      BY <1>1, <1>4, <2>1, <2>2, <2>3, <2>4, <2>5, <2>6 DEF IsNode
  <1> QED
    BY <1>2, <1>3, <1>4

LEMMA FollowSame ==
  ASSUME NEW d, NEW M, NEW N, NEW l \in Lists, NEW k \in Nat \ {0}, NEW v,
         M[<<l, k + 1>>] = N[<<l, k + 1>>],
         k <= Len(l) => \A o \in Nested(l[k]) : M[<<o, 1>>] = N[<<o, 1>>]
  PROVE  Follow(d, M, <<l, k>>, v) = Follow(d, N, <<l, k>>, v)
  <1>1. CASE k <= Len(l)
    <2>1. l[k] \in Nodes
      BY <1>1, ListType
    <2>2. Means(d, M, l[k], v) = Means(d, N, l[k], v)
      BY <1>1, <2>1, MeansSame
    <2> QED
      BY <2>2 DEF Follow
  <1>2. CASE ~(k <= Len(l))
    <2>1. k > Len(l)
      BY <1>2, ListType
    <2> QED
      BY <2>1 DEF Follow
  <1> QED
    BY <1>1, <1>2
--------------------------------------------------------------------------------
Order == [t \in Tails |-> IF t[2] > Len(t[1]) THEN 0 ELSE Size[t[1]] + 1 - t[2]]

LEMMA OrderType ==
  /\ Order \in [Tails -> Nat]
  /\ \A l \in Lists, k \in Nat \ {0} : <<l, k>> \in Tails
  /\ \A l \in Lists, k \in Nat \ {0} : k <= Len(l) =>
         /\ Order[<<l, k + 1>>] < Order[<<l, k>>]
         /\ \A o \in Nested(l[k]) : <<o, 1>> \in Tails /\ Order[<<o, 1>>] < Order[<<l, k>>]
  <1>1. \A l \in Lists, k \in Nat \ {0} :
            /\ <<l, k>> \in Tails
            /\ Order[<<l, k>>] = IF k > Len(l) THEN 0 ELSE Size[l] + 1 - k
    BY DEF Order, Tails
  <1>2. \A l \in Lists, k \in Nat \ {0} : Order[<<l, k>>] \in Nat
    <2> SUFFICES ASSUME NEW l \in Lists, NEW k \in Nat \ {0} PROVE Order[<<l, k>>] \in Nat
      OBVIOUS
    <2>1. Len(l) \in Nat /\ Size[l] \in Nat /\ Len(l) <= Size[l]
      BY ListType
    <2> QED
      BY <1>1, <2>1
  <1>3. Order \in [Tails -> Nat]
    <2>1. \A t \in Tails : Order[t] \in Nat
      BY <1>2 DEF Tails
    <2> QED
      BY <2>1 DEF Order
  <1>4. ASSUME NEW l \in Lists, NEW k \in Nat \ {0}, k <= Len(l)
        PROVE  /\ Order[<<l, k + 1>>] < Order[<<l, k>>]
               /\ \A o \in Nested(l[k]) : <<o, 1>> \in Tails /\ Order[<<o, 1>>] < Order[<<l, k>>]
    <2>1. Len(l) \in Nat /\ Size[l] \in Nat /\ Len(l) <= Size[l] /\ k \in 1..Len(l)
          /\ l[k] \in Nodes
      BY <1>4, ListType
    <2>2. Order[<<l, k>>] = Size[l] + 1 - k
      BY <1>1, <1>4, <2>1
    <2>3. Order[<<l, k + 1>>] < Order[<<l, k>>]
      <3>1. k + 1 \in Nat \ {0}
        OBVIOUS
      <3>2. Order[<<l, k + 1>>] = IF k + 1 > Len(l) THEN 0 ELSE Size[l] + 1 - (k + 1)
        BY <1>1, <3>1
      <3> QED
        BY <1>4, <2>1, <2>2, <3>2
    <2>4. ASSUME NEW o \in Nested(l[k])
          PROVE  <<o, 1>> \in Tails /\ Order[<<o, 1>>] < Order[<<l, k>>]
      <3>1. o \in Lists /\ Len(l) + Size[o] <= Size[l]
        BY <2>1, ListType, NestedType
      <3>2. Len(o) \in Nat /\ Size[o] \in Nat /\ 1 \in Nat \ {0}
        BY <3>1, ListType
      <3>3. <<o, 1>> \in Tails /\ Order[<<o, 1>>] = IF 1 > Len(o) THEN 0 ELSE Size[o] + 1 - 1
        BY <1>1, <3>1, <3>2
      <3> QED
        BY <1>4, <2>1, <2>2, <3>1, <3>2, <3>3
    <2> QED
      BY <2>3, <2>4
  <1> QED
    BY <1>1, <1>3, <1>4
--------------------------------------------------------------------------------
LEMMA FieldOfType ==
  ASSUME NEW d \in Documents, NEW v \in DOMAIN d, NEW name
  PROVE  FieldOf(d, v, name) \in Seq(DOMAIN d)
  <1>1. CASE name \in Range(d[v].kids)
    <2>1. PICK s \in DOMAIN d[v].kids : d[v].kids[s] = name
      BY <1>1 DEF Range
    <2>2. Append(v, name) \in DOMAIN d
      <3>1. s \in 1..Len(d[v].kids)
        BY <2>1, KidsType
      <3>2. Kids(d, v)[s] = Append(v, name) /\ Kids(d, v)[s] \in DOMAIN d
        BY <2>1, <3>1, KidsType
      <3> QED
        BY <3>2
    <2>3. <<Append(v, name)>> \in Seq(DOMAIN d) /\ <<>> \in Seq(DOMAIN d)
      BY <2>2
    <2> QED
      BY <2>3 DEF FieldOf
  <1>2. CASE name \notin Range(d[v].kids)
    BY <1>2, EmptySeq DEF FieldOf
  <1> QED
    BY <1>1, <1>2

LEMMA SubscriptedType ==
  ASSUME NEW d \in Documents, NEW v \in DOMAIN d, NEW p
  PROVE  Subscripted(d, p, v) \in Seq(Outcomes(d))
  <1> DEFINE n == Len(d[v].kids)
             ss == [s \in 1..n |-> IF Chosen(p, n, s) THEN <<Kids(d, v)[s]>> ELSE <<>>]
             O == Outcomes(d)
             U == Seq(O)
  <1>1. n \in Nat /\ \A s \in 1..n : Kids(d, v)[s] \in O
    BY KidsType, OutcomesType
  <1>2. Failure \in O
    BY OutcomesType
  <1>3. <<>> \in U /\ <<Failure>> \in U /\ \A s \in 1..n : <<Kids(d, v)[s]>> \in U
    BY <1>1, <1>2
  <1> HIDE DEF U, O
  <1>4. ss \in [1..n -> U]
    BY <1>3
  <1> HIDE DEF ss, n
  <1>5. ss \in Seq(U)
    BY <1>1, <1>4, SeqDef
  <1>6. FlattenSeq(ss) \in U
    BY <1>5, FlattenType DEF U
  <1>7. \/ Subscripted(d, p, v) = <<>>
        \/ Subscripted(d, p, v) = <<Failure>>
        \/ Subscripted(d, p, v) = FlattenSeq(ss)
    BY DEF Subscripted, ss, n
  <1>8. Subscripted(d, p, v) \in U
    BY <1>3, <1>6, <1>7
  <1> QED
    BY <1>8 DEF U, O

LEMMA TestType ==
  ASSUME NEW d \in Documents, NEW M, NEW n, NEW e \in DOMAIN d
  PROVE  /\ Test(d, M, n, e) \in {<<>>, <<e>>, <<Failure>>}
         /\ Test(d, M, n, e) \in Seq(Outcomes(d))
  <1>1. e \in Outcomes(d) /\ Failure \in Outcomes(d)
    BY OutcomesType
  <1>2. Test(d, M, n, e) \in {<<>>, <<e>>, <<Failure>>}
    BY DEF Test
  <1>3. <<>> \in Seq(Outcomes(d)) /\ <<e>> \in Seq(Outcomes(d)) /\ <<Failure>> \in Seq(Outcomes(d))
    BY <1>1
  <1> QED
    BY <1>2, <1>3

LEMMA TestsType ==
  ASSUME NEW d \in Documents, NEW M, NEW n
  PROVE  Fun(Tests(d, M, n), DOMAIN d, Seq(Outcomes(d)))
  <1>1. \A e \in DOMAIN d : Test(d, M, n, e) \in Seq(Outcomes(d))
    BY TestType
  <1> QED
    BY <1>1 DEF Tests, Fun

(* What a list of nodes denotes, as a type.                                    *)
Meanings(d) == [Outcomes(d) -> Seq(Outcomes(d))]

LEMMA MeansType ==
  ASSUME NEW d \in Documents, NEW M, Fun(M, Tails, Meanings(d)), NEW n \in Nodes,
         NEW v \in DOMAIN d
  PROVE  Means(d, M, n, v) \in Seq(Outcomes(d))
  <1> DEFINE O == Outcomes(d)
             U == Seq(O)
  <1>1. IsNode(n)
    BY EvalAssumption
  <1>2. v \in O /\ Failure \in O /\ DOMAIN d \subseteq O /\ Seq(DOMAIN d) \subseteq U
    BY OutcomesType
  <1>3. <<Failure>> \in U /\ \A x \in O : <<x>> \in U
    BY <1>2
  <1> HIDE DEF U
  <1>4. CASE n.type = "field"
    <2>1. FieldOf(d, v, n.name) \in U
      BY <1>2, FieldOfType
    <2> QED
      BY <1>4, <2>1 DEF Means, U
  <1>5. CASE n.type = "wildcard"
    <2>1. Kids(d, v) \in U
      BY <1>2, KidsType
    <2> QED
      BY <1>5, <2>1 DEF Means, U
  <1>6. CASE n.type = "recursive"
    <2>1. Descent(d)[v] \in U
      BY <1>2, DescentType DEF Fun
    <2> QED
      BY <1>6, <2>1 DEF Means, U
  <1>7. CASE n.type = "array"
    <2>1. Subscripted(d, n.params, v) \in U
      BY SubscriptedType DEF U
    <2> QED
      BY <1>7, <2>1 DEF Means, U
  <1>8. CASE n.type = "filter"
    <2>1. Each(Tests(d, M, n), Kids(d, v)) \in U
      <3>1. Kids(d, v) \in Seq(DOMAIN d)
        BY KidsType
      <3> QED
        BY <3>1, TestsType, EachType DEF U
    <2>2. Means(d, M, n, v) = <<Failure>> \/ Means(d, M, n, v) = Each(Tests(d, M, n), Kids(d, v))
      BY <1>8 DEF Means
    <2> QED
      BY <1>3, <2>1, <2>2 DEF U
  <1>9. CASE n.type = "union"
    <2> DEFINE ss == [s \in DOMAIN n.members |-> M[<<n.members[s], 1>>][v]]
    <2>1. n.members \in Seq(Lists) /\ Len(n.members) \in Nat
          /\ DOMAIN n.members = 1..Len(n.members)
          /\ \A s \in 1..Len(n.members) : n.members[s] \in Lists
      BY <1>9, NestedType
    <2>2. \A s \in 1..Len(n.members) : <<n.members[s], 1>> \in Tails
      BY <2>1 DEF Tails
    <2>3. \A s \in 1..Len(n.members) : M[<<n.members[s], 1>>][v] \in U
      BY <1>2, <2>2 DEF Fun, Meanings, U
    <2>4. ss \in [1..Len(n.members) -> U]
      BY <2>1, <2>3
    <2>5. ss \in Seq(U)
      BY <2>1, <2>4, SeqDef
    <2>6. FlattenSeq(ss) \in U
      BY <2>5, FlattenType DEF U
    <2>7. Means(d, M, n, v) = FlattenSeq(ss)
      BY <1>9 DEF Means
    <2> QED
      BY <2>6, <2>7 DEF U
  <1>10. CASE n.type = "identifier"
    BY <1>3, <1>10 DEF Means, U
  <1>11. CASE n.type \in {"text", "number"}
    <2>1. n.lit \in O
      BY <1>1, <1>2, <1>11 DEF IsNode
    <2>2. Means(d, M, n, v) = <<n.lit>>
      BY <1>11 DEF Means
    <2> QED
      BY <1>3, <2>1, <2>2 DEF U
  <1> QED
    BY <1>1, <1>4, <1>5, <1>6, <1>7, <1>8, <1>9, <1>10, <1>11 DEF IsNode

LEMMA FollowType ==
  ASSUME NEW d \in Documents, NEW M, Fun(M, Tails, Meanings(d)), NEW t \in Tails,
         NEW v \in Outcomes(d)
  PROVE  Follow(d, M, t, v) \in Seq(Outcomes(d))
  <1>1. PICK l \in Lists, k \in Nat \ {0} : t = <<l, k>>
    BY DEF Tails
  <1>2. t[1] = l /\ t[2] = k
    BY <1>1
  <1>3. CASE v = Failure
    BY <1>3 DEF Follow
  <1>4. CASE v # Failure /\ t[2] > Len(t[1])
    BY <1>4 DEF Follow
  <1>5. CASE v # Failure /\ ~(t[2] > Len(t[1]))
    <2>1. v \in DOMAIN d
      BY <1>5 DEF Outcomes
    <2>2. Len(l) \in Nat
      BY ListType
    <2>3. k \in 1..Len(l)
      BY <1>2, <1>5, <2>2
    <2>4. l[k] \in Nodes
      BY <2>3, ListType
    <2> DEFINE u == Means(d, M, l[k], v)
    <2>5. u \in Seq(Outcomes(d))
      BY <2>1, <2>4, MeansType
    <2>6. <<l, k + 1>> \in Tails
      BY DEF Tails
    <2>7. Fun(M[<<l, k + 1>>], Outcomes(d), Seq(Outcomes(d)))
      BY <2>6 DEF Fun, Meanings
    <2> HIDE DEF u
    <2>8. Each(M[<<l, k + 1>>], u) \in Seq(Outcomes(d))
      BY <2>5, <2>7, EachType
    <2>9. Follow(d, M, t, v) = Each(M[<<l, k + 1>>], u)
      BY <1>2, <1>5 DEF Follow, u
    <2> QED
      BY <2>8, <2>9
  <1> QED
    BY <1>3, <1>4, <1>5

LEMMA DenotedType ==
  ASSUME NEW d \in Documents
  PROVE  /\ Fun(Denoted(d), Tails, Meanings(d))
         /\ \A t \in Tails, v \in Outcomes(d) : Denoted(d)[t][v] = Follow(d, Denoted(d), t, v)
  <1> DEFINE S == Tails
             V == Meanings(d)
             O == Outcomes(d)
             Step(M, t) == [v \in O |-> Follow(d, M, t, v)]
             F == [x \in [S -> V] \X S |-> Step(x[1], x[2])]
             m == Order
  <1>1. m \in [S -> Nat]
    BY OrderType
  <1>2. ASSUME NEW t \in S, NEW g, NEW h, \A y \in S : m[y] < m[t] => g[y] = h[y]
        PROVE  Step(g, t) = Step(h, t)
    <2>1. PICK l \in Lists, k \in Nat \ {0} : t = <<l, k>>
      BY DEF Tails
    <2>2. ASSUME NEW v PROVE Follow(d, g, t, v) = Follow(d, h, t, v)
      <3>1. CASE k <= Len(l)
        <4>1. g[<<l, k + 1>>] = h[<<l, k + 1>>]
          <5>1. k + 1 \in Nat \ {0}
            OBVIOUS
          <5> QED
            BY <1>2, <2>1, <3>1, <5>1, OrderType
        <4>2. \A o \in Nested(l[k]) : g[<<o, 1>>] = h[<<o, 1>>]
          BY <1>2, <2>1, <3>1, OrderType
        <4> QED
          BY <2>1, <4>1, <4>2, FollowSame
      <3>2. CASE ~(k <= Len(l))
        <4>1. k > Len(l)
          BY <3>2, ListType
        <4> QED
          BY <2>1, <4>1 DEF Follow
      <3> QED
        BY <3>1, <3>2
    <2> QED
      BY <2>2
  <1>3. PICK g \in [S -> V] : \A t \in S : g[t] = Step(g, t)
    <2>1. V # {}
      <3>1. [v \in O |-> <<>>] \in V
        BY EmptySeq DEF Meanings
      <3> QED
        BY <3>1
    <2>2. \A g \in [S -> V], t \in S : Step(g, t) \in V
      BY FollowType DEF Fun, Meanings
    <2> HIDE DEF V, Step
    <2>3. \A g \in [S -> V], t \in S : F[<<g, t>>] = Step(g, t)
      OBVIOUS
    <2>4. F \in [[S -> V] \X S -> V]
      BY <2>2
    <2> HIDE DEF F, S, m
    <2>5. \A g, h \in [S -> V], x \in S :
             (\A y \in S : m[y] < m[x] => g[y] = h[y]) => F[<<g, x>>] = F[<<h, x>>]
      BY <1>2, <2>3
    <2>6. Descends(F, S, V, m)
      BY <1>1, <2>4, <2>5 DEF Descends
    <2>7. \E g \in [S -> V] : \A x \in S : g[x] = F[<<g, x>>]
      BY ONLY <2>1, <2>6, Recursion, SMTT(30)
    <2> QED
      BY <2>3, <2>7
  <1> DEFINE Is(f) == f = [t \in Tails |-> [v \in Outcomes(d) |-> Follow(d, f, t, v)]]
  <1>4. Is(g)
    BY <1>3
  <1>5. Denoted(d) = CHOOSE f : Is(f)
    BY DEF Denoted
  <1>6. Is(Denoted(d))
    <2> HIDE DEF Is
    <2> QED
      BY <1>4, <1>5
  <1> DEFINE f == Denoted(d)
  <1>7. f = [t \in S |-> f[t]] /\ \A t \in S : f[t] = Step(f, t)
    BY <1>6
  <1> HIDE DEF f
  <1>8. \A t \in S : f[t] = g[t]
    <2> DEFINE P == {t \in S : f[t] = g[t]}
    <2> HIDE DEF Step, m
    <2>1. ASSUME NEW x \in S, \A y \in S : m[y] < m[x] => y \in P PROVE x \in P
      <3>1. \A y \in S : m[y] < m[x] => f[y] = g[y]
        BY <2>1
      <3>2. Step(f, x) = Step(g, x)
        BY <1>2, <3>1
      <3> QED
        BY <1>3, <1>7, <3>2
    <2> HIDE DEF P, S
    <2>2. Carries(P, S, m)
      BY <2>1 DEF Carries
    <2>3. S \subseteq P
      BY <1>1, <2>2, MeasureInduct
    <2> QED
      BY <2>3 DEF P
  <1>9. f \in [S -> V]
    <2> HIDE DEF V
    <2>1. \A t \in S : f[t] \in V
      BY <1>3, <1>8
    <2> QED
      BY <1>7, <2>1
  <1>10. \A t \in S, v \in O : f[t][v] = Follow(d, f, t, v)
    BY <1>7
  <1> QED
    BY <1>9, <1>10 DEF f, Fun
--------------------------------------------------------------------------------
(* What has been found, x, against what is denoted, g: nothing more, unless a  *)
(* failure is denoted, and nothing less, unless c; the same sequence if e.     *)
Meets(c, e, x, g) ==
    /\ Fails(g) \/ Within(x, g)
    /\ ~c => Within(x, g) /\ Within(g, x) /\ (e => x = g)

LEMMA FailsConcat ==
  ASSUME NEW S, NEW x \in Seq(S), NEW y \in Seq(S)
  PROVE  Fails(x \o y) <=> Fails(x) \/ Fails(y)
  <1>1. /\ x \o y \in Seq(S) /\ Count(x \o y, Failure) = Count(x, Failure) + Count(y, Failure)
        /\ Count(x, Failure) \in Nat /\ Count(y, Failure) \in Nat
    BY ConcatProperties, CountConcat, CountType
  <1>2. /\ Fails(x) <=> Count(x, Failure) > 0
        /\ Fails(y) <=> Count(y, Failure) > 0
        /\ Fails(x \o y) <=> Count(x \o y, Failure) > 0
    BY <1>1, CountRange DEF Fails
  <1> QED
    BY <1>1, <1>2

LEMMA FailsOne == \A x : Fails(<<x>>) <=> x = Failure
  <1> SUFFICES ASSUME NEW x PROVE Fails(<<x>>) <=> x = Failure
    OBVIOUS
  <1>1. DOMAIN <<x>> = {1} /\ <<x>>[1] = x
    OBVIOUS
  <1> QED
    BY <1>1 DEF Fails, Range

LEMMA FailsEmpty == ~Fails(<<>>)
  BY DEF Fails, Range

(* A function that keeps failures.                                             *)
Keeps(F) == Fails(F[Failure])

LEMMA FailsEach ==
  ASSUME NEW S, NEW T, NEW F, Fun(F, S, Seq(T)), Keeps(F), NEW x \in Seq(S), Fails(x)
  PROVE  Fails(Each(F, x))
  <1>a. \A u, w \in Seq(S) : Each(F, u \o w) = Each(F, u) \o Each(F, w)
    BY EachConcat
  <1>b. \A u \in Seq(S) : Each(F, u) \in Seq(T)
    BY EachType
  <1>1. Failure \in S /\ \E p, q \in Seq(S) : x = Around(p, Failure, q)
    BY SplitAt DEF Fails
  <1>2. PICK p \in Seq(S), q \in Seq(S) : x = Around(p, Failure, q)
    BY <1>1
  <1> DEFINE h == <<Failure>>
             r == h \o q
  <1>3. h \in Seq(S) /\ Each(F, h) = F[Failure]
    BY <1>1, EachOne
  <1>4. r \in Seq(S) /\ x = p \o r
    <2>1. x = p \o r
      BY <1>2 DEF Around
    <2> HIDE DEF h
    <2> QED
      BY <1>3, <2>1, ConcatProperties
  <1> HIDE DEF h
  <1>5. Each(F, r) = Each(F, h) \o Each(F, q) /\ Each(F, h) \in Seq(T) /\ Each(F, q) \in Seq(T)
    BY <1>a, <1>b, <1>3
  <1>6. Fails(Each(F, r))
    <2>1. Fails(Each(F, h))
      BY <1>3 DEF Keeps
    <2>2. Fails(Each(F, h) \o Each(F, q))
      BY <1>5, <2>1, FailsConcat
    <2> QED
      BY <1>5, <2>2
  <1> HIDE DEF r
  <1>7. Each(F, x) = Each(F, p) \o Each(F, r) /\ Each(F, p) \in Seq(T) /\ Each(F, r) \in Seq(T)
    BY <1>a, <1>b, <1>4
  <1>8. Fails(Each(F, p) \o Each(F, r))
    BY <1>6, <1>7, FailsConcat
  <1> QED
    BY <1>7, <1>8

LEMMA FailsWithin ==
  ASSUME NEW S, NEW x \in Seq(S), NEW y \in Seq(S), Within(x, y), Fails(x)
  PROVE  Fails(y)
  BY WithinRange DEF Fails

LEMMA MeetsRefl ==
  ASSUME NEW S, NEW x \in Seq(S), NEW c, NEW e
  PROVE  Meets(c, e, x, x)
  BY WithinRefl DEF Meets

LEMMA MeetsFails ==
  ASSUME NEW S, NEW x \in Seq(S), NEW g \in Seq(S), NEW c, NEW e, Meets(c, e, x, g), Fails(x)
  PROVE  Fails(g)
  BY FailsWithin DEF Meets

LEMMA MeetsTrans ==
  ASSUME NEW S, NEW x \in Seq(S), NEW y \in Seq(S), NEW g \in Seq(S), NEW c, NEW e,
         Meets(c, e, x, y), Meets(c, e, y, g)
  PROVE  Meets(c, e, x, g)
  <1>1. Fails(g) \/ Within(x, g)
    <2>1. Within(x, y) /\ Within(y, g) => Within(x, g)
      BY WithinTrans
    <2>2. Within(y, g) /\ Fails(y) => Fails(g)
      BY FailsWithin
    <2> QED
      BY <2>1, <2>2 DEF Meets
  <1>2. ASSUME ~c PROVE Within(x, g) /\ Within(g, x) /\ (e => x = g)
    <2>1. Within(x, y) /\ Within(y, x) /\ (e => x = y)
      BY <1>2 DEF Meets
    <2>2. Within(y, g) /\ Within(g, y) /\ (e => y = g)
      BY <1>2 DEF Meets
    <2>3. Within(x, g)
      BY <2>1, <2>2, WithinTrans
    <2>4. Within(g, x)
      BY <2>1, <2>2, WithinTrans
    <2> QED
      BY <2>1, <2>2, <2>3, <2>4
  <1> QED
    BY <1>1, <1>2 DEF Meets

LEMMA MeetsWeaker ==
  ASSUME NEW x, NEW g, NEW b, NEW c, NEW e, NEW f, Meets(b, e, x, g), b => c, f => e
  PROVE  Meets(c, f, x, g)
  BY DEF Meets

LEMMA MeetsConcat ==
  ASSUME NEW S, NEW x \in Seq(S), NEW y \in Seq(S), NEW g \in Seq(S), NEW h \in Seq(S),
         NEW c, NEW e, Meets(c, e, x, g), Meets(c, e, y, h)
  PROVE  Meets(c, e, x \o y, g \o h)
  <1>1. Fails(g \o h) \/ Within(x \o y, g \o h)
    <2>1. CASE Fails(g) \/ Fails(h)
      BY <2>1, FailsConcat
    <2>2. CASE ~(Fails(g) \/ Fails(h))
      <3>1. Within(x, g) /\ Within(y, h)
        BY <2>2 DEF Meets
      <3> QED
        BY <3>1, WithinConcat
    <2> QED
      BY <2>1, <2>2
  <1>2. ASSUME ~c
        PROVE  Within(x \o y, g \o h) /\ Within(g \o h, x \o y) /\ (e => x \o y = g \o h)
    <2>1. Within(x, g) /\ Within(g, x) /\ (e => x = g)
      BY <1>2 DEF Meets
    <2>2. Within(y, h) /\ Within(h, y) /\ (e => y = h)
      BY <1>2 DEF Meets
    <2>3. Within(x \o y, g \o h)
      BY <2>1, <2>2, WithinConcat
    <2>4. Within(g \o h, x \o y)
      BY <2>1, <2>2, WithinConcat
    <2>5. e => x \o y = g \o h
      BY <2>1, <2>2
    <2> QED
      BY <2>3, <2>4, <2>5
  <1> QED
    BY <1>1, <1>2 DEF Meets

LEMMA MeetsEach ==
  ASSUME NEW S, NEW T, NEW F, Fun(F, S, Seq(T)), Keeps(F), NEW x \in Seq(S), NEW g \in Seq(S),
         NEW c, NEW e, Meets(c, e, x, g)
  PROVE  Meets(c, e, Each(F, x), Each(F, g))
  <1>1. Fails(Each(F, g)) \/ Within(Each(F, x), Each(F, g))
    <2>1. CASE Fails(g)
      BY <2>1, FailsEach
    <2>2. CASE ~Fails(g)
      <3>1. Within(x, g)
        BY <2>2 DEF Meets
      <3> QED
        BY <3>1, WithinEach
    <2> QED
      BY <2>1, <2>2
  <1>2. ASSUME ~c
        PROVE  /\ Within(Each(F, x), Each(F, g)) /\ Within(Each(F, g), Each(F, x))
               /\ e => Each(F, x) = Each(F, g)
    <2>1. Within(x, g) /\ Within(g, x) /\ (e => x = g)
      BY <1>2 DEF Meets
    <2>2. Within(Each(F, x), Each(F, g))
      BY <2>1, WithinEach
    <2>3. Within(Each(F, g), Each(F, x))
      BY <2>1, WithinEach
    <2> QED
      BY <2>1, <2>2, <2>3
  <1> QED
    BY <1>1, <1>2 DEF Meets

(* One value against what is denoted.                                          *)
LEMMA MeetsOne ==
  ASSUME NEW S, NEW x \in S, NEW g \in Seq(S), NEW c, NEW e, Meets(c, e, <<x>>, g)
  PROVE  g = <<x>> \/ (c /\ (Fails(g) \/ Len(g) > 1))
  <1> DEFINE h == <<x>>
  <1>1. h \in Seq(S) /\ Len(h) = 1 /\ Meets(c, e, h, g) /\ Len(g) \in Nat /\ Range(h) = {x}
    BY LenProperties DEF Range
  <1> HIDE DEF h
  <1>2. CASE Within(h, g)
    <2>1. Len(h) <= Len(g) /\ x \in Range(g)
      BY <1>1, <1>2, WithinLen, WithinRange
    <2>2. CASE Len(g) = 1
      <3>1. g[1] = x
        <4>1. PICK i \in DOMAIN g : g[i] = x
          BY <2>1 DEF Range
        <4>2. i = 1
          BY <2>2, <4>1, LenProperties
        <4> QED
          BY <4>1, <4>2
      <3>2. g = <<x>>
        BY <2>2, <3>1
      <3> QED
        BY <3>2
    <2>3. CASE Len(g) > 1 /\ ~c
      <3>1. Within(g, h)
        BY <1>1, <2>3 DEF Meets
      <3>2. Len(g) <= Len(h)
        BY <1>1, <3>1, WithinLen
      <3> QED
        BY <1>1, <2>3, <3>2
    <2> QED
      BY <1>1, <2>1, <2>2, <2>3
  <1>3. CASE ~Within(h, g)
    BY <1>1, <1>3 DEF Meets
  <1> QED
    BY <1>2, <1>3

LEMMA MeetsEmpty ==
  ASSUME NEW S, NEW g \in Seq(S), NEW c, NEW e
  PROVE  /\ Meets(TRUE, e, <<>>, g)
         /\ Meets(c, e, <<>>, g) => c \/ g = <<>>
         /\ Meets(c, e, g, <<>>) => c \/ g = <<>>
  <1>1. Within(<<>>, g) /\ (Within(g, <<>>) => g = <<>>)
    BY WithinEmpty
  <1> QED
    BY <1>1 DEF Meets
--------------------------------------------------------------------------------
(* What the rest of a list of nodes denotes for a sequence of outcomes.        *)
Of(d, l, k) == [v \in Outcomes(d) |-> IF v = Failure THEN <<Failure>>
                                      ELSE Means(d, Denoted(d), l[k], v)]

Rest(d, l, k, x) == Each(Denoted(d)[<<l, k>>], x)

LEMMA EachItself ==
  ASSUME NEW S, NEW F, Fun(F, S, Seq(S)), \A v \in S : F[v] = <<v>>, NEW x \in Seq(S)
  PROVE  Each(F, x) = x
  <1> DEFINE P == {u \in Seq(S) : Each(F, u) = u}
  <1>1. <<>> \in P
    BY EmptySeq, EachEmpty
  <1>2. ASSUME NEW u \in Seq(S), NEW v \in S, u \in P PROVE Append(u, v) \in P
    <2>1. Each(F, Append(u, v)) = Each(F, u) \o F[v]
      BY EachAppend
    <2>2. u \o <<v>> = Append(u, v) /\ Append(u, v) \in Seq(S)
      OBVIOUS
    <2> QED
      BY <1>2, <2>1, <2>2
  <1> HIDE DEF P
  <1>3. Seq(S) \subseteq P
    BY <1>1, <1>2, SeqInduct
  <1> QED
    BY <1>3 DEF P

LEMMA EachNone ==
  ASSUME NEW S, NEW T, NEW F, Fun(F, S, Seq(T)), NEW x \in Seq(S), \A v \in S : F[v] = <<>>
  PROVE  Each(F, x) = <<>>
  <1> DEFINE P == {u \in Seq(S) : Each(F, u) = <<>>}
  <1>1. <<>> \in P
    BY EmptySeq, EachEmpty
  <1>2. ASSUME NEW u \in Seq(S), NEW v \in S, u \in P PROVE Append(u, v) \in P
    <2>1. Each(F, Append(u, v)) = Each(F, u) \o F[v]
      BY EachAppend
    <2>2. <<>> \o <<>> = <<>> /\ Append(u, v) \in Seq(S)
      OBVIOUS
    <2>3. Each(F, Append(u, v)) = <<>>
      BY <1>2, <2>1, <2>2
    <2> QED
      BY <2>2, <2>3
  <1> HIDE DEF P
  <1>3. Seq(S) \subseteq P
    BY <1>1, <1>2, SeqInduct
  <1> QED
    BY <1>3 DEF P

LEMMA OfType ==
  ASSUME NEW d \in Documents, NEW l \in Lists, NEW k \in 1..Len(l)
  PROVE  Fun(Of(d, l, k), Outcomes(d), Seq(Outcomes(d))) /\ Keeps(Of(d, l, k))
  <1>1. Failure \in Outcomes(d) /\ Fun(Denoted(d), Tails, Meanings(d)) /\ l[k] \in Nodes
    BY OutcomesType, DenotedType, ListType
  <1>2. ASSUME NEW v \in Outcomes(d) PROVE Of(d, l, k)[v] \in Seq(Outcomes(d))
    <2>1. CASE v = Failure
      BY <1>1, <2>1 DEF Of
    <2>2. CASE v # Failure
      <3>1. v \in DOMAIN d
        BY <2>2 DEF Outcomes
      <3>2. Means(d, Denoted(d), l[k], v) \in Seq(Outcomes(d))
        BY <1>1, <3>1, MeansType
      <3> QED
        BY <2>2, <3>2 DEF Of
    <2> QED
      BY <2>1, <2>2
  <1>3. Of(d, l, k)[Failure] = <<Failure>>
    BY <1>1 DEF Of
  <1>4. Keeps(Of(d, l, k))
    BY <1>3, FailsOne DEF Keeps
  <1>5. Of(d, l, k) = [v \in Outcomes(d) |-> Of(d, l, k)[v]]
    BY DEF Of
  <1> HIDE DEF Of
  <1> QED
    BY <1>2, <1>4, <1>5 DEF Fun

LEMMA DenotedOne ==
  ASSUME NEW d \in Documents, NEW l \in Lists, NEW k \in Nat \ {0}
  PROVE  /\ Fun(Denoted(d)[<<l, k>>], Outcomes(d), Seq(Outcomes(d)))
         /\ Keeps(Denoted(d)[<<l, k>>])
         /\ Denoted(d)[<<l, k>>][Failure] = <<Failure>>
         /\ \A v \in DOMAIN d : Denoted(d)[<<l, k>>][v] \in Seq(Outcomes(d))
         /\ k > Len(l) => \A v \in Outcomes(d) : Denoted(d)[<<l, k>>][v] = <<v>>
  <1>1. <<l, k>> \in Tails /\ Failure \in Outcomes(d) /\ DOMAIN d \subseteq Outcomes(d)
    BY OutcomesType DEF Tails
  <1>2. Fun(Denoted(d)[<<l, k>>], Outcomes(d), Seq(Outcomes(d)))
    BY <1>1, DenotedType DEF Fun, Meanings
  <1>3. \A v \in Outcomes(d) : Denoted(d)[<<l, k>>][v] = Follow(d, Denoted(d), <<l, k>>, v)
    BY <1>1, DenotedType
  <1>4. Denoted(d)[<<l, k>>][Failure] = <<Failure>>
    BY <1>1, <1>3 DEF Follow
  <1>5. Keeps(Denoted(d)[<<l, k>>])
    BY <1>4, FailsOne DEF Keeps
  <1>6. ASSUME k > Len(l), NEW v \in Outcomes(d) PROVE Denoted(d)[<<l, k>>][v] = <<v>>
    BY <1>3, <1>6 DEF Follow
  <1>7. \A v \in DOMAIN d : Denoted(d)[<<l, k>>][v] \in Seq(Outcomes(d))
    BY <1>1, <1>2 DEF Fun
  <1> QED
    BY <1>2, <1>4, <1>5, <1>6, <1>7

LEMMA RestType ==
  ASSUME NEW d \in Documents, NEW l \in Lists, NEW k \in Nat \ {0}, NEW x \in Seq(Outcomes(d))
  PROVE  Rest(d, l, k, x) \in Seq(Outcomes(d))
  BY DenotedOne, EachType DEF Rest

LEMMA RestMeets ==
  ASSUME NEW d \in Documents, NEW l \in Lists, NEW k \in Nat \ {0},
         NEW x \in Seq(Outcomes(d)), NEW g \in Seq(Outcomes(d)), NEW c, NEW e, Meets(c, e, x, g)
  PROVE  Meets(c, e, Rest(d, l, k, x), Rest(d, l, k, g))
  BY DenotedOne, MeetsEach DEF Rest

LEMMA RestFails ==
  ASSUME NEW d \in Documents, NEW l \in Lists, NEW k \in Nat \ {0},
         NEW x \in Seq(Outcomes(d)), Fails(x)
  PROVE  Fails(Rest(d, l, k, x))
  BY DenotedOne, FailsEach DEF Rest

LEMMA RestEnd ==
  ASSUME NEW d \in Documents, NEW l \in Lists, NEW k \in Nat \ {0}, k > Len(l),
         NEW x \in Seq(Outcomes(d))
  PROVE  Rest(d, l, k, x) = x
  <1> DEFINE F == Denoted(d)[<<l, k>>]
             O == Outcomes(d)
  <1>1. Fun(F, O, Seq(O)) /\ x \in Seq(O) /\ \A v \in O : F[v] = <<v>>
    BY DenotedOne
  <1> HIDE DEF F, O
  <1>2. Each(F, x) = x
    BY <1>1, EachItself
  <1> QED
    BY <1>2 DEF F, Rest

LEMMA RestEmpty == \A d, l, k : Rest(d, l, k, <<>>) = <<>>
  BY EachEmpty DEF Rest

LEMMA RestOne ==
  ASSUME NEW d \in Documents, NEW l \in Lists, NEW k \in Nat \ {0}, NEW v \in DOMAIN d
  PROVE  Rest(d, l, k, <<v>>) = Denoted(d)[<<l, k>>][v]
  <1>1. v \in Outcomes(d)
    BY OutcomesType
  <1> QED
    BY <1>1, DenotedOne, EachOne DEF Rest

LEMMA RestNext ==
  ASSUME NEW d \in Documents, NEW l \in Lists, NEW k \in 1..Len(l), NEW x \in Seq(Outcomes(d))
  PROVE  /\ Rest(d, l, k, x) = Rest(d, l, k + 1, Each(Of(d, l, k), x))
         /\ Each(Of(d, l, k), x) \in Seq(Outcomes(d))
  <1> DEFINE O == Outcomes(d)
             F == Of(d, l, k)
             G == Denoted(d)[<<l, k + 1>>]
             H == Denoted(d)[<<l, k>>]
  <1>0. Len(l) \in Nat
    BY ListType
  <1>1. k \in Nat \ {0} /\ k + 1 \in Nat \ {0} /\ <<l, k>> \in Tails /\ ~(k > Len(l))
    BY <1>0 DEF Tails
  <1>2. Fun(F, O, Seq(O)) /\ Fun(G, O, Seq(O)) /\ Fun(H, O, Seq(O))
        /\ H[Failure] = <<Failure>> /\ G[Failure] = <<Failure>>
    BY <1>1, OfType, DenotedOne
  <1>3. ASSUME NEW v \in O PROVE H[v] = Each(G, F[v])
    <2>1. CASE v = Failure
      <3>1. Each(G, <<Failure>>) = G[Failure]
        BY <1>2, <2>1, EachOne
      <3>2. F[v] = <<Failure>>
        BY <2>1 DEF Of
      <3> HIDE DEF G, H, F
      <3> QED
        BY <1>2, <2>1, <3>1, <3>2
    <2>2. CASE v # Failure
      <3>1. H[v] = Follow(d, Denoted(d), <<l, k>>, v)
        BY <1>1, DenotedType
      <3>2. F[v] = Means(d, Denoted(d), l[k], v)
        BY <2>2 DEF Of
      <3>3. Follow(d, Denoted(d), <<l, k>>, v) = Each(G, Means(d, Denoted(d), l[k], v))
        BY <1>1, <2>2 DEF Follow
      <3> HIDE DEF G, H, F
      <3> QED
        BY <3>1, <3>2, <3>3
    <2> QED
      BY <2>1, <2>2
  <1>4. Each(F, x) \in Seq(O)
    BY <1>2, EachType
  <1> HIDE DEF G, H, F, O
  <1>5. x \in Seq(O)
    BY DEF O
  <1>6. Each(G, Each(F, x)) = Each(H, x)
    BY <1>2, <1>3, <1>5, EachEach
  <1> QED
    BY <1>4, <1>6 DEF F, G, H, O, Rest
--------------------------------------------------------------------------------
(* A union takes its input member by member, its meaning value by value: the   *)
(* same values, in another order.                                              *)
Joins(F, A, B, S, T) == /\ Fun(A, S, Seq(T)) /\ Fun(B, S, Seq(T)) /\ Fun(F, S, Seq(T))
                        /\ \A o \in S : F[o] = A[o] \o B[o]

LEMMA SumEach ==
  ASSUME NEW S, NEW T, NEW A, NEW B, NEW F, Joins(F, A, B, S, T), NEW s \in Seq(S), NEW w
  PROVE  Count(Each(F, s), w) = Count(Each(A, s), w) + Count(Each(B, s), w)
  <1> USE DEF Joins
  <1> DEFINE P == {u \in Seq(S) : Count(Each(F, u), w) = Count(Each(A, u), w) + Count(Each(B, u), w)}
  <1>1. <<>> \in P
    <2> DEFINE e == <<>>
    <2>1. e \in Seq(S) /\ Each(F, e) = e /\ Each(A, e) = e /\ Each(B, e) = e /\ Count(e, w) = 0
      BY EmptySeq, EachEmpty, CountEmpty
    <2> HIDE DEF e
    <2>2. e \in P
      BY <2>1
    <2> QED
      BY <2>2 DEF e
  <1>2. ASSUME NEW u \in Seq(S), NEW o \in S, u \in P PROVE Append(u, o) \in P
    <2> DEFINE q == Append(u, o)
               a == Each(A, u)
               b == Each(B, u)
               f == Each(F, u)
               x == A[o]
               y == B[o]
               z == F[o]
    <2>1. q \in Seq(S)
      BY AppendProperties
    <2>2. Each(A, q) = a \o x /\ a \in Seq(T) /\ x \in Seq(T)
      <3>1. Each(A, Append(u, o)) = Each(A, u) \o A[o]
        BY EachAppend
      <3>2. Each(A, u) \in Seq(T)
        BY EachType
      <3>3. A[o] \in Seq(T)
        BY DEF Fun
      <3> QED
        BY <3>1, <3>2, <3>3
    <2>3. Each(B, q) = b \o y /\ b \in Seq(T) /\ y \in Seq(T)
      <3>1. Each(B, Append(u, o)) = Each(B, u) \o B[o]
        BY EachAppend
      <3>2. Each(B, u) \in Seq(T)
        BY EachType
      <3>3. B[o] \in Seq(T)
        BY DEF Fun
      <3> QED
        BY <3>1, <3>2, <3>3
    <2>4. Each(F, q) = f \o z /\ f \in Seq(T) /\ z \in Seq(T)
      <3>1. Each(F, Append(u, o)) = Each(F, u) \o F[o]
        BY EachAppend
      <3>2. Each(F, u) \in Seq(T)
        BY EachType
      <3>3. F[o] \in Seq(T)
        BY DEF Fun
      <3> QED
        BY <3>1, <3>2, <3>3
    <2>5. z = x \o y
      OBVIOUS
    <2>6. Count(f, w) = Count(a, w) + Count(b, w)
      BY <1>2
    <2> HIDE DEF q, a, b, f, x, y, z
    <2>7. Count(a \o x, w) = Count(a, w) + Count(x, w)
      BY <2>2, CountConcat
    <2>8. Count(b \o y, w) = Count(b, w) + Count(y, w)
      BY <2>3, CountConcat
    <2>9. Count(f \o z, w) = Count(f, w) + Count(z, w)
      BY <2>4, CountConcat
    <2>10. Count(z, w) = Count(x, w) + Count(y, w)
      BY <2>2, <2>3, <2>5, CountConcat
    <2>11. /\ Count(a, w) \in Nat /\ Count(b, w) \in Nat /\ Count(x, w) \in Nat
           /\ Count(y, w) \in Nat
      BY <2>2, <2>3, CountType
    <2>12. Count(Each(F, q), w) = Count(Each(A, q), w) + Count(Each(B, q), w)
      BY <2>2, <2>3, <2>4, <2>6, <2>7, <2>8, <2>9, <2>10, <2>11
    <2> QED
      BY <2>1, <2>12 DEF q
  <1> HIDE DEF P
  <1>3. Seq(S) \subseteq P
    BY <1>1, <1>2, SeqInduct
  <1> QED
    BY <1>3 DEF P

ByMember(G, S, x) == [o \in S |-> Each(G[o], x)]
AtValue(G, S, v)  == [o \in S |-> G[o][v]]
ByValue(G, S, V, s) == [v \in V |-> Each(AtValue(G, S, v), s)]

Family(G, S, V, T) == \A o \in S : Fun(G[o], V, Seq(T))

LEMMA Transpose ==
  ASSUME NEW S, NEW V, NEW T, NEW G, Family(G, S, V, T), NEW s \in Seq(S),
         NEW x \in Seq(V), NEW w
  PROVE  /\ Count(Each(ByMember(G, S, x), s), w) = Count(Each(ByValue(G, S, V, s), x), w)
         /\ Each(ByMember(G, S, x), s) \in Seq(T) /\ Fun(ByMember(G, S, x), S, Seq(T))
         /\ Each(ByValue(G, S, V, s), x) \in Seq(T)
  <1> USE DEF Family
  <1> DEFINE H == ByValue(G, S, V, s)
  <1>1. \A u \in Seq(V) : Fun(ByMember(G, S, u), S, Seq(T))
    <2> SUFFICES ASSUME NEW u \in Seq(V) PROVE Fun(ByMember(G, S, u), S, Seq(T))
      OBVIOUS
    <2>1. \A o \in S : Each(G[o], u) \in Seq(T)
      BY EachType
    <2> QED
      BY <2>1 DEF ByMember, Fun
  <1>2. \A v \in V : Fun(AtValue(G, S, v), S, Seq(T))
    BY DEF AtValue, Fun
  <1>3. Fun(H, V, Seq(T)) /\ \A v \in V : H[v] = Each(AtValue(G, S, v), s)
    <2>1. \A v \in V : Each(AtValue(G, S, v), s) \in Seq(T)
      BY <1>2, EachType
    <2> QED
      BY <2>1 DEF ByValue, Fun
  <1> HIDE DEF H
  <1> DEFINE P == {u \in Seq(V) : Count(Each(ByMember(G, S, u), s), w) = Count(Each(H, u), w)}
  <1>4. <<>> \in P
    <2> DEFINE e == <<>>
               M == ByMember(G, S, e)
    <2>1. e \in Seq(V) /\ Each(H, e) = e
      BY EmptySeq, EachEmpty
    <2>2. \A o \in S : M[o] = <<>>
      BY EachEmpty DEF ByMember
    <2>3. Fun(M, S, Seq(T))
      BY <1>1, <2>1
    <2> HIDE DEF M
    <2>4. Each(M, s) = <<>>
      BY <2>2, <2>3, EachNone
    <2>5. Each(M, s) = e
      BY <2>4
    <2> HIDE DEF e
    <2>6. e \in P
      BY <2>1, <2>5 DEF M
    <2> QED
      BY <2>6 DEF e
  <1>5. ASSUME NEW u \in Seq(V), NEW v \in V, u \in P PROVE Append(u, v) \in P
    <2> DEFINE q == Append(u, v)
               A == ByMember(G, S, u)
               B == AtValue(G, S, v)
               F == ByMember(G, S, q)
    <2>1. q \in Seq(V)
      BY AppendProperties
    <2>2. Fun(A, S, Seq(T)) /\ Fun(B, S, Seq(T)) /\ Fun(F, S, Seq(T))
      BY <1>1, <1>2, <2>1
    <2>3. \A o \in S : F[o] = A[o] \o B[o]
      <3> SUFFICES ASSUME NEW o \in S PROVE Each(G[o], q) = Each(G[o], u) \o G[o][v]
        BY DEF ByMember, AtValue
      <3> DEFINE E == G[o]
      <3>1. Fun(E, V, Seq(T))
        BY DEF Family
      <3> HIDE DEF E
      <3>2. Each(E, Append(u, v)) = Each(E, u) \o E[v]
        BY ONLY u \in Seq(V), v \in V, <3>1, EachAppend
      <3> QED
        BY <3>2 DEF E
    <2>4. Each(H, q) = Each(H, u) \o Each(B, s) /\ Each(H, u) \in Seq(T) /\ Each(B, s) \in Seq(T)
      <3>1. Each(H, q) = Each(H, u) \o H[v]
        BY <1>3, EachAppend
      <3>2. Each(H, u) \in Seq(T)
        BY <1>3, EachType
      <3>3. Each(B, s) \in Seq(T)
        BY <2>2, EachType
      <3> QED
        BY <1>3, <3>1, <3>2, <3>3
    <2>5. Count(Each(A, s), w) = Count(Each(H, u), w)
      BY <1>5
    <2> HIDE DEF q, A, B, F
    <2>6. Count(Each(F, s), w) = Count(Each(A, s), w) + Count(Each(B, s), w)
      <3>1. Joins(F, A, B, S, T)
        BY <2>2, <2>3 DEF Joins
      <3> QED
        BY <3>1, SumEach
    <2>7. Count(Each(H, q), w) = Count(Each(H, u), w) + Count(Each(B, s), w)
      BY <2>4, CountConcat
    <2>8. Count(Each(F, s), w) = Count(Each(H, q), w)
      BY <2>5, <2>6, <2>7
    <2> QED
      BY <2>1, <2>8 DEF q, F
  <1> HIDE DEF P
  <1>6. Seq(V) \subseteq P
    BY <1>4, <1>5, SeqInduct
  <1>7. Each(ByMember(G, S, x), s) \in Seq(T)
    BY <1>1, EachType
  <1>8. Each(H, x) \in Seq(T)
    BY <1>3, EachType
  <1> QED
    BY <1>1, <1>6, <1>7, <1>8 DEF P, H
--------------------------------------------------------------------------------
After(s, m) == SubSeq(s, m, Len(s))

LEMMA AfterNext ==
  ASSUME NEW S, NEW s \in Seq(S)
  PROVE  /\ After(s, 1) = s
         /\ \A m \in Nat \ {0} : m > Len(s) => After(s, m) = <<>>
         /\ \A m \in 1..Len(s) : /\ After(s, m) = <<s[m]>> \o After(s, m + 1)
                                 /\ s[m] \in S /\ <<s[m]>> \in Seq(S)
         /\ \A m \in Nat \ {0} : After(s, m) \in Seq(S)
  <1>0. Len(s) \in Nat /\ \A i \in 1..Len(s) : s[i] \in S
    BY LenProperties, ElementOfSeq
  <1>1. After(s, 1) = s
    BY SubSeqFull DEF After
  <1>2. ASSUME NEW m \in Nat \ {0}, m > Len(s) PROVE After(s, m) = <<>>
    <2>1. m \in Int /\ Len(s) \in Int /\ Len(s) < m
      BY <1>0, <1>2
    <2> QED
      BY <2>1, SubSeqEmpty DEF After
  <1>3. ASSUME NEW m \in 1..Len(s) PROVE After(s, m) = <<s[m]>> \o After(s, m + 1)
    <2>1. Len(s) \in m..Len(s)
      BY <1>0
    <2> QED
      BY <2>1, SubSeqRecursiveFirst DEF After
  <1>4. ASSUME NEW m \in Nat \ {0} PROVE After(s, m) \in Seq(S)
    <2>1. \A i \in m..Len(s) : s[i] \in S
      BY <1>0
    <2>2. m \in Int /\ Len(s) \in Int
      BY <1>0
    <2> QED
      BY <2>1, <2>2, SubSeqProperties DEF After
  <1>5. \A m \in 1..Len(s) : s[m] \in S /\ <<s[m]>> \in Seq(S)
    BY <1>0
  <1> QED
    BY <1>1, <1>2, <1>3, <1>4, <1>5

(* What the members of a union from the m-th on find in the input x.           *)
Parts(d, x) == [o \in Lists |-> Rest(d, o, 1, x)]
Members(d, n, m, x) == Each(Parts(d, x), After(n.members, m))

LEMMA PartsType ==
  ASSUME NEW d \in Documents, NEW x \in Seq(Outcomes(d))
  PROVE  Fun(Parts(d, x), Lists, Seq(Outcomes(d)))
  <1>1. \A o \in Lists : Rest(d, o, 1, x) \in Seq(Outcomes(d))
    BY RestType
  <1> QED
    BY <1>1 DEF Parts, Fun

LEMMA MembersNext ==
  ASSUME NEW d \in Documents, NEW n \in Nodes, n.type = "union",
         NEW x \in Seq(Outcomes(d)), NEW m \in Nat \ {0}
  PROVE  /\ Members(d, n, m, x) \in Seq(Outcomes(d))
         /\ m > Len(n.members) => Members(d, n, m, x) = <<>>
         /\ m <= Len(n.members) =>
                /\ Members(d, n, m, x) = Rest(d, n.members[m], 1, x) \o Members(d, n, m + 1, x)
                /\ Rest(d, n.members[m], 1, x) \in Seq(Outcomes(d))
  <1> DEFINE F == Parts(d, x)
             O == Outcomes(d)
             s == n.members
  <1>1. s \in Seq(Lists) /\ Len(s) \in Nat
    BY NestedType
  <1>2. Fun(F, Lists, Seq(O)) /\ \A o \in Lists : F[o] = Rest(d, o, 1, x)
    BY PartsType DEF Parts
  <1> HIDE DEF F, O, s
  <1>3. After(s, m) \in Seq(Lists)
    BY <1>1, AfterNext
  <1>4. Each(F, After(s, m)) \in Seq(O)
    BY <1>2, <1>3, EachType
  <1>5. ASSUME m > Len(s) PROVE Each(F, After(s, m)) = <<>>
    <2>1. After(s, m) = <<>>
      BY <1>1, <1>5, AfterNext
    <2> QED
      BY <2>1, EachEmpty
  <1>6. ASSUME m <= Len(s)
        PROVE  /\ Each(F, After(s, m)) = Rest(d, s[m], 1, x) \o Each(F, After(s, m + 1))
               /\ Rest(d, s[m], 1, x) \in Seq(O)
    <2> DEFINE h == <<s[m]>>
               q == After(s, m + 1)
    <2>1. m \in 1..Len(s) /\ m + 1 \in Nat \ {0}
      BY <1>1, <1>6
    <2>2. After(s, m) = h \o q /\ h \in Seq(Lists) /\ s[m] \in Lists
      <3>1. \A i \in 1..Len(s) : /\ After(s, i) = <<s[i]>> \o After(s, i + 1)
                                 /\ s[i] \in Lists /\ <<s[i]>> \in Seq(Lists)
        BY <1>1, AfterNext
      <3> QED
        BY <2>1, <3>1
    <2>3. q \in Seq(Lists)
      <3>1. \A i \in Nat \ {0} : After(s, i) \in Seq(Lists)
        BY <1>1, AfterNext
      <3> QED
        BY <2>1, <3>1
    <2>4. Each(F, h) = F[s[m]] /\ F[s[m]] \in Seq(O)
      BY <1>2, <2>2, EachOne
    <2>5. F[s[m]] = Rest(d, s[m], 1, x)
      BY <1>2, <2>2
    <2> HIDE DEF h, q
    <2>6. Each(F, h \o q) = Each(F, h) \o Each(F, q)
      BY <1>2, <2>2, <2>3, EachConcat
    <2> QED
      BY <2>2, <2>4, <2>5, <2>6 DEF q
  <1> QED
    BY <1>4, <1>5, <1>6 DEF F, O, s, Members

LEMMA MembersAll ==
  ASSUME NEW d \in Documents, NEW l \in Lists, NEW k \in 1..Len(l), l[k].type = "union",
         NEW x \in Seq(DOMAIN d)
  PROVE  Meets(FALSE, FALSE, Members(d, l[k], 1, x), Each(Of(d, l, k), x))
  <1> DEFINE n == l[k]
             O == Outcomes(d)
             G == [o \in Lists |-> Denoted(d)[<<o, 1>>]]
             s == n.members
             H == ByValue(G, Lists, O, s)
             F == ByMember(G, Lists, x)
  <1>1. n \in Nodes /\ n.type = "union"
    BY ListType
  <1>2. s \in Seq(Lists) /\ DOMAIN s = 1..Len(s) /\ Len(s) \in Nat
        /\ \A i \in 1..Len(s) : s[i] \in Lists
    BY <1>1, NestedType
  <1>3. x \in Seq(O) /\ Failure \notin DOMAIN d /\ DOMAIN d \subseteq O
    BY OutcomesType
  <1>4. \A o \in Lists : Fun(G[o], O, Seq(O)) /\ G[o] = Denoted(d)[<<o, 1>>]
    BY DenotedOne
  <1>5. Parts(d, x) = F
    BY <1>4 DEF Parts, ByMember, Rest
  <1>6. Members(d, n, 1, x) = Each(F, s)
    BY <1>2, <1>5, AfterNext DEF Members
  <1>7. Each(Of(d, l, k), x) = Each(H, x)
    <2>1. ASSUME NEW v \in DOMAIN d PROVE Of(d, l, k)[v] = H[v]
      <3> DEFINE ss == [i \in 1..Len(s) |-> Denoted(d)[<<s[i], 1>>][v]]
                 A == AtValue(G, Lists, v)
      <3>1. Of(d, l, k)[v] = Means(d, Denoted(d), n, v)
        BY <1>3 DEF Of
      <3>2. Means(d, Denoted(d), n, v) = FlattenSeq(ss)
        BY <1>1, <1>2 DEF Means
      <3>3. H[v] = Each(A, s)
        BY <1>3 DEF ByValue
      <3>4. \A i \in 1..Len(s) : A[s[i]] = Denoted(d)[<<s[i], 1>>][v]
        BY <1>2, <1>4 DEF AtValue
      <3> HIDE DEF A, s
      <3>5. [i \in 1..Len(s) |-> A[s[i]]] = ss
        BY <3>4
      <3>6. Each(A, s) = FlattenSeq(ss)
        BY <3>5, Zenon DEF Each
      <3> QED
        BY <3>1, <3>2, <3>3, <3>6
    <2>2. \A i \in 1..Len(x) : x[i] \in DOMAIN d
      BY ElementOfSeq
    <2> HIDE DEF H
    <2> QED
      BY <2>1, <2>2, EachSame
  <1>8. Each(F, s) \in Seq(O) /\ Each(H, x) \in Seq(O)
        /\ \A w : Count(Each(F, s), w) = Count(Each(H, x), w)
    <2>1. Family(G, Lists, O, O)
      BY <1>4 DEF Family
    <2> HIDE DEF G, O, s
    <2>2. s \in Seq(Lists) /\ x \in Seq(O)
      BY <1>2, <1>3
    <2> QED
      BY ONLY <2>1, <2>2, Transpose
  <1>9. Meets(FALSE, FALSE, Each(F, s), Each(H, x))
    <2> DEFINE a == Each(F, s)
               b == Each(H, x)
    <2>1. \A w : Count(a, w) = Count(b, w) /\ Count(a, w) \in Nat
      BY <1>8, CountType
    <2> HIDE DEF a, b
    <2>2. Within(a, b) /\ Within(b, a)
      BY <2>1 DEF Within
    <2>3. Meets(FALSE, FALSE, a, b)
      BY <2>2 DEF Meets
    <2> QED
      BY <2>3 DEF a, b
  <1> QED
    BY <1>6, <1>7, <1>9
--------------------------------------------------------------------------------
(* What a call of evalList will have found in the end: the results of its      *)
(* current node, those that node has yet to add, and what the nodes behind it  *)
(* make of them.                                                               *)
Framed(d) == [nodes : Lists, at : Nat \ {0}, cur : Seq(DOMAIN d), todo : Seq(DOMAIN d),
              out : Seq(DOMAIN d), elems : Seq(DOMAIN d), left : Seq(DOMAIN d), m : Nat \ {0}]

Here(f) == f.nodes[f.at]

Coming(d, f) ==
    IF Here(f).type = "union" THEN Members(d, Here(f), f.m, f.cur)
    ELSE Each(Tests(d, Denoted(d), Here(f)), f.elems) \o Each(Of(d, f.nodes, f.at), f.todo)

Have(d, f) == IF f.at > Len(f.nodes) THEN f.todo
              ELSE Rest(d, f.nodes, f.at + 1, f.out \o Coming(d, f))

LEMMA FramedType ==
  ASSUME NEW d \in Documents, NEW f \in Framed(d)
  PROVE  /\ f.nodes \in Lists /\ Len(f.nodes) \in Nat /\ f.at \in Nat \ {0}
         /\ f.at + 1 \in Nat \ {0}
         /\ f.at <= Len(f.nodes) => /\ f.at \in 1..Len(f.nodes) /\ ~(f.at > Len(f.nodes))
                                    /\ Here(f) \in Nodes /\ IsNode(Here(f))
         /\ f.cur \in Seq(Outcomes(d)) /\ f.todo \in Seq(Outcomes(d))
         /\ f.out \in Seq(Outcomes(d)) /\ f.elems \in Seq(Outcomes(d))
         /\ f.left \in Seq(Outcomes(d)) /\ f.m \in Nat \ {0}
         /\ f.cur \in Seq(DOMAIN d) /\ f.todo \in Seq(DOMAIN d) /\ f.out \in Seq(DOMAIN d)
         /\ f.elems \in Seq(DOMAIN d) /\ f.left \in Seq(DOMAIN d)
  <1>1. /\ f.nodes \in Lists /\ f.at \in Nat \ {0} /\ f.m \in Nat \ {0}
        /\ f.cur \in Seq(DOMAIN d) /\ f.todo \in Seq(DOMAIN d) /\ f.out \in Seq(DOMAIN d)
        /\ f.elems \in Seq(DOMAIN d) /\ f.left \in Seq(DOMAIN d)
    BY DEF Framed
  <1>2. Len(f.nodes) \in Nat
    BY <1>1, ListType
  <1>3. f.at <= Len(f.nodes) => Here(f) \in Nodes /\ IsNode(Here(f))
    BY <1>1, <1>2, ListType DEF Here
  <1> QED
    BY <1>1, <1>2, <1>3, OutcomesType

LEMMA ComingType ==
  ASSUME NEW d \in Documents, NEW f \in Framed(d), f.at <= Len(f.nodes)
  PROVE  /\ Coming(d, f) \in Seq(Outcomes(d)) /\ f.out \o Coming(d, f) \in Seq(Outcomes(d))
         /\ Have(d, f) = Rest(d, f.nodes, f.at + 1, f.out \o Coming(d, f))
         /\ Have(d, f) \in Seq(Outcomes(d))
  <1> DEFINE O == Outcomes(d)
             a == Each(Tests(d, Denoted(d), Here(f)), f.elems)
             b == Each(Of(d, f.nodes, f.at), f.todo)
             c == Coming(d, f)
  <1>1. c \in Seq(O)
    <2>1. CASE Here(f).type = "union"
      BY <2>1, FramedType, MembersNext DEF Coming
    <2>2. CASE Here(f).type # "union"
      <3>1. a \in Seq(O)
        BY FramedType, TestsType, EachType
      <3>2. b \in Seq(O)
        BY FramedType, OfType, EachType
      <3>3. c = a \o b
        BY <2>2 DEF Coming
      <3> HIDE DEF a, b, c
      <3> QED
        BY <3>1, <3>2, <3>3, ConcatProperties
    <2> QED
      BY <2>1, <2>2
  <1>2. f.out \in Seq(O)
    BY FramedType
  <1> HIDE DEF c
  <1>3. f.out \o c \in Seq(O)
    BY <1>1, <1>2, ConcatProperties
  <1>4. Rest(d, f.nodes, f.at + 1, f.out \o c) \in Seq(O)
    BY <1>3, FramedType, RestType
  <1>5. Have(d, f) = Rest(d, f.nodes, f.at + 1, f.out \o c)
    BY FramedType DEF Have, c
  <1> QED
    BY <1>1, <1>3, <1>4, <1>5 DEF c

LEMMA MeetsMiddle ==
  ASSUME NEW S, NEW x \in Seq(S), NEW a \in Seq(S), NEW b \in Seq(S), NEW y \in Seq(S),
         NEW c, NEW e, Meets(c, e, a, b)
  PROVE  Meets(c, e, (x \o a) \o y, x \o (b \o y))
  <1>1. (x \o a) \o y = x \o (a \o y)
    BY ConcatAssociative
  <1>2. a \o y \in Seq(S) /\ b \o y \in Seq(S)
    BY ConcatProperties
  <1>3. Meets(c, e, x, x) /\ Meets(c, e, y, y)
    BY MeetsRefl
  <1>4. Meets(c, e, a \o y, b \o y)
    BY <1>3, MeetsConcat
  <1> DEFINE p == a \o y
             q == b \o y
  <1>5. p \in Seq(S) /\ q \in Seq(S) /\ Meets(c, e, p, q)
    BY <1>2, <1>4
  <1> HIDE DEF p, q
  <1>6. Meets(c, e, x \o p, x \o q)
    BY <1>3, <1>5, MeetsConcat
  <1> QED
    BY <1>1, <1>6 DEF p, q

(* A step adds a to the results where b was to come.                           *)
LEMMA Advance ==
  ASSUME NEW d \in Documents, NEW f \in Framed(d), f.at <= Len(f.nodes),
         NEW g \in Framed(d), g.nodes = f.nodes, g.at = f.at,
         NEW a \in Seq(Outcomes(d)), NEW b \in Seq(Outcomes(d)),
         g.out = f.out \o a, Coming(d, f) = b \o Coming(d, g),
         NEW c, NEW e, Meets(c, e, a, b)
  PROVE  Meets(c, e, Have(d, g), Have(d, f))
  <1> DEFINE x == f.out
             y == Coming(d, g)
             p == (x \o a) \o y
             q == x \o (b \o y)
  <1>1. x \in Seq(Outcomes(d)) /\ y \in Seq(Outcomes(d))
    BY ComingType, FramedType
  <1>2. p = g.out \o Coming(d, g) /\ q = f.out \o Coming(d, f)
    OBVIOUS
  <1>3. p \in Seq(Outcomes(d)) /\ q \in Seq(Outcomes(d))
    BY <1>2, ComingType
  <1>4. Have(d, g) = Rest(d, f.nodes, f.at + 1, p) /\ Have(d, f) = Rest(d, f.nodes, f.at + 1, q)
    BY <1>2, ComingType
  <1> HIDE DEF x, y
  <1>5. Meets(c, e, p, q)
    BY <1>1, MeetsMiddle
  <1> HIDE DEF p, q
  <1>6. f.nodes \in Lists /\ f.at + 1 \in Nat \ {0}
    BY FramedType
  <1>7. Meets(c, e, Rest(d, f.nodes, f.at + 1, p), Rest(d, f.nodes, f.at + 1, q))
    BY <1>3, <1>5, <1>6, RestMeets
  <1> QED
    BY <1>4, <1>7

(* A failure that is to come fails the call.                                   *)
LEMMA Stuck ==
  ASSUME NEW d \in Documents, NEW f \in Framed(d), f.at <= Len(f.nodes),
         NEW b \in Seq(Outcomes(d)), NEW y \in Seq(Outcomes(d)),
         Coming(d, f) = b \o y, Fails(b)
  PROVE  Fails(Have(d, f))
  <1> DEFINE p == f.out \o Coming(d, f)
  <1>1. Fails(Coming(d, f))
    BY FailsConcat
  <1>2. p \in Seq(Outcomes(d)) /\ Have(d, f) = Rest(d, f.nodes, f.at + 1, p)
    BY ComingType
  <1>3. Fails(p)
    BY <1>1, ComingType, FramedType, FailsConcat
  <1> HIDE DEF p
  <1> QED
    BY <1>2, <1>3, FramedType, RestFails
--------------------------------------------------------------------------------
Started(l, k, x) == [Frame(l, x) EXCEPT !.at = k]

LEMMA StartedType ==
  ASSUME NEW d \in Documents, NEW l \in Lists, NEW k \in Nat \ {0}, NEW x \in Seq(DOMAIN d)
  PROVE  LET f == Started(l, k, x)
         IN  /\ f \in Framed(d) /\ f.nodes = l /\ f.at = k /\ f.cur = x /\ f.todo = x
             /\ f.out = <<>> /\ f.elems = <<>> /\ f.left = <<>> /\ f.m = 1
  <1>1. <<>> \in Seq(DOMAIN d) /\ 1 \in Nat \ {0}
    BY EmptySeq
  <1> QED
    BY <1>1 DEF Started, Frame, Framed

LEMMA StartedFirst == \A l, x : Frame(l, x) = Started(l, 1, x)
  BY DEF Started, Frame

(* A call that starts at node k with the values x.                             *)
LEMMA StartedHave ==
  ASSUME NEW d \in Documents, NEW l \in Lists, NEW k \in Nat \ {0}, k <= Len(l) + 1,
         NEW x \in Seq(DOMAIN d)
  PROVE  /\ Meets(FALSE, NoUnion(l), Have(d, Started(l, k, x)), Rest(d, l, k, x))
         /\ Have(d, Started(l, k, x)) \in Seq(Outcomes(d)) /\ Rest(d, l, k, x) \in Seq(Outcomes(d))
  <1> DEFINE f == Started(l, k, x)
             O == Outcomes(d)
             h == Have(d, f)
             r == Rest(d, l, k, x)
  <1>1. /\ f \in Framed(d) /\ f.nodes = l /\ f.at = k /\ f.cur = x /\ f.todo = x
        /\ f.out = <<>> /\ f.elems = <<>> /\ f.m = 1
    BY StartedType
  <1>2. x \in Seq(O) /\ Len(l) \in Nat
    BY OutcomesType, ListType
  <1>3. r \in Seq(O)
    BY <1>2, RestType
  <1> HIDE DEF f
  <1>4. CASE k > Len(l)
    <2>1. h = x
      BY <1>1, <1>4 DEF Have
    <2>2. r = x
      BY <1>2, <1>4, RestEnd
    <2>3. Meets(FALSE, NoUnion(l), x, x)
      BY <1>2, MeetsRefl
    <2> QED
      BY <1>2, <1>3, <2>1, <2>2, <2>3 DEF f
  <1>5. CASE k <= Len(l)
    <2> DEFINE n == l[k]
               y == Coming(d, f)
               z == Each(Of(d, l, k), x)
    <2>1. k \in 1..Len(l) /\ f.at <= Len(f.nodes) /\ Here(f) = n /\ k + 1 \in Nat \ {0}
      BY <1>1, <1>2, <1>5 DEF Here
    <2>2. y \in Seq(O) /\ h = Rest(d, l, k + 1, f.out \o y) /\ h \in Seq(O)
      BY <1>1, <2>1, ComingType
    <2>3. r = Rest(d, l, k + 1, z) /\ z \in Seq(O)
      BY <1>2, <2>1, RestNext
    <2>4. f.out \o y = y
      <3> HIDE DEF y, O
      <3> QED
        BY <1>1, <2>2, ConcatEmptySeq
    <2>5. Meets(FALSE, NoUnion(l), y, z)
      <3>1. CASE n.type = "union"
        <4>1. y = Members(d, n, 1, x)
          BY <1>1, <2>1, <3>1 DEF Coming
        <4>2. Meets(FALSE, FALSE, y, z)
          BY <2>1, <3>1, <4>1, MembersAll
        <4>3. ~NoUnion(l)
          BY <2>1, <3>1, ListType DEF NoUnion
        <4> QED
          BY <4>2, <4>3, MeetsWeaker
      <3>2. CASE n.type # "union"
        <4>1. y = Each(Tests(d, Denoted(d), n), <<>>) \o z
          BY <1>1, <2>1, <3>2 DEF Coming
        <4>2. Each(Tests(d, Denoted(d), n), <<>>) = <<>>
          BY EachEmpty
        <4>3. y = <<>> \o z
          BY <4>1, <4>2
        <4> HIDE DEF y, z, O
        <4>4. y = z
          BY <2>3, <4>3, ConcatEmptySeq
        <4> QED
          BY <2>2, <4>4, MeetsRefl
      <3> QED
        BY <3>1, <3>2
    <2> HIDE DEF y, z, h, r
    <2>6. Meets(FALSE, NoUnion(l), Rest(d, l, k + 1, y), Rest(d, l, k + 1, z))
      BY <2>1, <2>2, <2>3, <2>5, RestMeets
    <2>7. h = Rest(d, l, k + 1, y)
      BY <2>2, <2>4
    <2> QED
      BY <1>3, <2>2, <2>3, <2>6, <2>7 DEF f, h, r
  <1>6. k > Len(l) \/ k <= Len(l)
    BY <1>2
  <1> QED
    BY <1>4, <1>5, <1>6
--------------------------------------------------------------------------------
Exact(d, list) == OneEntry(d) /\ NoUnion(list)

(* Nodes that have not begun, and those with one value only.                   *)
Fresh(f) ==
    /\ f.at > Len(f.nodes) => f.todo = f.cur
    /\ f.at <= Len(f.nodes) =>
           /\ Here(f).type \in {"text", "number", "identifier"} => f.todo = f.cur /\ f.out = <<>>
           /\ Here(f).type # "filter" => f.elems = <<>>
           /\ Here(f).type \in Blind => Len(f.cur) = 1

(* The left operand that waits for the right one is what is denoted.           *)
LeftMeans(d, c, f) ==
    f.left # <<>> =>
        /\ f.at <= Len(f.nodes) /\ Here(f).type = "filter" /\ Here(f).op # "exists"
        /\ f.elems # <<>> /\ Len(f.left) = 1
        /\ Meets(c, FALSE, f.left, Denoted(d)[<<Here(f).left, 1>>][Head(f.elems)])

FrameMeans(d, c, f, g) ==
    Fresh(f) /\ LeftMeans(d, c, f) /\ Meets(c, Exact(d, f.nodes), Have(d, f), g)

(* The list a pending call evaluates, and what is denoted for it.              *)
Asked(f) == IF Here(f).type = "filter"
            THEN IF f.left = <<>> THEN Here(f).left ELSE Here(f).right
            ELSE Here(f).members[f.m]

Expected(d, f) == IF Here(f).type = "filter" THEN Denoted(d)[<<Asked(f), 1>>][Head(f.elems)]
                  ELSE Rest(d, Asked(f), 1, f.cur)

(* What a call of evalList returns, against what is denoted.                   *)
Answers(d, t, c, l, g, r) ==
    /\ r.err => /\ t => Fails(g)
                /\ Tolerant(l) => r.vals = <<>> /\ Meets(c, FALSE, <<>>, g)
    /\ ~r.err => Meets(c, Exact(d, l), r.vals, g)

(* The next node begins with the values x, which meet what was to come; b is   *)
(* what cut was, c what it is.                                                 *)
LEMMA NextMeans ==
  ASSUME Regular, NEW d \in Documents, NEW f \in Framed(d), f.at <= Len(f.nodes),
         NEW x \in Seq(DOMAIN d), NEW b, NEW c, b => c,
         Meets(c, Exact(d, f.nodes), x, f.out \o Coming(d, f)),
         NEW g \in Seq(Outcomes(d)), FrameMeans(d, b, f, g)
  PROVE  FrameMeans(d, c, Started(f.nodes, f.at + 1, x), g)
  <1> DEFINE l == f.nodes
             k == f.at + 1
             h == Started(l, k, x)
             O == Outcomes(d)
             e == Exact(d, l)
             w == f.out \o Coming(d, f)
  <1>1. l \in Lists /\ k \in Nat \ {0} /\ Len(l) \in Nat /\ x \in Seq(O) /\ w \in Seq(O)
        /\ Have(d, f) = Rest(d, l, k, w) /\ Have(d, f) \in Seq(O)
    BY FramedType, OutcomesType, ComingType
  <1>2. k <= Len(l) + 1
    BY FramedType
  <1>3. /\ h \in Framed(d) /\ h.nodes = l /\ h.at = k /\ h.cur = x /\ h.todo = x
        /\ h.out = <<>> /\ h.elems = <<>> /\ h.left = <<>>
    BY <1>1, StartedType
  <1>4. Fresh(h)
    <2>1. ASSUME k <= Len(l) PROVE l[k].type \notin Blind
      <3>1. k # 1 /\ k \in DOMAIN l
        BY <1>1, <2>1, FramedType, ListType
      <3> QED
        BY <1>1, <3>1 DEF Regular
    <2> HIDE DEF h
    <2> QED
      BY <1>3, <2>1 DEF Fresh, Here
  <1>5. LeftMeans(d, c, h)
    BY <1>3 DEF LeftMeans
  <1>6. Meets(FALSE, NoUnion(l), Have(d, h), Rest(d, l, k, x))
        /\ Have(d, h) \in Seq(O) /\ Rest(d, l, k, x) \in Seq(O)
    BY <1>1, <1>2, StartedHave
  <1>7. Meets(c, e, x, w)
    OBVIOUS
  <1>8. Meets(b, e, Have(d, f), g)
    BY DEF FrameMeans
  <1> DEFINE p == Have(d, h)
             q == Rest(d, l, k, x)
             r == Rest(d, l, k, w)
  <1>9. p \in Seq(O) /\ q \in Seq(O) /\ r \in Seq(O) /\ g \in Seq(O)
    BY <1>1, <1>6
  <1>10. Meets(c, e, p, q)
    BY <1>6, MeetsWeaker DEF Exact
  <1> HIDE DEF e, w
  <1>11. Meets(c, e, q, r)
    BY <1>1, <1>7, RestMeets
  <1>12. Meets(c, e, r, g)
    BY <1>1, <1>8, MeetsWeaker
  <1> HIDE DEF p, q, r, O
  <1>13. Meets(c, e, p, r)
    BY <1>9, <1>10, <1>11, MeetsTrans
  <1>14. Meets(c, e, p, g)
    BY <1>9, <1>12, <1>13, MeetsTrans
  <1> QED
    BY <1>3, <1>4, <1>5, <1>14 DEF FrameMeans, p, e
--------------------------------------------------------------------------------
(* The evaluator's way into a value, against its contents.                     *)
Permutes(f, v, e) ==
    /\ f \in [1..Len(e) -> 1..Len(e)] /\ \A i, j \in 1..Len(e) : f[i] = f[j] => i = j
    /\ Len(v) = Len(e) /\ \A i \in 1..Len(e) : v[i] = e[f[i]]

LEMMA Permuted ==
  ASSUME NEW S, NEW e \in Seq(S), NEW v \in Seq(S), NEW f, Permutes(f, v, e), NEW w
  PROVE  Count(v, w) = Count(e, w)
  <1> USE DEF Permutes
  <1> DEFINE I == 1..Len(e)
             A == {i \in I : v[i] = w}
             B == {i \in I : e[i] = w}
             g == [i \in A |-> f[i]]
  <1>1. Len(e) \in Nat /\ DOMAIN e = I /\ DOMAIN v = I
    BY LenProperties
  <1>2. IsFiniteSet(I) /\ IsFiniteSet(A)
    <2>1. IsFiniteSet(I)
      BY <1>1, FS_Interval
    <2> QED
      BY <2>1, FS_Subset
  <1>3. f \in Injection(I, I)
    BY DEF Injection, IsInjective
  <1>4. f \in Surjection(I, I)
    <2> HIDE DEF I
    <2> QED
      BY <1>2, <1>3, FS_Injection
  <1>5. \A j \in I : \E i \in I : f[i] = j
    BY <1>4 DEF Surjection
  <1>6. g \in Bijection(A, B)
    <2>1. g \in [A -> B]
      OBVIOUS
    <2>2. \A i, j \in A : g[i] = g[j] => i = j
      OBVIOUS
    <2>3. \A j \in B : \E i \in A : g[i] = j
      <3> SUFFICES ASSUME NEW j \in B PROVE \E i \in A : g[i] = j
        OBVIOUS
      <3>1. PICK i \in I : f[i] = j
        BY <1>5
      <3>2. i \in A
        BY <3>1
      <3> QED
        BY <3>1, <3>2
    <2> HIDE DEF g, A, B
    <2>4. DOMAIN g = A
      BY <2>1
    <2> QED
      BY <2>1, <2>2, <2>3, <2>4 DEF Bijection, Injection, Surjection, IsInjective
  <1> HIDE DEF A, B, g
  <1>7. Cardinality(B) = Cardinality(A)
    <2>1. ExistsBijection(A, B)
      BY <1>6 DEF ExistsBijection
    <2> QED
      BY <1>2, <2>1, FS_Bijection
  <1>8. Count(v, w) = Cardinality(A) /\ Count(e, w) = Cardinality(B)
    BY <1>1 DEF Count, A, B
  <1> QED
    BY <1>7, <1>8

LEMMA ElementsKids == \A p : Elements(p) = Kids(doc, p)
  BY DEF Elements, Kids

LEMMA VisitsMeet ==
  ASSUME doc \in Documents, NEW p \in DOMAIN doc, NEW v \in Visits(p)
  PROVE  /\ v \in Seq(DOMAIN doc) /\ Meets(FALSE, OneEntry(doc), v, Kids(doc, p))
         /\ v = <<>> <=> doc[p].kids = <<>>
         /\ Kids(doc, p) \in Seq(DOMAIN doc)
  <1> DEFINE e == Elements(p)
             S == DOMAIN doc
             I == 1..Len(e)
  <1>1. e \in Seq(S) /\ e = Kids(doc, p) /\ Len(e) \in Nat /\ Len(e) = Len(doc[p].kids)
        /\ doc[p].kids \in Seq(Steps) /\ DOMAIN e = I /\ \A i \in I : e[i] \in S
    <2>1. e = Kids(doc, p)
      BY ElementsKids
    <2>2. e \in Seq(S) /\ Len(e) \in Nat /\ Len(e) = Len(doc[p].kids)
      BY <2>1, KidsType
    <2>3. doc[p].kids \in Seq(Steps)
      BY EvalAssumption DEF IsDocument
    <2> HIDE DEF e
    <2> QED
      BY <2>1, <2>2, <2>3, LenProperties, ElementOfSeq
  <1>2. e = <<>> <=> doc[p].kids = <<>>
    <2> HIDE DEF e
    <2> QED
      BY <1>1, EmptySeq
  <1>3. CASE v = e
    BY <1>1, <1>2, <1>3, MeetsRefl
  <1>4. CASE doc[p].kind = "map"
    <2>1. PICK f \in [I -> I] : (\A i, j \in I : f[i] = f[j] => i = j)
                                /\ v = [s \in I |-> e[f[s]]]
      <3>1. DOMAIN e = I
        BY <1>1
      <3> HIDE DEF e
      <3> QED
        BY <1>4, <3>1 DEF Visits, e
    <2> HIDE DEF e
    <2>2. v \in [I -> S]
      BY <1>1, <2>1
    <2>3. v \in Seq(S) /\ Len(v) = Len(e) /\ \A i \in I : v[i] = e[f[i]]
      <3>1. v \in Seq(S)
        BY <1>1, <2>2, SeqDef
      <3>2. Len(v) = Len(e)
        BY <1>1, <2>2, <3>1, LenProperties
      <3> QED
        BY <2>1, <3>1, <3>2
    <2>4. \A w : Count(v, w) = Count(e, w) /\ Count(e, w) \in Nat
      <3>1. Permutes(f, v, e)
        BY <2>1, <2>3 DEF Permutes
      <3> QED
        BY <1>1, <2>3, <3>1, Permuted, CountType
    <2>5. Within(v, e) /\ Within(e, v)
      BY <2>4 DEF Within
    <2>6. ASSUME OneEntry(doc) PROVE v = e
      <3>1. Len(e) <= 1
        BY <1>1, <1>4, <2>6 DEF OneEntry
      <3>2. \A i \in I : f[i] = i
        BY <1>1, <3>1
      <3>3. \A i \in I : v[i] = e[i]
        BY <2>3, <3>2
      <3> QED
        BY <1>1, <2>3, <3>3, SeqEqual
    <2>7. Meets(FALSE, OneEntry(doc), v, e)
      BY <2>5, <2>6 DEF Meets
    <2>8. v = <<>> <=> e = <<>>
      BY <1>1, <2>3, EmptySeq
    <2> QED
      BY <1>1, <1>2, <2>3, <2>7, <2>8
  <1>5. v = e \/ doc[p].kind = "map"
    BY DEF Visits
  <1> QED
    BY <1>3, <1>4, <1>5

LEMMA FieldMeans == \A p, name : Field(p, name) = FieldOf(doc, p, name)
  BY DEF Field, FieldOf, Range

LEMMA OperandShown == \A p : Operand(p) = Shown(doc, p)
  BY DEF Operand, Shown
--------------------------------------------------------------------------------
(* Every step-th element, taken one by one.                                    *)
LEMMA Quotient ==
  ASSUME NEW t \in Nat, t > 0, NEW k \in Nat, NEW r \in Nat, r < t
  PROVE  (t * k + r) \div t = k
  <1> DEFINE z == t * k + r
             q == z \div t
             p == z % t
  <1>1. z \in Nat
    OBVIOUS
  <1>2. q \in Int /\ p \in Int /\ z = t * q + p /\ 0 <= p /\ p < t
    <2> HIDE DEF z
    <2> QED
      BY <1>1
  <1> HIDE DEF p, q
  <1>3. CASE q < k
    <2>1. t * (k - q - 1) >= 0
      <3>1. k - q - 1 \in Nat
        BY <1>2, <1>3
      <3> QED
        BY <3>1
    <2>2. t * (k - q - 1) = t * k - t * q - t
      BY <1>2
    <2> QED
      BY <1>2, <2>1, <2>2
  <1>4. CASE q > k
    <2>1. t * (q - k - 1) >= 0
      <3>1. q - k - 1 \in Nat
        BY <1>2, <1>4
      <3> QED
        BY <3>1
    <2>2. t * (q - k - 1) = t * q - t * k - t
      BY <1>2
    <2> QED
      BY <1>2, <2>1, <2>2
  <1> QED
    BY <1>2, <1>3, <1>4 DEF q

LEMMA NextStep ==
  ASSUME NEW t \in Nat, t > 0, NEW y \in Nat
  PROVE  /\ (y + t - 1) \div t \in Nat
         /\ y % t = 0 => /\ (y + t) \div t = (y + t - 1) \div t + 1
                         /\ ((y + t - 1) \div t) * t = y
         /\ y % t # 0 => (y + t) \div t = (y + t - 1) \div t
  <1> DEFINE a == y \div t
             b == y % t
  <1>1. a \in Nat /\ b \in Nat /\ y = t * a + b /\ b < t
    OBVIOUS
  <1> HIDE DEF a, b
  <1>2. t * (a + 1) = t * a + t /\ a + 1 \in Nat
    BY <1>1
  <1>3. (y + t) \div t = a + 1
    <2>1. (t * (a + 1) + b) \div t = a + 1
      BY <1>1, <1>2, Quotient
    <2>2. y + t = t * (a + 1) + b
      BY <1>1, <1>2
    <2> QED
      BY <2>1, <2>2
  <1>4. CASE b = 0
    <2>1. (t * a + (t - 1)) \div t = a
      <3>1. t - 1 \in Nat /\ t - 1 < t
        OBVIOUS
      <3> QED
        BY <1>1, <3>1, Quotient
    <2>2. y + t - 1 = t * a + (t - 1) /\ a * t = y
      BY <1>1, <1>4
    <2>3. (y + t - 1) \div t = a
      BY <2>1, <2>2
    <2> QED
      BY <1>1, <1>3, <1>4, <2>2, <2>3 DEF b
  <1>5. CASE b # 0
    <2>1. (t * (a + 1) + (b - 1)) \div t = a + 1
      <3>1. b - 1 \in Nat /\ b - 1 < t
        BY <1>1, <1>5
      <3> QED
        BY <1>2, <3>1, Quotient
    <2>2. y + t - 1 = t * (a + 1) + (b - 1)
      BY <1>1, <1>2
    <2>3. (y + t - 1) \div t = a + 1
      BY <2>1, <2>2
    <2> QED
      BY <1>2, <1>3, <1>5, <2>3 DEF b
  <1> QED
    BY <1>4, <1>5

Stepped(list, from, to, t) ==
    [s \in 1..((to - from + t - 1) \div t) |-> list[from + (s - 1) * t + 1]]

Picked(list, from, to, t) ==
    FlattenSeq([s \in 1..Len(list) |->
        IF from < s /\ s <= to /\ (s - 1 - from) % t = 0 THEN <<list[s]>> ELSE <<>>])

LEMMA EveryStep ==
  ASSUME NEW S, NEW list \in Seq(S), NEW from \in Nat, NEW to \in Nat, from < to,
         to <= Len(list), NEW t \in Nat, t > 0
  PROVE  Stepped(list, from, to, t) = Picked(list, from, to, t)
  <1> DEFINE n == Len(list)
             F(s) == IF from < s /\ s <= to /\ (s - 1 - from) % t = 0 THEN <<list[s]>> ELSE <<>>
             ss(j) == [s \in 1..j |-> F(s)]
             Q(j) == IF j <= from THEN 0
                     ELSE IF j <= to THEN (j - from + t - 1) \div t
                     ELSE (to - from + t - 1) \div t
             g(k) == [s \in 1..k |-> list[from + (s - 1) * t + 1]]
             P == {j \in Nat : j <= n => FlattenSeq(ss(j)) = g(Q(j))}
  <1>0. n \in Nat /\ \A s \in 1..n : list[s] \in S
    BY LenProperties, ElementOfSeq
  <1>1. 0 \in P
    <2>1. ss(0) = <<>> /\ g(0) = <<>> /\ Q(0) = 0
      OBVIOUS
    <2>2. FlattenSeq(ss(0)) = <<>>
      BY <2>1, FlattenEmpty
    <2> HIDE DEF ss, g, Q
    <2> QED
      BY <2>1, <2>2
  <1>2. ASSUME NEW j \in Nat, j \in P PROVE j + 1 \in P
    <2> SUFFICES ASSUME j + 1 <= n PROVE FlattenSeq(ss(j + 1)) = g(Q(j + 1))
      OBVIOUS
    <2>1. FlattenSeq(ss(j)) = g(Q(j)) /\ j + 1 \in 1..n
      BY <1>0, <1>2
    <2> DEFINE U == Seq(S)
               x == F(j + 1)
    <2>2. \A s \in 1..n : F(s) \in U
      <3>1. <<>> \in U /\ \A s \in 1..n : <<list[s]>> \in U
        BY <1>0
      <3> HIDE DEF U
      <3> QED
        BY <3>1
    <2>3. x \in U
      BY <2>1, <2>2
    <2>4. ss(j) \in Seq(U) /\ ss(j + 1) = Append(ss(j), x)
      <3> HIDE DEF F, U, x
      <3>1. ss(j) \in [1..j -> U]
        BY <1>0, <2>2
      <3>2. ss(j) \in Seq(U) /\ Len(ss(j)) = j
        BY <3>1
      <3>3. ss(j + 1) = Append(ss(j), x)
        BY <3>2 DEF x
      <3> QED
        BY <3>2, <3>3
    <2>5. FlattenSeq(ss(j + 1)) = g(Q(j)) \o x
      <3> DEFINE q == ss(j)
      <3>1. q \in Seq(U) /\ ss(j + 1) = Append(q, x) /\ FlattenSeq(q) = g(Q(j))
        BY <2>1, <2>4
      <3> HIDE DEF q, x, ss, g
      <3>2. FlattenSeq(Append(q, x)) = FlattenSeq(q) \o x
        BY <2>3, <3>1, FlattenAppend DEF U
      <3> QED
        BY <3>1, <3>2
    <2>6. CASE j + 1 <= from \/ j + 1 > to
      <3>1. x = <<>> /\ Q(j + 1) = Q(j)
        <4>1. CASE j + 1 <= from
          BY <4>1
        <4>2. CASE j = to
          BY <4>2
        <4>3. CASE j > to
          BY <4>3
        <4> QED
          BY <2>6, <4>1, <4>2, <4>3
      <3>2. g(Q(j)) \in U
        <4> DEFINE q == ss(j)
        <4>1. q \in Seq(U) /\ FlattenSeq(q) = g(Q(j))
          BY <2>1, <2>4
        <4> HIDE DEF q
        <4>2. FlattenSeq(q) \in U
          BY <4>1, FlattenType
        <4> QED
          BY <4>1, <4>2
      <3> HIDE DEF g, ss, x, Q
      <3>3. g(Q(j)) \o <<>> = g(Q(j))
        BY <3>2, ConcatEmptySeq
      <3> QED
        BY <2>5, <3>1, <3>3
    <2>7. CASE from < j + 1 /\ j + 1 <= to
      <3> DEFINE y == j - from
                 k == (y + t - 1) \div t
      <3>1. y \in Nat
        BY <2>7
      <3>2. k \in Nat /\ (y % t = 0 => (y + t) \div t = k + 1 /\ k * t = y)
            /\ (y % t # 0 => (y + t) \div t = k)
        <4> HIDE DEF y
        <4> QED
          BY <3>1, NextStep
      <3>3. Q(j) = k
        <4>1. CASE j > from
          BY <2>7, <4>1
        <4>2. CASE j = from
          <5>1. y = 0 /\ (t - 1) \div t = 0
            <6>1. (t * 0 + (t - 1)) \div t = 0
              <7>1. t - 1 \in Nat /\ t - 1 < t
                OBVIOUS
              <7> QED
                BY <7>1, Quotient
            <6> QED
              BY <4>2, <6>1
          <5>2. y + t - 1 = t - 1
            BY <5>1
          <5>3. k = 0
            BY <5>1, <5>2
          <5>4. Q(j) = 0
            BY <4>2
          <5> QED
            BY <5>3, <5>4
        <4> QED
          BY <2>7, <4>1, <4>2
      <3>4. Q(j + 1) = (y + t) \div t
        <4>1. j + 1 - from + t - 1 = y + t
          OBVIOUS
        <4>2. Q(j + 1) = (j + 1 - from + t - 1) \div t
          BY <2>7
        <4> QED
          BY <4>1, <4>2
      <3>5. (j + 1) - 1 - from = y
        OBVIOUS
      <3>6. CASE y % t = 0
        <4>1. x = <<list[j + 1]>>
          BY <2>7, <3>5, <3>6
        <4>2. g(k + 1) = Append(g(k), list[j + 1])
          <5>1. k \in Nat /\ from + k * t + 1 = j + 1
            BY <3>1, <3>2, <3>6
          <5> HIDE DEF k, y
          <5>2. from + ((k + 1) - 1) * t + 1 = j + 1
            BY <5>1
          <5>3. \A G : Len([s \in 1..k |-> G[s]]) = k
            BY <5>1
          <5>4. g(k + 1) = [s \in 1..(k + 1) |-> IF s = k + 1 THEN list[j + 1] ELSE g(k)[s]]
            <6> DEFINE h(s) == list[from + (s - 1) * t + 1]
            <6>1. h(k + 1) = list[j + 1]
              BY <5>2
            <6>2. g(k) = [s \in 1..k |-> h(s)] /\ g(k + 1) = [s \in 1..(k + 1) |-> h(s)]
              OBVIOUS
            <6> HIDE DEF h, g
            <6>3. \A s \in 1..(k + 1) : s # k + 1 => s \in 1..k
              BY <5>1
            <6>4. \A s \in 1..(k + 1) : h(s) = IF s = k + 1 THEN list[j + 1] ELSE g(k)[s]
              BY <6>1, <6>2, <6>3
            <6> QED
              BY <6>2, <6>4
          <5>5. Len(g(k)) = k
            BY <5>1
          <5> QED
            BY <5>1, <5>4, <5>5
        <4>3. g(k) \in U
          <5>1. FlattenSeq(ss(j)) \in U
            BY <2>4, FlattenType
          <5> HIDE DEF U, Q, k
          <5> QED
            BY <2>1, <3>3, <5>1
        <4> HIDE DEF g, ss, Q, x, k, y
        <4>4. g(k) \o <<list[j + 1]>> = Append(g(k), list[j + 1])
          <5>1. list[j + 1] \in S
            BY <1>0, <2>1
          <5> QED
            BY <4>3, <5>1 DEF U
        <4> QED
          BY <2>5, <3>2, <3>3, <3>4, <3>6, <4>1, <4>2, <4>4
      <3>7. CASE y % t # 0
        <4>1. x = <<>>
          BY <2>7, <3>5, <3>7
        <4>2. g(Q(j)) \in U
          <5> DEFINE q == ss(j)
          <5>1. q \in Seq(U) /\ FlattenSeq(q) = g(Q(j))
            BY <2>1, <2>4
          <5> HIDE DEF q
          <5>2. FlattenSeq(q) \in U
            BY <5>1, FlattenType
          <5> QED
            BY <5>1, <5>2
        <4> HIDE DEF g, ss, Q, x, k, y
        <4>3. g(Q(j)) \o <<>> = g(Q(j))
          BY <4>2, ConcatEmptySeq
        <4> QED
          BY <2>5, <3>2, <3>3, <3>4, <3>7, <4>1, <4>3
      <3> QED
        BY <3>6, <3>7
    <2> QED
      BY <2>6, <2>7
  <1>3. Nat \subseteq P
    <2> HIDE DEF P
    <2> QED
      BY <1>1, <1>2, Induct
  <1>4. FlattenSeq(ss(n)) = g(Q(n))
    <2>1. n \in P
      <3> HIDE DEF P
      <3> QED
        BY <1>0, <1>3
    <2> QED
      BY <1>0, <2>1
  <1>5. Q(n) = (to - from + t - 1) \div t
    BY <1>0
  <1> QED
    BY <1>4, <1>5 DEF Stepped, Picked
--------------------------------------------------------------------------------
(* evalArray's slice, against the positions that are chosen.                   *)
LEMMA SliceMeans ==
  ASSUME doc \in Documents, NEW v \in DOMAIN doc, doc[v].kind = "list", NEW p \in Params,
         ~ZeroElements(p, Len(Elements(v))), ~Bad(p, Elements(v))
  PROVE  Slice(p, Elements(v)) = Subscripted(doc, p, v)
  <1> DEFINE list == Kids(doc, v)
             n    == Len(doc[v].kids)
             from == From(p, n)
             to   == To(p, n)
             step == StepOf(p)
  <1>1. Elements(v) = list /\ list \in Seq(DOMAIN doc) /\ Len(list) = n /\ n \in Nat
    BY ElementsKids, KidsType
  <1> HIDE DEF list, n
  <1>2. ~ZeroElements(p, n) /\ Bounded(p, n) /\ ~BadStep(p)
    BY <1>1 DEF Bad
  <1>3. from \in Int /\ to \in Int /\ step \in Nat /\ step > 0
    BY <1>1, <1>2, EvalAssumption DEF From, To, StepOf, BadStep, Params, Entry, GoInt, MinInt
  <1>4. from \in Nat /\ to \in Nat /\ from < to /\ to <= n
    BY <1>1, <1>2, <1>3 DEF ZeroElements, Bounded
  <1>5. Slice(p, list) = Stepped(list, from, to, step)
    BY <1>1 DEF Slice, Stepped
  <1>6. Subscripted(doc, p, v) =
            FlattenSeq([s \in 1..n |-> IF Chosen(p, n, s) THEN <<list[s]>> ELSE <<>>])
    <2>1. "list" # "null"
      OBVIOUS
    <2> QED
      BY <1>2, <2>1 DEF Subscripted, n, list
  <1>7. [s \in 1..n |-> IF Chosen(p, n, s) THEN <<list[s]>> ELSE <<>>]
        = [s \in 1..Len(list) |->
               IF from < s /\ s <= to /\ (s - 1 - from) % step = 0 THEN <<list[s]>> ELSE <<>>]
    BY <1>1 DEF Chosen
  <1> HIDE DEF from, to, step
  <1>8. Subscripted(doc, p, v) = Picked(list, from, to, step)
    BY <1>6, <1>7 DEF Picked
  <1>9. Stepped(list, from, to, step) = Picked(list, from, to, step)
    <2>1. to <= Len(list)
      BY <1>1, <1>4
    <2> QED
      BY <1>1, <1>3, <1>4, <2>1, EveryStep
  <1> QED
    BY <1>1, <1>5, <1>8, <1>9

LEMMA ArrayMeans ==
  ASSUME doc \in Documents, NEW v \in DOMAIN doc, NEW p \in Params
  PROVE  /\ doc[v].kind = "null" => Subscripted(doc, p, v) = <<>>
         /\ doc[v].kind = "list" /\ ZeroElements(p, Len(Elements(v)))
               => Subscripted(doc, p, v) = <<>>
         /\ doc[v].kind # "null" /\ (doc[v].kind # "list" \/ Bad(p, Elements(v)))
               => Subscripted(doc, p, v) = <<Failure>>
  <1>1. Len(Elements(v)) = Len(doc[v].kids)
    BY ElementsKids, KidsType
  <1>2. "list" # "null"
    OBVIOUS
  <1> QED
    BY <1>1, <1>2 DEF Subscripted, Bad
--------------------------------------------------------------------------------
(* A step within a node: what the call will have found meets what it would     *)
(* have found before the step.                                                 *)
LEMMA StepMeans ==
  ASSUME NEW d \in Documents, NEW f \in Framed(d), NEW g \in Framed(d),
         f.at <= Len(f.nodes), g.nodes = f.nodes, g.at = f.at, g.cur = f.cur, g.left = <<>>,
         Here(f).type \notin {"text", "number", "identifier"},
         Here(f).type # "filter" => g.elems = <<>>,
         NEW c, NEW x \in Seq(Outcomes(d)), FrameMeans(d, c, f, x),
         Meets(c, Exact(d, f.nodes), Have(d, g), Have(d, f))
  PROVE  FrameMeans(d, c, g, x)
  <1>1. Here(g) = Here(f) /\ ~(f.at > Len(f.nodes))
    BY FramedType DEF Here
  <1>2. Fresh(g)
    BY <1>1 DEF Fresh, Blind
  <1>3. LeftMeans(d, c, g)
    BY DEF LeftMeans
  <1>4. Have(d, f) \in Seq(Outcomes(d)) /\ Have(d, g) \in Seq(Outcomes(d))
    BY ComingType
  <1>5. Meets(c, Exact(d, f.nodes), Have(d, f), x)
    BY DEF FrameMeans
  <1>6. Meets(c, Exact(d, f.nodes), Have(d, g), x)
    BY <1>4, <1>5, MeetsTrans
  <1> QED
    BY <1>2, <1>3, <1>6 DEF FrameMeans

LEMMA HaveMeets ==
  ASSUME NEW d \in Documents, NEW f \in Framed(d), NEW g \in Framed(d),
         f.at <= Len(f.nodes), g.nodes = f.nodes, g.at = f.at, NEW c, NEW e,
         Meets(c, e, g.out \o Coming(d, g), f.out \o Coming(d, f))
  PROVE  Meets(c, e, Have(d, g), Have(d, f))
  <1> DEFINE p == g.out \o Coming(d, g)
             q == f.out \o Coming(d, f)
  <1>1. /\ p \in Seq(Outcomes(d)) /\ Have(d, g) = Rest(d, f.nodes, f.at + 1, p)
        /\ q \in Seq(Outcomes(d)) /\ Have(d, f) = Rest(d, f.nodes, f.at + 1, q)
    BY ComingType
  <1>2. Meets(c, e, p, q)
    OBVIOUS
  <1> HIDE DEF p, q
  <1>3. f.nodes \in Lists /\ f.at + 1 \in Nat \ {0}
    BY FramedType
  <1>4. Meets(c, e, Rest(d, f.nodes, f.at + 1, p), Rest(d, f.nodes, f.at + 1, q))
    BY <1>1, <1>2, <1>3, RestMeets
  <1> QED
    BY <1>1, <1>4

(* What is to come, with the value at the head of the loop.                    *)
LEMMA ComingVisit ==
  ASSUME NEW d \in Documents, NEW f \in Framed(d), f.at <= Len(f.nodes),
         Here(f).type # "union", f.elems = <<>>
  PROVE  /\ Coming(d, f) = Each(Of(d, f.nodes, f.at), f.todo)
         /\ f.todo # <<>> =>
              LET a == Means(d, Denoted(d), Here(f), Head(f.todo))
                  b == Each(Of(d, f.nodes, f.at), Tail(f.todo))
              IN  /\ Coming(d, f) = a \o b /\ a \in Seq(Outcomes(d)) /\ b \in Seq(Outcomes(d))
                  /\ Head(f.todo) \in DOMAIN d /\ Tail(f.todo) \in Seq(DOMAIN d)
                  /\ Tail(f.todo) \in Seq(Outcomes(d))
  <1> DEFINE F == Of(d, f.nodes, f.at)
             O == Outcomes(d)
  <1>1. Fun(F, O, Seq(O)) /\ f.todo \in Seq(O) /\ f.todo \in Seq(DOMAIN d)
    BY FramedType, OfType
  <1>2. Coming(d, f) = Each(F, f.todo)
    <2>1. Coming(d, f) = Each(Tests(d, Denoted(d), Here(f)), <<>>) \o Each(F, f.todo)
      BY DEF Coming
    <2>2. Each(Tests(d, Denoted(d), Here(f)), <<>>) = <<>>
      BY EachEmpty
    <2>3. Each(F, f.todo) \in Seq(O)
      <3> HIDE DEF F, O
      <3> QED
        BY <1>1, EachType
    <2>4. Coming(d, f) = <<>> \o Each(F, f.todo)
      BY <2>1, <2>2
    <2> HIDE DEF F, O
    <2> QED
      BY <2>3, <2>4, ConcatEmptySeq
  <1>3. ASSUME f.todo # <<>>
        PROVE  /\ Each(F, f.todo) = F[Head(f.todo)] \o Each(F, Tail(f.todo))
               /\ F[Head(f.todo)] \in Seq(O) /\ Each(F, Tail(f.todo)) \in Seq(O)
               /\ Head(f.todo) \in DOMAIN d /\ Tail(f.todo) \in Seq(DOMAIN d)
               /\ Tail(f.todo) \in Seq(O)
    <2>1. Head(f.todo) \in DOMAIN d /\ Tail(f.todo) \in Seq(DOMAIN d)
      BY <1>1, <1>3, HeadAndTail
    <2>2. Tail(f.todo) \in Seq(O)
      BY <2>1, OutcomesType
    <2> HIDE DEF F, O
    <2>3. /\ Each(F, f.todo) = F[Head(f.todo)] \o Each(F, Tail(f.todo))
          /\ F[Head(f.todo)] \in Seq(O) /\ Each(F, Tail(f.todo)) \in Seq(O)
      BY ONLY <1>1, <1>3, EachHead
    <2> QED
      BY <2>1, <2>2, <2>3
  <1>4. ASSUME f.todo # <<>>
        PROVE  F[Head(f.todo)] = Means(d, Denoted(d), Here(f), Head(f.todo))
    <2>1. Head(f.todo) \in O /\ Head(f.todo) # Failure
      BY <1>3, <1>4, OutcomesType
    <2> QED
      BY <2>1 DEF Of, Here
  <1> QED
    BY <1>2, <1>3, <1>4

(* A value is visited: what it denotes joins the results.                      *)
LEMMA VisitMeans ==
  ASSUME NEW d \in Documents, NEW f \in Framed(d), f.at <= Len(f.nodes), f.todo # <<>>,
         Here(f).type \in {"field", "wildcard", "array"}, f.left = <<>>,
         NEW vals \in Seq(DOMAIN d), NEW c, NEW x \in Seq(Outcomes(d)), FrameMeans(d, c, f, x),
         Meets(FALSE, OneEntry(d), vals, Means(d, Denoted(d), Here(f), Head(f.todo)))
  PROVE  FrameMeans(d, c, [f EXCEPT !.todo = Tail(@), !.out = @ \o vals], x)
  <1> DEFINE g == [f EXCEPT !.todo = Tail(@), !.out = @ \o vals]
             a == Means(d, Denoted(d), Here(f), Head(f.todo))
             b == Each(Of(d, f.nodes, f.at), Tail(f.todo))
  <1>1. Here(f).type \notin {"union", "filter", "text", "number", "identifier"}
    OBVIOUS
  <1>2. f.elems = <<>>
    BY <1>1, FramedType DEF FrameMeans, Fresh
  <1>3. /\ Coming(d, f) = a \o b /\ a \in Seq(Outcomes(d)) /\ b \in Seq(Outcomes(d))
        /\ Tail(f.todo) \in Seq(DOMAIN d)
    BY <1>1, <1>2, ComingVisit
  <1>4. g \in Framed(d) /\ g.nodes = f.nodes /\ g.at = f.at /\ g.cur = f.cur /\ g.left = <<>>
        /\ g.elems = <<>> /\ g.todo = Tail(f.todo) /\ g.out = f.out \o vals
    <2>1. f.out \o vals \in Seq(DOMAIN d)
      BY FramedType, ConcatProperties
    <2> QED
      BY <1>2, <1>3, <2>1 DEF Framed
  <1> HIDE DEF g
  <1>5. Here(g) = Here(f)
    BY <1>4 DEF Here
  <1>6. Coming(d, g) = b
    BY <1>1, <1>4, <1>5, ComingVisit
  <1>7. Meets(c, Exact(d, f.nodes), vals, a)
    BY MeetsWeaker DEF Exact
  <1>8. vals \in Seq(Outcomes(d))
    BY OutcomesType
  <1> HIDE DEF a, b
  <1>9. Meets(c, Exact(d, f.nodes), Have(d, g), Have(d, f))
    BY <1>3, <1>4, <1>6, <1>7, <1>8, Advance
  <1>10. FrameMeans(d, c, g, x)
    BY <1>1, <1>4, <1>9, StepMeans
  <1> QED
    BY <1>10 DEF g
--------------------------------------------------------------------------------
LEMMA MeetsDeep ==
  ASSUME NEW S, NEW x \in Seq(S), NEW h \in Seq(S), NEW a \in Seq(S), NEW b \in Seq(S),
         NEW y \in Seq(S), NEW c, NEW e, Meets(c, e, a, b)
  PROVE  Meets(c, e, (x \o h) \o (a \o y), x \o ((h \o b) \o y))
  <1>1. x \o h \in Seq(S) /\ a \o y \in Seq(S) /\ b \o y \in Seq(S)
    BY ConcatProperties
  <1>2. (h \o b) \o y = h \o (b \o y)
    BY ConcatAssociative
  <1>3. x \o (h \o (b \o y)) = (x \o h) \o (b \o y)
    <2> DEFINE z == b \o y
    <2>1. z \in Seq(S)
      BY <1>1
    <2> HIDE DEF z
    <2>2. (x \o h) \o z = x \o (h \o z)
      BY <2>1, ConcatAssociative
    <2> QED
      BY <2>2 DEF z
  <1>4. Meets(c, e, x \o h, x \o h) /\ Meets(c, e, y, y)
    BY <1>1, MeetsRefl
  <1>5. Meets(c, e, a \o y, b \o y)
    BY <1>4, MeetsConcat
  <1> DEFINE p == x \o h
             q == a \o y
             r == b \o y
  <1>6. p \in Seq(S) /\ q \in Seq(S) /\ r \in Seq(S) /\ Meets(c, e, p, p) /\ Meets(c, e, q, r)
    BY <1>1, <1>4, <1>5
  <1>7. x \o ((h \o b) \o y) = p \o r
    BY <1>2, <1>3
  <1> HIDE DEF p, q, r
  <1>8. Meets(c, e, p \o q, p \o r)
    BY <1>6, MeetsConcat
  <1> QED
    BY <1>7, <1>8 DEF p, q

(* A value with contents comes before its contents, which are to be visited.   *)
LEMMA RecursiveMeans ==
  ASSUME NEW d \in Documents, NEW f \in Framed(d), f.at <= Len(f.nodes), f.todo # <<>>,
         Here(f).type = "recursive", f.left = <<>>,
         NEW v \in Seq(DOMAIN d), Meets(FALSE, OneEntry(d), v, Kids(d, Head(f.todo))),
         v = <<>> <=> d[Head(f.todo)].kids = <<>>,
         NEW c, NEW x \in Seq(Outcomes(d)), FrameMeans(d, c, f, x)
  PROVE  FrameMeans(d, c, [f EXCEPT !.todo = v \o Tail(@),
                                    !.out = IF v = <<>> THEN @ ELSE Append(@, Head(f.todo))], x)
  <1> DEFINE u == Head(f.todo)
             g == [f EXCEPT !.todo = v \o Tail(@), !.out = IF v = <<>> THEN @ ELSE Append(@, u)]
             F == Of(d, f.nodes, f.at)
             O == Outcomes(d)
             b == Each(F, Tail(f.todo))
             k == Each(F, Kids(d, u))
             w == Each(F, v)
             e == Exact(d, f.nodes)
  <1>1. Here(f).type \notin {"union", "filter", "text", "number", "identifier"}
    OBVIOUS
  <1>2. f.elems = <<>>
    BY <1>1, FramedType DEF FrameMeans, Fresh
  <1>3. /\ Coming(d, f) = Means(d, Denoted(d), Here(f), u) \o b /\ b \in Seq(O)
        /\ u \in DOMAIN d /\ Tail(f.todo) \in Seq(DOMAIN d) /\ Tail(f.todo) \in Seq(O)
    BY <1>1, <1>2, ComingVisit
  <1>4. Coming(d, f) = Descent(d)[u] \o b
    <2>1. Means(d, Denoted(d), Here(f), u) = Descent(d)[u]
      BY DEF Means
    <2> QED
      BY <1>3, <2>1
  <1>5. /\ v \o Tail(f.todo) \in Seq(DOMAIN d) /\ f.out \in Seq(DOMAIN d)
        /\ Append(f.out, u) \in Seq(DOMAIN d) /\ Append(f.out, u) = f.out \o <<u>>
        /\ <<u>> \in Seq(O) /\ f.out \in Seq(O) /\ u \in O /\ v \in Seq(O)
    <2>1. f.out \in Seq(DOMAIN d) /\ v \o Tail(f.todo) \in Seq(DOMAIN d) /\ f.out \in Seq(O)
          /\ u \in O /\ v \in Seq(O)
      BY <1>3, FramedType, ConcatProperties, OutcomesType
    <2> DEFINE q == f.out
    <2> HIDE DEF u, q
    <2>2. q \in Seq(DOMAIN d) /\ u \in DOMAIN d
      BY <1>3, <2>1 DEF q
    <2>3. Append(q, u) \in Seq(DOMAIN d) /\ Append(q, u) = q \o <<u>>
      BY <2>2
    <2>4. <<u>> \in Seq(O)
      BY <2>1
    <2> QED
      BY <2>1, <2>3, <2>4 DEF q
  <1>6. /\ g \in Framed(d) /\ g.nodes = f.nodes /\ g.at = f.at /\ g.cur = f.cur
        /\ g.left = <<>> /\ g.elems = <<>> /\ g.todo = v \o Tail(f.todo)
        /\ g.out = IF v = <<>> THEN f.out ELSE Append(f.out, u)
    BY <1>2, <1>5 DEF Framed
  <1> HIDE DEF g, u
  <1>7. Here(g) = Here(f)
    BY <1>6 DEF Here
  <1>8. Fun(F, O, Seq(O)) /\ Keeps(F)
    BY FramedType, OfType
  <1>9. \A z \in DOMAIN d : F[z] = Descent(d)[z]
    <2> SUFFICES ASSUME NEW z \in DOMAIN d PROVE F[z] = Descent(d)[z]
      OBVIOUS
    <2>1. z \in O /\ z # Failure
      BY OutcomesType
    <2>2. F[z] = Means(d, Denoted(d), Here(f), z)
      BY <2>1 DEF Of, Here
    <2> QED
      BY <2>2 DEF Means
  <1>10. Coming(d, g) = w \o b /\ w \in Seq(O)
    <2>1. Coming(d, g) = Each(F, g.todo)
      BY <1>1, <1>6, <1>7, ComingVisit
    <2> DEFINE t == Tail(f.todo)
    <2>2. t \in Seq(O) /\ g.todo = v \o t
      BY <1>3, <1>6
    <2> HIDE DEF F, O, t
    <2>3. v \in Seq(O) /\ Fun(F, O, Seq(O))
      BY <1>5, <1>8
    <2>4. Each(F, v \o t) = Each(F, v) \o Each(F, t)
      BY ONLY <2>2, <2>3, EachConcat
    <2>5. Each(F, v) \in Seq(O)
      BY ONLY <2>3, EachType
    <2> QED
      BY <2>1, <2>2, <2>4, <2>5 DEF t
  <1>11. Descent(d)[u] = IF v = <<>> THEN <<>> ELSE <<u>> \o k
    <2>1. Descent(d)[u] = Down(d, Descent(d), u)
      BY <1>3, DescentType
    <2>2. Each(Descent(d), Kids(d, u)) = k
      <3>1. Len(Kids(d, u)) = Len(d[u].kids)
            /\ \A i \in 1..Len(d[u].kids) : Kids(d, u)[i] \in DOMAIN d
        BY <1>3, KidsType
      <3>2. \A i \in 1..Len(Kids(d, u)) : Descent(d)[Kids(d, u)[i]] = F[Kids(d, u)[i]]
        <4> HIDE DEF F
        <4> QED
          BY <1>9, <3>1
      <3> HIDE DEF F
      <3> QED
        BY <3>2, EachSame
    <2>3. v = <<>> <=> d[u].kids = <<>>
      BY DEF u
    <2> QED
      BY <2>1, <2>2, <2>3 DEF Down
  <1>12. Meets(c, e, w, k) /\ k \in Seq(O)
    <2>1. Kids(d, u) \in Seq(O)
      BY <1>3, KidsType, OutcomesType
    <2>2. Meets(c, e, v, Kids(d, u))
      BY MeetsWeaker DEF Exact, u
    <2> HIDE DEF F, O, e
    <2> QED
      BY <1>5, <1>8, <2>1, <2>2, MeetsEach, EachType
  <1>13. Meets(c, e, g.out \o Coming(d, g), f.out \o Coming(d, f))
    <2> HIDE DEF F, O, e, b, k, w
    <2>1. CASE v = <<>>
      <3>1. Coming(d, f) = <<>> \o b /\ g.out = f.out
        BY <1>4, <1>6, <1>11, <2>1
      <3>2. w = <<>>
        BY <2>1, EachEmpty DEF w
      <3>3. Coming(d, g) = <<>> \o b
        BY <1>10, <3>2
      <3>4. <<>> \o b = b /\ f.out \o b \in Seq(O)
        BY <1>3, <1>5, ConcatEmptySeq, ConcatProperties
      <3>5. Meets(c, e, f.out \o b, f.out \o b)
        BY <3>4, MeetsRefl
      <3> QED
        BY <3>1, <3>3, <3>4, <3>5
    <2>2. CASE v # <<>>
      <3> DEFINE h == <<u>>
      <3>1. h \in Seq(O) /\ Coming(d, f) = (h \o k) \o b /\ g.out = f.out \o h
        BY <1>4, <1>5, <1>6, <1>11, <2>2
      <3> HIDE DEF h
      <3>2. Meets(c, e, (f.out \o h) \o (w \o b), f.out \o ((h \o k) \o b))
        BY <1>3, <1>5, <1>10, <1>12, <3>1, MeetsDeep
      <3> QED
        BY <1>10, <3>1, <3>2
    <2> QED
      BY <2>1, <2>2
  <1>14. Meets(c, e, Have(d, g), Have(d, f))
    <2> HIDE DEF e
    <2> QED
      BY <1>6, <1>13, HaveMeets
  <1>15. FrameMeans(d, c, g, x)
    BY <1>1, <1>6, <1>14, StepMeans
  <1> QED
    BY <1>15 DEF g, u
--------------------------------------------------------------------------------
(* The elements of a list are set out to be tested.                            *)
LEMMA FilterMeans ==
  ASSUME NEW d \in Documents, NEW f \in Framed(d), f.at <= Len(f.nodes), f.todo # <<>>,
         Here(f).type = "filter", f.elems = <<>>, f.left = <<>>, d[Head(f.todo)].kind = "list",
         NEW c, NEW x \in Seq(Outcomes(d)), FrameMeans(d, c, f, x)
  PROVE  FrameMeans(d, c, [[f EXCEPT !.todo = Tail(@), !.out = @ \o <<>>]
                               EXCEPT !.elems = Kids(d, Head(f.todo))], x)
  <1> DEFINE u == Head(f.todo)
             g == [[f EXCEPT !.todo = Tail(@), !.out = @ \o <<>>] EXCEPT !.elems = Kids(d, u)]
             b == Each(Of(d, f.nodes, f.at), Tail(f.todo))
             M == Denoted(d)
  <1>1. Here(f).type \notin {"union", "text", "number", "identifier"}
    OBVIOUS
  <1>2. /\ Coming(d, f) = Means(d, M, Here(f), u) \o b
        /\ u \in DOMAIN d /\ Tail(f.todo) \in Seq(DOMAIN d)
    BY <1>1, ComingVisit
  <1>3. Means(d, M, Here(f), u) = Each(Tests(d, M, Here(f)), Kids(d, u))
    BY DEF Means
  <1>4. f.out \o <<>> = f.out /\ f.out \in Seq(DOMAIN d) /\ Kids(d, u) \in Seq(DOMAIN d)
    BY <1>2, FramedType, ConcatEmptySeq, KidsType
  <1>5. /\ g \in Framed(d) /\ g.nodes = f.nodes /\ g.at = f.at /\ g.cur = f.cur
        /\ g.left = <<>> /\ g.elems = Kids(d, u) /\ g.todo = Tail(f.todo) /\ g.out = f.out
    <2> HIDE DEF u
    <2> QED
      BY <1>2, <1>4 DEF Framed
  <1> HIDE DEF g, u
  <1>6. Here(g) = Here(f)
    BY <1>5 DEF Here
  <1>7. Coming(d, g) = Coming(d, f)
    BY <1>1, <1>2, <1>3, <1>5, <1>6 DEF Coming
  <1>8. Meets(c, Exact(d, f.nodes), g.out \o Coming(d, g), f.out \o Coming(d, f))
    <2>1. f.out \o Coming(d, f) \in Seq(Outcomes(d))
      BY ComingType
    <2> QED
      BY <1>5, <1>7, <2>1, MeetsRefl
  <1>9. Meets(c, Exact(d, f.nodes), Have(d, g), Have(d, f))
    BY <1>5, <1>8, HaveMeets
  <1>10. FrameMeans(d, c, g, x)
    BY <1>1, <1>5, <1>9, StepMeans
  <1> QED
    BY <1>10 DEF g, u

LEMMA ComingTest ==
  ASSUME NEW d \in Documents, NEW f \in Framed(d), f.at <= Len(f.nodes),
         Here(f).type = "filter", f.elems # <<>>
  PROVE  LET T == Tests(d, Denoted(d), Here(f))
             y == Each(T, Tail(f.elems)) \o Each(Of(d, f.nodes, f.at), f.todo)
         IN  /\ Coming(d, f) = Test(d, Denoted(d), Here(f), Head(f.elems)) \o y
             /\ y \in Seq(Outcomes(d))
             /\ Test(d, Denoted(d), Here(f), Head(f.elems)) \in Seq(Outcomes(d))
             /\ Head(f.elems) \in DOMAIN d /\ Tail(f.elems) \in Seq(DOMAIN d)
  <1> DEFINE O == Outcomes(d)
             S == DOMAIN d
             T == Tests(d, Denoted(d), Here(f))
             a == Each(T, Tail(f.elems))
             b == Each(Of(d, f.nodes, f.at), f.todo)
             u == Head(f.elems)
  <1>1. f.elems \in Seq(S) /\ Fun(T, S, Seq(O)) /\ f.todo \in Seq(O)
        /\ Fun(Of(d, f.nodes, f.at), O, Seq(O))
    BY FramedType, TestsType, OfType
  <1>2. u \in S /\ Tail(f.elems) \in Seq(S)
    BY <1>1, HeadAndTail
  <1>3. T[u] = Test(d, Denoted(d), Here(f), u)
    BY <1>2 DEF Tests
  <1>4. b \in Seq(O)
    <2> HIDE DEF O
    <2> QED
      BY <1>1, EachType
  <1>5. Coming(d, f) = Each(T, f.elems) \o b
    <2>1. Here(f).type # "union"
      OBVIOUS
    <2> QED
      BY <2>1 DEF Coming
  <1> HIDE DEF T, O, S, b
  <1>6. Each(T, f.elems) = T[u] \o a /\ T[u] \in Seq(O) /\ a \in Seq(O)
    <2> DEFINE s == f.elems
    <2>1. Fun(T, S, Seq(O)) /\ s \in Seq(S) /\ s # <<>>
      BY <1>1
    <2> HIDE DEF s
    <2>2. /\ Each(T, s) = T[Head(s)] \o Each(T, Tail(s))
          /\ T[Head(s)] \in Seq(O) /\ Each(T, Tail(s)) \in Seq(O)
      BY ONLY <2>1, EachHead
    <2> QED
      BY <2>2 DEF s
  <1> HIDE DEF a, u
  <1>7. (T[u] \o a) \o b = T[u] \o (a \o b)
    <2> DEFINE z == T[u]
    <2>1. z \in Seq(O) /\ a \in Seq(O) /\ b \in Seq(O)
      BY <1>4, <1>6
    <2> HIDE DEF z
    <2>2. (z \o a) \o b = z \o (a \o b)
      BY ONLY <2>1, ConcatAssociative
    <2> QED
      BY <2>2 DEF z
  <1>8. a \o b \in Seq(O)
    BY ONLY <1>4, <1>6, ConcatProperties
  <1> QED
    BY <1>2, <1>3, <1>5, <1>6, <1>7, <1>8 DEF a, b, T, O, S, u

(* An element has been tested.                                                 *)
LEMMA TestedMeans ==
  ASSUME NEW d \in Documents, NEW f \in Framed(d), f.at <= Len(f.nodes),
         Here(f).type = "filter", f.elems # <<>>, NEW keep,
         NEW c, NEW x \in Seq(Outcomes(d)), FrameMeans(d, c, f, x),
         Meets(c, TRUE, IF keep THEN <<Head(f.elems)>> ELSE <<>>,
               Test(d, Denoted(d), Here(f), Head(f.elems)))
  PROVE  FrameMeans(d, c, [f EXCEPT !.elems = Tail(@), !.left = <<>>,
                             !.out = IF keep THEN Append(@, Head(f.elems)) ELSE @], x)
  <1> DEFINE u == Head(f.elems)
             g == [f EXCEPT !.elems = Tail(@), !.left = <<>>,
                            !.out = IF keep THEN Append(@, u) ELSE @]
             a == IF keep THEN <<u>> ELSE <<>>
             b == Test(d, Denoted(d), Here(f), u)
             y == Each(Tests(d, Denoted(d), Here(f)), Tail(f.elems))
                    \o Each(Of(d, f.nodes, f.at), f.todo)
  <1>1. Here(f).type \notin {"union", "text", "number", "identifier"}
    OBVIOUS
  <1>2. /\ Coming(d, f) = b \o y /\ b \in Seq(Outcomes(d))
        /\ u \in DOMAIN d /\ Tail(f.elems) \in Seq(DOMAIN d)
    BY ComingTest
  <1>3. Meets(c, Exact(d, f.nodes), a, b)
    <2>1. Meets(c, TRUE, a, b)
      OBVIOUS
    <2> HIDE DEF a, b
    <2> QED
      BY <2>1 DEF Meets
  <1>4. a \in Seq(DOMAIN d) /\ f.out \in Seq(DOMAIN d) /\ f.out \o a \in Seq(DOMAIN d)
        /\ f.out \o a = IF keep THEN Append(f.out, u) ELSE f.out
    <2> HIDE DEF u
    <2>1. f.out \in Seq(DOMAIN d) /\ <<u>> \in Seq(DOMAIN d) /\ <<>> \in Seq(DOMAIN d)
      BY <1>2, FramedType, EmptySeq
    <2>2. f.out \o <<>> = f.out
      BY <2>1, ConcatEmptySeq
    <2>3. f.out \o <<u>> = Append(f.out, u) /\ Append(f.out, u) \in Seq(DOMAIN d)
      BY <1>2, <2>1
    <2> QED
      BY <2>1, <2>2, <2>3
  <1>5. a \in Seq(Outcomes(d))
    BY <1>4, OutcomesType
  <1>6. /\ g \in Framed(d) /\ g.nodes = f.nodes /\ g.at = f.at /\ g.cur = f.cur
        /\ g.left = <<>> /\ g.elems = Tail(f.elems) /\ g.todo = f.todo /\ g.out = f.out \o a
    <2> HIDE DEF u, a
    <2>1. <<>> \in Seq(DOMAIN d)
      BY EmptySeq
    <2>2. g = [f EXCEPT !.elems = Tail(f.elems), !.left = <<>>, !.out = f.out \o a]
      BY <1>4 DEF Framed
    <2> HIDE DEF g
    <2> QED
      BY <1>2, <1>4, <2>1, <2>2 DEF Framed
  <1> HIDE DEF g, u, a, b
  <1>7. Here(g) = Here(f)
    BY <1>6 DEF Here
  <1>8. Coming(d, g) = y
    BY <1>1, <1>6, <1>7 DEF Coming
  <1>9. Coming(d, f) = b \o Coming(d, g)
    BY <1>2, <1>8
  <1> HIDE DEF y
  <1>10. Meets(c, Exact(d, f.nodes), Have(d, g), Have(d, f))
    BY <1>2, <1>3, <1>5, <1>6, <1>9, Advance
  <1>11. FrameMeans(d, c, g, x)
    BY <1>1, <1>6, <1>10, StepMeans
  <1> QED
    BY <1>11 DEF g, u

(* A member of a union has been evaluated.                                     *)
LEMMA MemberMeans ==
  ASSUME NEW d \in Documents, NEW f \in Framed(d), f.at <= Len(f.nodes),
         Here(f).type = "union", f.m <= Len(Here(f).members), f.left = <<>>,
         NEW vals \in Seq(DOMAIN d), NEW c, NEW e, NEW x \in Seq(Outcomes(d)),
         FrameMeans(d, c, f, x), Meets(c, e, vals, Rest(d, Here(f).members[f.m], 1, f.cur))
  PROVE  FrameMeans(d, c, [f EXCEPT !.m = @ + 1, !.out = @ \o vals], x)
  <1> DEFINE g == [f EXCEPT !.m = @ + 1, !.out = @ \o vals]
             b == Rest(d, Here(f).members[f.m], 1, f.cur)
  <1>1. Here(f).type \notin {"filter", "text", "number", "identifier"}
    OBVIOUS
  <1>2. Coming(d, f) = b \o Members(d, Here(f), f.m + 1, f.cur) /\ b \in Seq(Outcomes(d))
    <2>1. Here(f) \in Nodes /\ f.m \in Nat \ {0} /\ f.cur \in Seq(Outcomes(d))
      BY FramedType
    <2>2. Members(d, Here(f), f.m, f.cur) = b \o Members(d, Here(f), f.m + 1, f.cur)
          /\ b \in Seq(Outcomes(d))
      BY <2>1, MembersNext
    <2> QED
      BY <2>2 DEF Coming
  <1>3. f.elems = <<>>
    BY <1>1, FramedType DEF FrameMeans, Fresh
  <1>4. /\ g \in Framed(d) /\ g.nodes = f.nodes /\ g.at = f.at /\ g.cur = f.cur
        /\ g.left = <<>> /\ g.elems = <<>> /\ g.m = f.m + 1 /\ g.out = f.out \o vals
    <2>1. f.out \o vals \in Seq(DOMAIN d) /\ f.m + 1 \in Nat \ {0}
      BY FramedType, ConcatProperties
    <2>2. g = [f EXCEPT !.m = f.m + 1, !.out = f.out \o vals]
      BY DEF Framed
    <2> HIDE DEF g
    <2> QED
      BY <1>3, <2>1, <2>2 DEF Framed
  <1> HIDE DEF g
  <1>5. Here(g) = Here(f)
    BY <1>4 DEF Here
  <1>6. Coming(d, f) = b \o Coming(d, g)
    BY <1>2, <1>4, <1>5 DEF Coming
  <1>7. Meets(c, Exact(d, f.nodes), vals, b)
    <2>1. ~Exact(d, f.nodes)
      BY FramedType, ListType DEF Exact, NoUnion, Here
    <2> QED
      BY <2>1, MeetsWeaker
  <1>8. vals \in Seq(Outcomes(d))
    BY OutcomesType
  <1> HIDE DEF b
  <1>9. Meets(c, Exact(d, f.nodes), Have(d, g), Have(d, f))
    BY <1>2, <1>4, <1>6, <1>7, <1>8, Advance
  <1>10. FrameMeans(d, c, g, x)
    BY <1>1, <1>4, <1>9, StepMeans
  <1> QED
    BY <1>10 DEF g
--------------------------------------------------------------------------------
(* Where the evaluator fails a failure is denoted.                             *)
LEMMA GoalFails ==
  ASSUME NEW d \in Documents, NEW f \in Framed(d), f.at <= Len(f.nodes),
         NEW c, NEW x \in Seq(Outcomes(d)), FrameMeans(d, c, f, x), Fails(Have(d, f))
  PROVE  Fails(x)
  <1>1. Have(d, f) \in Seq(Outcomes(d)) /\ Meets(c, Exact(d, f.nodes), Have(d, f), x)
    BY ComingType DEF FrameMeans
  <1> QED
    BY <1>1, MeetsFails

LEMMA VisitFails ==
  ASSUME NEW d \in Documents, NEW f \in Framed(d), f.at <= Len(f.nodes), f.todo # <<>>,
         Here(f).type # "union", f.elems = <<>>,
         Means(d, Denoted(d), Here(f), Head(f.todo)) = <<Failure>>,
         NEW c, NEW x \in Seq(Outcomes(d)), FrameMeans(d, c, f, x)
  PROVE  Fails(x)
  <1> DEFINE a == Means(d, Denoted(d), Here(f), Head(f.todo))
             b == Each(Of(d, f.nodes, f.at), Tail(f.todo))
  <1>1. Coming(d, f) = a \o b /\ a \in Seq(Outcomes(d)) /\ b \in Seq(Outcomes(d))
    BY ComingVisit
  <1>2. Fails(a)
    BY FailsOne
  <1> HIDE DEF a, b
  <1>3. Fails(Have(d, f))
    BY <1>1, <1>2, Stuck
  <1> QED
    BY <1>3, GoalFails

LEMMA TestFails ==
  ASSUME NEW d \in Documents, NEW f \in Framed(d), f.at <= Len(f.nodes),
         Here(f).type = "filter", f.elems # <<>>,
         Fails(Test(d, Denoted(d), Here(f), Head(f.elems))),
         NEW c, NEW x \in Seq(Outcomes(d)), FrameMeans(d, c, f, x)
  PROVE  Fails(x)
  <1> DEFINE a == Test(d, Denoted(d), Here(f), Head(f.elems))
             b == Each(Tests(d, Denoted(d), Here(f)), Tail(f.elems))
                    \o Each(Of(d, f.nodes, f.at), f.todo)
  <1>1. Coming(d, f) = a \o b /\ a \in Seq(Outcomes(d)) /\ b \in Seq(Outcomes(d))
    BY ComingTest
  <1>2. Fails(a)
    OBVIOUS
  <1> HIDE DEF a, b
  <1>3. Fails(Have(d, f))
    BY <1>1, <1>2, Stuck
  <1> QED
    BY <1>3, GoalFails

LEMMA MemberFails ==
  ASSUME NEW d \in Documents, NEW f \in Framed(d), f.at <= Len(f.nodes),
         Here(f).type = "union", f.m <= Len(Here(f).members),
         Fails(Rest(d, Here(f).members[f.m], 1, f.cur)),
         NEW c, NEW x \in Seq(Outcomes(d)), FrameMeans(d, c, f, x)
  PROVE  Fails(x)
  <1> DEFINE a == Rest(d, Here(f).members[f.m], 1, f.cur)
             b == Members(d, Here(f), f.m + 1, f.cur)
  <1>1. Coming(d, f) = a \o b /\ a \in Seq(Outcomes(d)) /\ b \in Seq(Outcomes(d))
    <2>1. Here(f) \in Nodes /\ f.m \in Nat \ {0} /\ f.cur \in Seq(Outcomes(d))
          /\ f.m + 1 \in Nat \ {0}
      BY FramedType
    <2>2. Members(d, Here(f), f.m, f.cur) = a \o b /\ a \in Seq(Outcomes(d))
      BY <2>1, MembersNext
    <2>3. b \in Seq(Outcomes(d))
      BY <2>1, MembersNext
    <2> QED
      BY <2>2, <2>3 DEF Coming
  <1>2. Fails(a)
    OBVIOUS
  <1> HIDE DEF a, b
  <1>3. Fails(Have(d, f))
    BY <1>1, <1>2, Stuck
  <1> QED
    BY <1>3, GoalFails
--------------------------------------------------------------------------------
(* The ends of the loops.                                                      *)
LEMMA LoopMeans ==
  ASSUME Regular, NEW d \in Documents, NEW f \in Framed(d), f.at <= Len(f.nodes),
         \/ Here(f).type # "union" /\ f.elems = <<>> /\ f.todo = <<>>
         \/ Here(f).type = "union" /\ f.m > Len(Here(f).members),
         NEW c, NEW x \in Seq(Outcomes(d)), FrameMeans(d, c, f, x)
  PROVE  Coming(d, f) = <<>> /\ FrameMeans(d, c, Started(f.nodes, f.at + 1, f.out), x)
  <1>1. Coming(d, f) = <<>>
    <2>1. CASE Here(f).type # "union"
      <3>1. Coming(d, f) = Each(Of(d, f.nodes, f.at), <<>>)
        BY <2>1, ComingVisit
      <3> QED
        BY <3>1, EachEmpty
    <2>2. CASE Here(f).type = "union"
      <3>1. Here(f) \in Nodes /\ f.m \in Nat \ {0} /\ f.cur \in Seq(Outcomes(d))
        BY FramedType
      <3>2. Members(d, Here(f), f.m, f.cur) = <<>>
        BY <2>2, <3>1, MembersNext
      <3> QED
        BY <2>2, <3>2 DEF Coming
    <2> QED
      BY <2>1, <2>2
  <1>2. f.out \in Seq(DOMAIN d) /\ f.out \in Seq(Outcomes(d)) /\ f.out \o <<>> = f.out
    BY FramedType, ConcatEmptySeq
  <1>3. Meets(c, Exact(d, f.nodes), f.out, f.out \o Coming(d, f))
    BY <1>1, <1>2, MeetsRefl
  <1>4. FrameMeans(d, c, Started(f.nodes, f.at + 1, f.out), x)
    BY <1>2, <1>3, NextMeans
  <1> QED
    BY <1>1, <1>4

Repeated(w, s) == [i \in DOMAIN s |-> w]

Constantly(F, s, w) == \A i \in 1..Len(s) : F[s[i]] = <<w>>

LEMMA EachConstant ==
  ASSUME NEW S, NEW T, NEW F, Fun(F, S, Seq(T)), NEW w \in T, NEW s \in Seq(S),
         Constantly(F, s, w)
  PROVE  Each(F, s) = Repeated(w, s) /\ Repeated(w, s) \in Seq(T)
  <1> DEFINE g(q) == [i \in 1..Len(q) |-> w]
             P == {q \in Seq(S) : (\A i \in 1..Len(q) : F[q[i]] = <<w>>)
                                     => Each(F, q) = g(q) /\ g(q) \in Seq(T)}
  <1>1. <<>> \in P
    <2>1. g(<<>>) = <<>> /\ <<>> \in Seq(T)
      OBVIOUS
    <2>2. Each(F, <<>>) = <<>>
      BY EachEmpty
    <2> HIDE DEF g
    <2> QED
      BY <2>1, <2>2, EmptySeq
  <1>2. ASSUME NEW q \in Seq(S), NEW v \in S, q \in P PROVE Append(q, v) \in P
    <2> DEFINE r == Append(q, v)
    <2>1. r \in Seq(S) /\ Len(r) = Len(q) + 1 /\ Len(q) \in Nat /\ r[Len(q) + 1] = v
          /\ \A i \in 1..Len(q) : r[i] = q[i]
      OBVIOUS
    <2>2. Each(F, r) = Each(F, q) \o F[v]
      BY EachAppend
    <2> HIDE DEF r
    <2> SUFFICES ASSUME \A i \in 1..Len(r) : F[r[i]] = <<w>>
                 PROVE  Each(F, r) = g(r) /\ g(r) \in Seq(T)
      BY <2>1 DEF r
    <2>3. F[v] = <<w>> /\ \A i \in 1..Len(q) : F[q[i]] = <<w>>
      <3>1. Len(q) + 1 \in 1..Len(r) /\ \A i \in 1..Len(q) : i \in 1..Len(r)
        BY <2>1
      <3> QED
        BY <2>1, <3>1
    <2>4. Each(F, q) = g(q) /\ g(q) \in Seq(T)
      BY <1>2, <2>3
    <2>5. g(r) = Append(g(q), w) /\ g(r) \in Seq(T)
      BY <2>1, <2>4
    <2>6. g(q) \o <<w>> = Append(g(q), w)
      BY <2>4
    <2> QED
      BY <2>2, <2>3, <2>4, <2>5, <2>6
  <1> HIDE DEF P
  <1>3. Seq(S) \subseteq P
    BY <1>1, <1>2, SeqInduct
  <1>4. Each(F, s) = g(s) /\ g(s) \in Seq(T) /\ DOMAIN s = 1..Len(s)
    BY <1>3, LenProperties DEF P, Constantly
  <1> QED
    BY <1>4 DEF Repeated

(* A literal stands for every value of the input.                              *)
LEMMA LiteralMeans ==
  ASSUME Regular, NEW d \in Documents, NEW f \in Framed(d), f.at <= Len(f.nodes),
         Here(f).type \in {"text", "number"},
         NEW c, NEW x \in Seq(Outcomes(d)), FrameMeans(d, c, f, x)
  PROVE  LET w == [i \in DOMAIN f.cur |-> Here(f).lit]
         IN  /\ FrameMeans(d, c, Started(f.nodes, f.at + 1, w), x) /\ w \in Seq(DOMAIN d)
             /\ Here(f).type = "text" => w = <<Here(f).lit>>
  <1> DEFINE w == [i \in DOMAIN f.cur |-> Here(f).lit]
             F == Of(d, f.nodes, f.at)
             O == Outcomes(d)
             lit == Here(f).lit
  <1>1. Here(f).type \notin {"field", "wildcard", "recursive", "array", "filter", "union",
                             "identifier"}
    OBVIOUS
  <1>2. lit \in DOMAIN d /\ f.todo = f.cur /\ f.out = <<>> /\ f.elems = <<>>
        /\ (Here(f).type = "text" => Len(f.cur) = 1) /\ f.cur \in Seq(DOMAIN d) /\ f.cur \in Seq(O)
    BY <1>1, FramedType DEF IsNode, FrameMeans, Fresh, Blind
  <1>3. Coming(d, f) = Each(F, f.cur)
    BY <1>1, <1>2, ComingVisit
  <1>4. \A i \in 1..Len(f.cur) : F[f.cur[i]] = <<lit>>
    <2> SUFFICES ASSUME NEW i \in 1..Len(f.cur) PROVE F[f.cur[i]] = <<lit>>
      OBVIOUS
    <2> DEFINE v == f.cur[i]
    <2>1. v \in DOMAIN d /\ v \in O /\ v # Failure
      BY <1>2, ElementOfSeq, OutcomesType
    <2> HIDE DEF v
    <2>2. F[v] = Means(d, Denoted(d), Here(f), v)
      BY <2>1 DEF Of, Here
    <2>3. Means(d, Denoted(d), Here(f), v) = <<lit>>
      BY <1>1 DEF Means
    <2> QED
      BY <2>2, <2>3 DEF v
  <1>5. Fun(F, O, Seq(O)) /\ lit \in O
    BY <1>2, FramedType, OfType, OutcomesType
  <1>6. w \in Seq(DOMAIN d)
    <2>1. DOMAIN f.cur = 1..Len(f.cur) /\ Len(f.cur) \in Nat
      BY <1>2, LenProperties
    <2>2. w \in [1..Len(f.cur) -> DOMAIN d]
      BY <1>2, <2>1
    <2> QED
      BY <2>1, <2>2, SeqDef
  <1>7. Here(f).type = "text" => w = <<lit>>
    <2>1. DOMAIN f.cur = 1..Len(f.cur)
      BY <1>2, LenProperties
    <2> HIDE DEF lit
    <2>2. ASSUME Len(f.cur) = 1 PROVE [i \in DOMAIN f.cur |-> lit] = <<lit>>
      BY <2>1, <2>2
    <2> QED
      BY <1>2, <2>2 DEF lit
  <1>8. Each(F, f.cur) = w
    <2> DEFINE s == f.cur
    <2>1. s \in Seq(O) /\ Constantly(F, s, lit)
      BY <1>2, <1>4 DEF Constantly
    <2> HIDE DEF F, O, lit, s
    <2>2. Each(F, s) = Repeated(lit, s)
      BY ONLY <1>5, <2>1, EachConstant
    <2> QED
      BY <2>2 DEF s, lit, Repeated
  <1>9. w \in Seq(O) /\ f.out \o Coming(d, f) = w
    <2>1. w \in Seq(O)
      BY <1>6, OutcomesType
    <2> HIDE DEF w, F
    <2> QED
      BY <1>2, <1>3, <1>8, <2>1, ConcatEmptySeq
  <1> HIDE DEF w, lit
  <1>10. Meets(c, Exact(d, f.nodes), w, f.out \o Coming(d, f))
    BY <1>9, MeetsRefl
  <1>11. FrameMeans(d, c, Started(f.nodes, f.at + 1, w), x)
    BY <1>6, <1>10, NextMeans
  <1> QED
    BY <1>6, <1>7, <1>11 DEF w, lit

(* A selection of no elements leaves the loop: what is still to visit is lost. *)
LEMMA ZeroMeans ==
  ASSUME Regular, NEW d \in Documents, NEW f \in Framed(d), f.at <= Len(f.nodes),
         f.todo # <<>>, Here(f).type = "array",
         Means(d, Denoted(d), Here(f), Head(f.todo)) = <<>>,
         NEW b, NEW c, c = (b \/ Len(f.todo) > 1),
         NEW x \in Seq(Outcomes(d)), FrameMeans(d, b, f, x)
  PROVE  FrameMeans(d, c, Started(f.nodes, f.at + 1, f.out), x)
  <1> DEFINE O == Outcomes(d)
             y == Each(Of(d, f.nodes, f.at), Tail(f.todo))
  <1>1. Here(f).type \notin {"union", "filter"}
    OBVIOUS
  <1>2. f.elems = <<>>
    BY <1>1, FramedType DEF FrameMeans, Fresh
  <1>3. Coming(d, f) = <<>> \o y /\ y \in Seq(O)
    BY <1>1, <1>2, ComingVisit
  <1>4. f.out \in Seq(DOMAIN d) /\ f.out \in Seq(O) /\ f.todo \in Seq(DOMAIN d)
    BY FramedType
  <1>5. ASSUME Len(f.todo) <= 1 PROVE y = <<>>
    <2>1. Tail(f.todo) = <<>>
      BY <1>4, <1>5
    <2> QED
      BY <2>1, EachEmpty
  <1> HIDE DEF y, O
  <1>6. Coming(d, f) = y /\ f.out \o <<>> = f.out /\ <<>> \in Seq(O)
    BY <1>3, <1>4, ConcatEmptySeq, EmptySeq
  <1>7. Meets(c, Exact(d, f.nodes), f.out, f.out \o y)
    <2>1. Meets(c, Exact(d, f.nodes), <<>>, y)
      <3>1. Len(f.todo) \in Nat
        BY <1>4, LenProperties
      <3>2. CASE Len(f.todo) > 1
        <4>1. Meets(TRUE, Exact(d, f.nodes), <<>>, y)
          BY <1>3, MeetsEmpty
        <4> QED
          BY <3>2, <4>1
      <3>3. CASE Len(f.todo) <= 1
        <4>1. y = <<>>
          BY <1>5, <3>3
        <4>2. Meets(c, Exact(d, f.nodes), <<>>, <<>>)
          BY <1>6, MeetsRefl
        <4> QED
          BY <4>1, <4>2
      <3> QED
        BY <3>1, <3>2, <3>3
    <2>2. Meets(c, Exact(d, f.nodes), f.out, f.out)
      BY <1>4, MeetsRefl
    <2> DEFINE z == <<>>
               w == f.out
    <2>3. z \in Seq(O) /\ w \in Seq(O) /\ Meets(c, Exact(d, f.nodes), z, y)
          /\ Meets(c, Exact(d, f.nodes), w, w) /\ w \o z = w
      BY <1>4, <1>6, <2>1, <2>2
    <2> HIDE DEF z, w
    <2>4. Meets(c, Exact(d, f.nodes), w \o z, w \o y)
      BY <1>3, <2>3, MeetsConcat
    <2> QED
      BY <2>3, <2>4 DEF w
  <1>8. b => c
    OBVIOUS
  <1> QED
    BY <1>4, <1>6, <1>7, <1>8, NextMeans
--------------------------------------------------------------------------------
(* A path of fields, wildcards and descents denotes no failure.                *)
LEMMA TolerantMeans ==
  ASSUME NEW d \in Documents, NEW l \in Lists, Tolerant(l), NEW u \in DOMAIN d
  PROVE  Denoted(d)[<<l, 1>>][u] \in Seq(DOMAIN d) /\ ~Fails(Denoted(d)[<<l, 1>>][u])
  <1> DEFINE O == Outcomes(d)
             S == DOMAIN d
             M == Denoted(d)
             n == Len(l)
             P == {m \in Nat : \A k \in Nat \ {0} : k + m = n + 1 =>
                      \A v \in S : M[<<l, k>>][v] \in Seq(S)}
  <1>0. n \in Nat
    BY ListType
  <1>1. 0 \in P
    <2> SUFFICES ASSUME NEW k \in Nat \ {0}, k = n + 1, NEW v \in S
                 PROVE  M[<<l, k>>][v] \in Seq(S)
      BY <1>0
    <2>1. k > Len(l) /\ v \in O
      BY <1>0, OutcomesType
    <2>2. M[<<l, k>>][v] = <<v>>
      BY <2>1, DenotedOne
    <2>3. <<v>> \in Seq(S)
      OBVIOUS
    <2> QED
      BY <2>2, <2>3
  <1>2. ASSUME NEW m \in Nat, m \in P PROVE m + 1 \in P
    <2> SUFFICES ASSUME NEW k \in Nat \ {0}, k + (m + 1) = n + 1, NEW v \in S
                 PROVE  M[<<l, k>>][v] \in Seq(S)
      OBVIOUS
    <2>1. k \in 1..n /\ k + 1 \in Nat \ {0} /\ (k + 1) + m = n + 1
      BY <1>0
    <2> DEFINE F == M[<<l, k + 1>>]
               G == [z \in S |-> F[z]]
               a == Means(d, M, l[k], v)
    <2>2. \A z \in S : F[z] \in Seq(S)
      BY <1>2, <2>1
    <2>3. Fun(G, S, Seq(S))
      <3> HIDE DEF F
      <3> QED
        BY <2>2 DEF Fun
    <2>4. a \in Seq(S)
      <3>1. l[k].type \in {"field", "wildcard", "recursive"}
        BY <2>1, ListType DEF Tolerant
      <3>2. CASE l[k].type = "field"
        BY <3>2, FieldOfType DEF Means
      <3>3. CASE l[k].type = "wildcard"
        BY <3>3, KidsType DEF Means
      <3>4. CASE l[k].type = "recursive"
        <4>1. a = Descent(d)[v]
          BY <3>4 DEF Means
        <4> QED
          BY <4>1, DescentType DEF Fun
      <3> QED
        BY <3>1, <3>2, <3>3, <3>4
    <2>5. M[<<l, k>>][v] = Each(F, a)
      <3>1. <<l, k>> \in Tails /\ v \in O /\ v # Failure /\ ~(k > Len(l))
        BY <1>0, <2>1, OutcomesType DEF Tails
      <3>2. M[<<l, k>>][v] = Follow(d, M, <<l, k>>, v)
        BY <3>1, DenotedType
      <3> QED
        BY <3>1, <3>2 DEF Follow
    <2>6. Each(F, a) = Each(G, a)
      <3>1. \A i \in 1..Len(a) : a[i] \in S
        <4> HIDE DEF a
        <4> QED
          BY <2>4, ElementOfSeq
      <3>2. \A i \in 1..Len(a) : F[a[i]] = G[a[i]]
        <4> HIDE DEF a, F
        <4> QED
          BY <3>1
      <3> HIDE DEF a, F, G
      <3> QED
        BY <3>2, EachSame
    <2>7. Each(G, a) \in Seq(S)
      <3> HIDE DEF a, G, S
      <3> QED
        BY <2>3, <2>4, EachType
    <2> QED
      BY <2>5, <2>6, <2>7
  <1>3. Nat \subseteq P
    <2> HIDE DEF P
    <2> QED
      BY <1>1, <1>2, Induct
  <1>4. M[<<l, 1>>][u] \in Seq(S)
    <2>1. n \in P /\ 1 \in Nat \ {0} /\ 1 + n = n + 1
      BY <1>0, <1>3
    <2> QED
      BY <2>1
  <1>5. ~Fails(M[<<l, 1>>][u])
    <2> DEFINE g == M[<<l, 1>>][u]
    <2>1. g \in Seq(S) /\ Failure \notin S
      BY <1>4, OutcomesType
    <2> HIDE DEF g, S
    <2>2. \A i \in DOMAIN g : g[i] # Failure
      BY <2>1, LenProperties, ElementOfSeq
    <2> QED
      BY <2>2 DEF Fails, Range, g
  <1> QED
    BY <1>4, <1>5

LEMMA OperandMeans ==
  ASSUME NEW d \in Documents, NEW x \in Seq(DOMAIN d), Len(x) = 1,
         NEW g \in Seq(Outcomes(d)), NEW c, NEW e, Meets(c, e, x, g)
  PROVE  \/ g = <<x[1]>> /\ ~Fails(g)
         \/ c /\ (Fails(g) \/ Len(g) > 1)
  <1> DEFINE u == x[1]
  <1>1. u \in DOMAIN d /\ u \in Outcomes(d) /\ u # Failure /\ x = <<u>>
    BY OutcomesType, ElementOfSeq
  <1> HIDE DEF u
  <1>2. g = <<u>> \/ (c /\ (Fails(g) \/ Len(g) > 1))
    BY <1>1, MeetsOne
  <1>3. ~Fails(<<u>>)
    BY <1>1, FailsOne
  <1> QED
    BY <1>2, <1>3 DEF u

(* The verdict on an element, by what its operands denote.                     *)
LEMMA TestCases ==
  ASSUME NEW d \in Documents, NEW M, NEW n, NEW u, n.op # "exists"
  PROVE  LET L == M[<<n.left, 1>>][u]
             R == M[<<n.right, 1>>][u]
         IN  /\ Fails(L) \/ Len(L) > 1 => Test(d, M, n, u) = <<Failure>>
             /\ L = <<>> => Test(d, M, n, u) = <<>>
             /\ \A a : L = <<a>> /\ ~Fails(L) =>
                    /\ Fails(R) \/ Len(R) > 1 => Test(d, M, n, u) = <<Failure>>
                    /\ R = <<>> => Test(d, M, n, u) = <<>>
                    /\ \A b : R = <<b>> /\ ~Fails(R) =>
                         LET v == C!Apply(n.op, Shown(d, a), Shown(d, b))
                         IN  Test(d, M, n, u) = IF v.err THEN <<Failure>>
                                                ELSE IF v.pass THEN <<u>> ELSE <<>>
  <1> DEFINE L == M[<<n.left, 1>>][u]
             R == M[<<n.right, 1>>][u]
             v(a, b) == C!Apply(n.op, Shown(d, a), Shown(d, b))
  <1>1. Test(d, M, n, u) =
            IF Fails(L) \/ Len(L) > 1 THEN <<Failure>>
            ELSE IF L = <<>> THEN <<>>
            ELSE IF Fails(R) \/ Len(R) > 1 THEN <<Failure>>
            ELSE IF R = <<>> THEN <<>>
            ELSE IF v(L[1], R[1]).err THEN <<Failure>>
            ELSE IF v(L[1], R[1]).pass THEN <<u>> ELSE <<>>
    BY DEF Test
  <1> HIDE DEF L, R, v
  <1>2. ~Fails(<<>>) /\ ~(Len(<<>>) > 1)
    BY FailsEmpty
  <1>3. \A a : <<a>> # <<>> /\ ~(Len(<<a>>) > 1) /\ <<a>>[1] = a
    OBVIOUS
  <1>4. Fails(L) \/ Len(L) > 1 => Test(d, M, n, u) = <<Failure>>
    BY <1>1
  <1>5. L = <<>> => Test(d, M, n, u) = <<>>
    BY <1>1, <1>2
  <1>6. ASSUME NEW a, L = <<a>>, ~Fails(L)
        PROVE  /\ Fails(R) \/ Len(R) > 1 => Test(d, M, n, u) = <<Failure>>
               /\ R = <<>> => Test(d, M, n, u) = <<>>
               /\ \A b : R = <<b>> /\ ~Fails(R) =>
                     Test(d, M, n, u) = IF v(a, b).err THEN <<Failure>>
                                        ELSE IF v(a, b).pass THEN <<u>> ELSE <<>>
    <2>1. L # <<>> /\ ~(Len(L) > 1) /\ L[1] = a
      BY <1>3, <1>6
    <2>2. Fails(R) \/ Len(R) > 1 => Test(d, M, n, u) = <<Failure>>
      BY <1>1, <1>6, <2>1
    <2>3. R = <<>> => Test(d, M, n, u) = <<>>
      BY <1>1, <1>2, <1>6, <2>1
    <2>4. ASSUME NEW b, R = <<b>>, ~Fails(R)
          PROVE  Test(d, M, n, u) = IF v(a, b).err THEN <<Failure>>
                                    ELSE IF v(a, b).pass THEN <<u>> ELSE <<>>
      <3>1. R # <<>> /\ ~(Len(R) > 1) /\ R[1] = b
        BY <1>3, <2>4
      <3> QED
        BY <1>1, <1>6, <2>1, <2>4, <3>1
    <2> QED
      BY <2>2, <2>3, <2>4
  <1> QED
    BY <1>4, <1>5, <1>6 DEF L, R, v
--------------------------------------------------------------------------------
(* What the operands of a filter return, against the verdict on the element.   *)
Testing(d, f) == /\ f \in Framed(d) /\ f.at <= Len(f.nodes)
                 /\ Here(f).type = "filter" /\ f.elems # <<>>

Verdicts(d, f) == Test(d, Denoted(d), Here(f), Head(f.elems))

LEMMA OperandTypes ==
  ASSUME NEW d \in Documents, NEW f, Testing(d, f)
  PROVE  LET n == Here(f)
             u == Head(f.elems)
         IN  /\ u \in DOMAIN d /\ n \in Nodes /\ n.left \in Lists /\ n.right \in Lists
             /\ Denoted(d)[<<n.left, 1>>][u] \in Seq(Outcomes(d))
             /\ Denoted(d)[<<n.right, 1>>][u] \in Seq(Outcomes(d))
             /\ Verdicts(d, f) \in Seq(Outcomes(d))
             /\ Asked(f) = (IF f.left = <<>> THEN n.left ELSE n.right)
             /\ Expected(d, f) = Denoted(d)[<<Asked(f), 1>>][u]
  <1> DEFINE n == Here(f)
             u == Head(f.elems)
  <1>1. f \in Framed(d) /\ f.at <= Len(f.nodes) /\ n.type = "filter" /\ f.elems # <<>>
    BY DEF Testing
  <1>2. n \in Nodes /\ n.left \in Lists /\ n.right \in Lists
    BY <1>1, FramedType DEF IsNode
  <1>3. u \in DOMAIN d
    BY <1>1, FramedType, HeadAndTail
  <1>4. 1 \in Nat \ {0}
    OBVIOUS
  <1>5. Denoted(d)[<<n.left, 1>>][u] \in Seq(Outcomes(d))
        /\ Denoted(d)[<<n.right, 1>>][u] \in Seq(Outcomes(d))
    <2> HIDE DEF n, u
    <2> QED
      BY <1>2, <1>3, <1>4, DenotedOne
  <1>6. Verdicts(d, f) \in Seq(Outcomes(d))
    BY <1>3, TestType DEF Verdicts
  <1>7. Asked(f) = (IF f.left = <<>> THEN n.left ELSE n.right)
        /\ Expected(d, f) = Denoted(d)[<<Asked(f), 1>>][u]
    BY <1>1 DEF Asked, Expected
  <1> QED
    BY <1>2, <1>3, <1>5, <1>6, <1>7

LEMMA LeftOperand ==
  ASSUME NEW d \in Documents, NEW f, Testing(d, f), f.left # <<>>,
         NEW c, NEW x, FrameMeans(d, c, f, x)
  PROVE  LET L == Denoted(d)[<<Here(f).left, 1>>][Head(f.elems)]
         IN  /\ Here(f).op # "exists"
             /\ \/ L = <<f.left[1]>> /\ ~Fails(L)
                \/ c /\ (Fails(L) \/ Len(L) > 1) /\ Verdicts(d, f) = <<Failure>>
  <1> DEFINE L == Denoted(d)[<<Here(f).left, 1>>][Head(f.elems)]
  <1>1. Len(f.left) = 1 /\ Meets(c, FALSE, f.left, L) /\ Here(f).op # "exists"
    BY DEF FrameMeans, LeftMeans
  <1>2. f.left \in Seq(DOMAIN d)
    BY FramedType DEF Testing
  <1>3. L \in Seq(Outcomes(d))
    BY OperandTypes
  <1>4. Fails(L) \/ Len(L) > 1 => Verdicts(d, f) = <<Failure>>
    BY <1>1, TestCases DEF Verdicts
  <1> HIDE DEF L
  <1>5. (L = <<f.left[1]>> /\ ~Fails(L)) \/ (c /\ (Fails(L) \/ Len(L) > 1))
    <2> DEFINE q == f.left
               e == FALSE
    <2>1. q \in Seq(DOMAIN d) /\ Len(q) = 1 /\ L \in Seq(Outcomes(d)) /\ Meets(c, e, q, L)
      BY <1>1, <1>2, <1>3
    <2> HIDE DEF q, e
    <2>2. (L = <<q[1]>> /\ ~Fails(L)) \/ (c /\ (Fails(L) \/ Len(L) > 1))
      BY ONLY <2>1, OperandMeans, d \in Documents
    <2> QED
      BY <2>2 DEF q
  <1> QED
    BY <1>1, <1>4, <1>5 DEF L

LEMMA NoOperandMeans ==
  ASSUME NEW d \in Documents, NEW f, Testing(d, f), NEW c, NEW x, FrameMeans(d, c, f, x),
         Here(f).op # "exists", NEW e, Meets(c, e, <<>>, Expected(d, f))
  PROVE  Meets(c, TRUE, <<>>, Verdicts(d, f))
  <1> DEFINE g == Expected(d, f)
             w == Verdicts(d, f)
             L == Denoted(d)[<<Here(f).left, 1>>][Head(f.elems)]
             R == Denoted(d)[<<Here(f).right, 1>>][Head(f.elems)]
  <1>1. g \in Seq(Outcomes(d)) /\ w \in Seq(Outcomes(d))
        /\ g = IF f.left = <<>> THEN L ELSE R
    BY OperandTypes
  <1>2. Meets(c, e, <<>>, g)
    OBVIOUS
  <1>3. /\ L = <<>> => w = <<>>
        /\ \A a : L = <<a>> /\ ~Fails(L) => (R = <<>> => w = <<>>)
    BY TestCases DEF Verdicts
  <1>4. ASSUME f.left # <<>> PROVE c \/ \E a : L = <<a>> /\ ~Fails(L)
    <2>1. (L = <<f.left[1]>> /\ ~Fails(L)) \/ (c /\ (Fails(L) \/ Len(L) > 1) /\ w = <<Failure>>)
      BY <1>4, LeftOperand
    <2> QED
      BY <2>1
  <1> HIDE DEF g, w, L, R
  <1>5. ASSUME ~c PROVE g = <<>>
    <2>1. Within(g, <<>>)
      BY <1>2, <1>5 DEF Meets
    <2> QED
      BY <1>1, <2>1, WithinEmpty
  <1>6. CASE c
    <2>1. Meets(TRUE, TRUE, <<>>, w)
      BY <1>1, MeetsEmpty
    <2> QED
      BY <1>6, <2>1 DEF w, Meets
  <1>7. CASE ~c
    <2>1. w = <<>>
      BY <1>1, <1>3, <1>4, <1>5, <1>7
    <2>2. Meets(c, TRUE, w, w)
      BY <1>1, MeetsRefl
    <2> QED
      BY <2>1, <2>2 DEF w
  <1> QED
    BY <1>6, <1>7

LEMMA BadOperandMeans ==
  ASSUME NEW d \in Documents, NEW f, Testing(d, f), NEW c, NEW x, FrameMeans(d, c, f, x),
         Here(f).op # "exists",
         \/ Fails(Expected(d, f))
         \/ \E e : \E v \in Seq(DOMAIN d) : Len(v) > 1 /\ Meets(c, e, v, Expected(d, f))
  PROVE  Fails(Verdicts(d, f))
  <1> DEFINE g == Expected(d, f)
             w == Verdicts(d, f)
             L == Denoted(d)[<<Here(f).left, 1>>][Head(f.elems)]
             R == Denoted(d)[<<Here(f).right, 1>>][Head(f.elems)]
  <1>1. g \in Seq(Outcomes(d)) /\ g = IF f.left = <<>> THEN L ELSE R
    BY OperandTypes
  <1>2. /\ Fails(L) \/ Len(L) > 1 => w = <<Failure>>
        /\ \A a : L = <<a>> /\ ~Fails(L) => (Fails(R) \/ Len(R) > 1 => w = <<Failure>>)
    BY TestCases DEF Verdicts
  <1>3. f.left # <<>> => w = <<Failure>> \/ \E a : L = <<a>> /\ ~Fails(L)
    BY LeftOperand
  <1> HIDE DEF g, w, L, R
  <1>4. Fails(g) \/ Len(g) > 1
    <2>1. CASE Fails(g)
      BY <2>1
    <2>2. ASSUME NEW e, NEW v \in Seq(DOMAIN d), Len(v) > 1, Meets(c, e, v, g)
          PROVE  Fails(g) \/ Len(g) > 1
      <3>1. v \in Seq(Outcomes(d))
        BY OutcomesType
      <3>2. CASE Within(v, g)
        <4>1. Len(v) <= Len(g) /\ Len(v) \in Nat /\ Len(g) \in Nat
          BY <1>1, <3>1, <3>2, WithinLen, LenProperties
        <4> QED
          BY <2>2, <4>1
      <3>3. CASE ~Within(v, g)
        BY <2>2, <3>3 DEF Meets
      <3> QED
        BY <3>2, <3>3
    <2> QED
      BY <2>1, <2>2 DEF g
  <1>5. w = <<Failure>>
    BY <1>1, <1>2, <1>3, <1>4
  <1>6. Fails(<<Failure>>)
    BY FailsOne
  <1> QED
    BY <1>5, <1>6 DEF w

LEMMA ComparedMeans ==
  ASSUME NEW d \in Documents, NEW f, Testing(d, f), NEW c, NEW x, FrameMeans(d, c, f, x),
         f.left # <<>>, NEW v \in Seq(DOMAIN d), Len(v) = 1, NEW e,
         Meets(c, e, v, Expected(d, f))
  PROVE  LET y == C!Apply(Here(f).op, Shown(d, f.left[1]), Shown(d, v[1]))
         IN  IF y.err THEN Fails(Verdicts(d, f))
             ELSE Meets(c, TRUE, IF y.pass THEN <<Head(f.elems)>> ELSE <<>>, Verdicts(d, f))
  <1> DEFINE g == Expected(d, f)
             w == Verdicts(d, f)
             u == Head(f.elems)
             L == Denoted(d)[<<Here(f).left, 1>>][u]
             R == Denoted(d)[<<Here(f).right, 1>>][u]
             y(a, b) == C!Apply(Here(f).op, Shown(d, a), Shown(d, b))
  <1>1. g \in Seq(Outcomes(d)) /\ w \in Seq(Outcomes(d)) /\ g = R
    BY OperandTypes
  <1>2. Here(f).op # "exists"
    BY LeftOperand
  <1>3. (L = <<f.left[1]>> /\ ~Fails(L)) \/ (c /\ w = <<Failure>>)
    <2>1. (L = <<f.left[1]>> /\ ~Fails(L)) \/ (c /\ (Fails(L) \/ Len(L) > 1) /\ w = <<Failure>>)
      BY LeftOperand
    <2> QED
      BY <2>1
  <1>4. \A a : L = <<a>> /\ ~Fails(L) =>
            /\ Fails(R) \/ Len(R) > 1 => w = <<Failure>>
            /\ \A b : R = <<b>> /\ ~Fails(R) =>
                  w = IF y(a, b).err THEN <<Failure>> ELSE IF y(a, b).pass THEN <<u>> ELSE <<>>
    BY <1>2, TestCases DEF Verdicts
  <1>5. Meets(c, e, v, g)
    OBVIOUS
  <1> HIDE DEF g, w, u, L, R, y
  <1>6. (g = <<v[1]>> /\ ~Fails(g)) \/ (c /\ (Fails(g) \/ Len(g) > 1))
    BY <1>1, <1>5, OperandMeans
  <1>7. Fails(<<Failure>>)
    BY FailsOne
  <1>8. CASE c /\ w = <<Failure>>
    BY <1>7, <1>8 DEF Meets, w
  <1>9. CASE ~(c /\ w = <<Failure>>)
    <2>1. L = <<f.left[1]>> /\ ~Fails(L)
      BY <1>3, <1>9
    <2>2. R = <<v[1]>> /\ ~Fails(R)
      BY <1>1, <1>4, <1>6, <1>9, <2>1
    <2> DEFINE a == f.left[1]
               b == v[1]
    <2>3. w = IF y(a, b).err THEN <<Failure>> ELSE IF y(a, b).pass THEN <<u>> ELSE <<>>
      BY <1>4, <2>1, <2>2
    <2>4. Meets(c, TRUE, w, w)
      BY <1>1, MeetsRefl
    <2>5. IF y(a, b).err THEN Fails(w)
          ELSE Meets(c, TRUE, IF y(a, b).pass THEN <<u>> ELSE <<>>, w)
      BY <1>7, <2>3, <2>4
    <2> QED
      BY <2>5 DEF w, u, y
  <1> QED
    BY <1>8, <1>9

(* An exists-filter: its operand is a path, which denotes no failure.          *)
LEMMA ExistsMeans ==
  ASSUME Regular, NEW d \in Documents, NEW f, Testing(d, f), NEW c, NEW x,
         FrameMeans(d, c, f, x), Here(f).op = "exists",
         NEW v \in Seq(DOMAIN d), NEW e, Meets(c, e, v, Expected(d, f))
  PROVE  Meets(c, TRUE, IF v # <<>> THEN <<Head(f.elems)>> ELSE <<>>, Verdicts(d, f))
  <1> DEFINE g == Expected(d, f)
             w == Verdicts(d, f)
             u == Head(f.elems)
  <1>1. f.left = <<>>
    BY LeftOperand
  <1>2. /\ w \in Seq(Outcomes(d)) /\ g \in Seq(Outcomes(d)) /\ u \in DOMAIN d
        /\ g = Denoted(d)[<<Here(f).left, 1>>][u] /\ Here(f) \in Nodes /\ Here(f).left \in Lists
    BY <1>1, OperandTypes
  <1>3. ~Fails(g)
    <2>1. Tolerant(Here(f).left)
      BY <1>2 DEF Regular, Testing
    <2> HIDE DEF u, g
    <2> QED
      BY <1>2, <2>1, TolerantMeans
  <1>4. w = IF g # <<>> THEN <<u>> ELSE <<>>
    BY <1>2, <1>3 DEF Verdicts, Test
  <1>5. Meets(c, e, v, g) /\ v \in Seq(Outcomes(d))
    BY OutcomesType
  <1> HIDE DEF g, w, u
  <1>6. CASE v = <<>>
    <2>1. c \/ g = <<>>
      <3> SUFFICES ASSUME ~c PROVE g = <<>>
        OBVIOUS
      <3>1. Within(g, <<>>)
        BY <1>5, <1>6 DEF Meets
      <3> QED
        BY <1>2, <3>1, WithinEmpty
    <2>2. CASE c
      <3>1. Meets(TRUE, TRUE, <<>>, w)
        BY <1>2, MeetsEmpty
      <3> QED
        BY <1>6, <2>2, <3>1 DEF w, u, Meets
    <2>3. CASE g = <<>>
      <3>1. Meets(c, TRUE, w, w)
        BY <1>2, MeetsRefl
      <3> QED
        BY <1>4, <1>6, <2>3, <3>1 DEF w, u
    <2> QED
      BY <2>1, <2>2, <2>3
  <1>7. CASE v # <<>>
    <2>1. g # <<>>
      <3>1. Within(v, g)
        BY <1>3, <1>5 DEF Meets
      <3>2. Within(v, <<>>) => v = <<>>
        BY <1>5, WithinEmpty
      <3> QED
        BY <1>7, <3>1, <3>2
    <2>2. Meets(c, TRUE, w, w)
      BY <1>2, MeetsRefl
    <2> QED
      BY <1>4, <1>7, <2>1, <2>2 DEF w, u
  <1> QED
    BY <1>6, <1>7
--------------------------------------------------------------------------------
(* Calls and returns.                                                          *)
LEMMA StartMeans ==
  ASSUME NEW d \in Documents, NEW l \in Lists, NEW x \in Seq(DOMAIN d), NEW c,
         Len(x) = 1 \/ (l # <<>> => l[1].type \notin Blind)
  PROVE  FrameMeans(d, c, Frame(l, x), Rest(d, l, 1, x))
  <1> DEFINE h == Frame(l, x)
  <1>1. 1 \in Nat \ {0} /\ Len(l) \in Nat /\ 1 <= Len(l) + 1 /\ (1 <= Len(l) => l # <<>>)
    BY ListType
  <1>2. h = Started(l, 1, x)
    BY StartedFirst
  <1>3. /\ h \in Framed(d) /\ h.nodes = l /\ h.at = 1 /\ h.cur = x /\ h.todo = x
        /\ h.out = <<>> /\ h.elems = <<>> /\ h.left = <<>>
    BY <1>1, <1>2, StartedType
  <1>4. Meets(FALSE, NoUnion(l), Have(d, h), Rest(d, l, 1, x))
    BY <1>1, <1>2, StartedHave
  <1> HIDE DEF h
  <1>5. Meets(c, Exact(d, l), Have(d, h), Rest(d, l, 1, x))
    BY <1>4 DEF Exact, Meets
  <1>6. Fresh(h)
    BY <1>1, <1>3 DEF Fresh, Here
  <1>7. LeftMeans(d, c, h)
    BY <1>3 DEF LeftMeans
  <1> QED
    BY <1>3, <1>5, <1>6, <1>7 DEF FrameMeans, h

LEMMA FrameWeaker ==
  ASSUME NEW d, NEW f, NEW x, NEW b, NEW c, b => c, FrameMeans(d, b, f, x)
  PROVE  FrameMeans(d, c, f, x)
  BY DEF FrameMeans, LeftMeans, Meets

(* The left operand is kept for the comparison.                                *)
LEMMA LeftKept ==
  ASSUME NEW d \in Documents, NEW f, Testing(d, f), NEW c, NEW x, FrameMeans(d, c, f, x),
         Here(f).op # "exists", f.left = <<>>, NEW v \in Seq(DOMAIN d), Len(v) = 1,
         NEW e, Meets(c, e, v, Expected(d, f))
  PROVE  FrameMeans(d, c, [f EXCEPT !.left = v], x)
  <1> DEFINE g == [f EXCEPT !.left = v]
  <1>1. f \in Framed(d) /\ f.at <= Len(f.nodes) /\ Here(f).type = "filter" /\ f.elems # <<>>
    BY DEF Testing
  <1>2. /\ g \in Framed(d) /\ g.nodes = f.nodes /\ g.at = f.at /\ g.cur = f.cur /\ g.todo = f.todo
        /\ g.out = f.out /\ g.elems = f.elems /\ g.left = v /\ g.m = f.m
    BY <1>1 DEF Framed
  <1> HIDE DEF g
  <1>3. Here(g) = Here(f)
    BY <1>2 DEF Here
  <1>4. Have(d, g) = Have(d, f)
    BY <1>2, <1>3 DEF Have, Coming
  <1>5. Fresh(g)
    BY <1>2, <1>3 DEF Fresh, FrameMeans
  <1>6. Expected(d, f) = Denoted(d)[<<Here(f).left, 1>>][Head(f.elems)]
    BY OperandTypes
  <1>7. Meets(c, FALSE, v, Expected(d, f))
    BY DEF Meets
  <1>8. LeftMeans(d, c, g)
    BY <1>1, <1>2, <1>3, <1>6, <1>7 DEF LeftMeans
  <1>9. Meets(c, Exact(d, f.nodes), Have(d, f), x)
    BY DEF FrameMeans
  <1> QED
    BY <1>2, <1>4, <1>5, <1>8, <1>9 DEF FrameMeans, g

LEMMA EndAnswers ==
  ASSUME NEW d \in Documents, NEW f \in Framed(d), f.at > Len(f.nodes),
         NEW c, NEW x, NEW t, FrameMeans(d, c, f, x)
  PROVE  Answers(d, t, c, f.nodes, x, [err |-> FALSE, vals |-> f.cur])
  <1>1. Have(d, f) = f.cur
    BY DEF FrameMeans, Fresh, Have
  <1>2. Meets(c, Exact(d, f.nodes), f.cur, x)
    BY <1>1 DEF FrameMeans
  <1> QED
    BY <1>2 DEF Answers

(* A field that no value has.                                                  *)
LEMMA FieldAnswers ==
  ASSUME NEW d \in Documents, NEW f \in Framed(d), f.at <= Len(f.nodes),
         Here(f).type = "field", f.todo = <<>>, f.out = <<>>,
         NEW c, NEW x, NEW t, ~t, FrameMeans(d, c, f, x)
  PROVE  Answers(d, t, c, f.nodes, x, [err |-> TRUE, vals |-> <<>>])
  <1>1. Here(f).type \notin {"union", "filter"}
    OBVIOUS
  <1>2. f.elems = <<>>
    BY <1>1, FramedType DEF FrameMeans, Fresh
  <1>3. Coming(d, f) = <<>>
    <2>1. Coming(d, f) = Each(Of(d, f.nodes, f.at), <<>>)
      BY <1>1, <1>2, ComingVisit
    <2> QED
      BY <2>1, EachEmpty
  <1>4. f.out \o Coming(d, f) = <<>>
    BY <1>3
  <1>5. Have(d, f) = Rest(d, f.nodes, f.at + 1, <<>>)
    BY <1>4, ComingType
  <1>6. Have(d, f) = <<>>
    BY <1>5, RestEmpty
  <1>7. Meets(c, FALSE, <<>>, x)
    BY <1>6 DEF FrameMeans, Meets
  <1> QED
    BY <1>7 DEF Answers

LEMMA FailAnswers ==
  ASSUME NEW d \in Documents, NEW f \in Framed(d), f.at <= Len(f.nodes),
         Here(f).type \in {"array", "filter", "union", "identifier"},
         NEW c, NEW x, NEW t, t => Fails(x), NEW v
  PROVE  Answers(d, t, c, f.nodes, x, [err |-> TRUE, vals |-> v])
  <1>1. f.at \in DOMAIN f.nodes
    BY FramedType, ListType
  <1>2. f.nodes[f.at].type \notin {"field", "wildcard", "recursive"}
    BY DEF Here
  <1>3. ~Tolerant(f.nodes)
    BY <1>1, <1>2 DEF Tolerant
  <1> QED
    BY <1>3 DEF Answers
--------------------------------------------------------------------------------
(* The stack of calls: each evaluates the list its caller asks for, and has    *)
(* what is denoted there.  l: the node list of the template.                   *)
Listed(q, l, s)  == IF s = 1 THEN l ELSE Asked(q[s - 1])
Goal(d, q, l, s) == IF s = 1 THEN Rest(d, l, 1, <<Root>>) ELSE Expected(d, q[s - 1])

Stacked(d, c, q, l) ==
    \A s \in 1..Len(q) : q[s].nodes = Listed(q, l, s) /\ FrameMeans(d, c, q[s], Goal(d, q, l, s))

Reply(d, t, c, q, l, r) ==
    Answers(d, t, c, Listed(q, l, Len(q) + 1), Goal(d, q, l, Len(q) + 1), r)

LEMMA Replacing ==
  ASSUME NEW d, NEW q \in Seq(Framed(d)), q # <<>>, NEW l, NEW b, NEW c, b => c,
         Stacked(d, b, q, l), NEW g \in Framed(d), g.nodes = q[Len(q)].nodes,
         FrameMeans(d, c, g, Goal(d, q, l, Len(q)))
  PROVE  LET p == [q EXCEPT ![Len(q)] = g]
         IN  /\ Stacked(d, c, p, l) /\ Len(p) = Len(q) /\ p[Len(q)] = g
             /\ p \in Seq(Framed(d))
  <1> DEFINE p == [q EXCEPT ![Len(q)] = g]
             n == Len(q)
  <1>1. /\ p \in Seq(Framed(d)) /\ Len(p) = n /\ n \in Nat /\ n > 0 /\ p[n] = g
        /\ \A s \in 1..n : s < n => p[s] = q[s]
    BY Replaced
  <1> HIDE DEF p, n
  <1>2. ASSUME NEW s \in 1..n
        PROVE  p[s].nodes = Listed(p, l, s) /\ FrameMeans(d, c, p[s], Goal(d, p, l, s))
    <2>1. q[s].nodes = Listed(q, l, s) /\ FrameMeans(d, b, q[s], Goal(d, q, l, s))
      BY DEF Stacked, n
    <2>2. Listed(p, l, s) = Listed(q, l, s) /\ Goal(d, p, l, s) = Goal(d, q, l, s)
      <3>1. CASE s = 1
        BY <3>1 DEF Listed, Goal
      <3>2. CASE s # 1
        <4>1. s - 1 \in 1..n /\ s - 1 < n
          BY <1>1, <3>2
        <4>2. p[s - 1] = q[s - 1]
          BY <1>1, <4>1
        <4> QED
          BY <4>2 DEF Listed, Goal
      <3> QED
        BY <3>1, <3>2
    <2>3. CASE s < n
      <3>1. p[s] = q[s]
        BY <1>1, <2>3
      <3> QED
        BY <2>1, <2>2, <3>1, FrameWeaker
    <2>4. CASE s = n
      BY <1>1, <2>1, <2>2, <2>4 DEF n
    <2> QED
      BY <1>1, <2>3, <2>4
  <1>3. Stacked(d, c, p, l)
    BY <1>1, <1>2 DEF Stacked
  <1> QED
    BY <1>1, <1>3 DEF p, n

LEMMA Pushing ==
  ASSUME NEW d, NEW q \in Seq(Framed(d)), NEW l, NEW c, Stacked(d, c, q, l),
         NEW h \in Framed(d), h.nodes = Listed(q, l, Len(q) + 1),
         FrameMeans(d, c, h, Goal(d, q, l, Len(q) + 1))
  PROVE  Stacked(d, c, Append(q, h), l)
  <1> DEFINE p == Append(q, h)
             n == Len(q)
  <1>1. /\ p \in Seq(Framed(d)) /\ Len(p) = n + 1 /\ n \in Nat /\ p[n + 1] = h
        /\ \A s \in 1..n : p[s] = q[s]
    BY Pushed
  <1> HIDE DEF p, n
  <1>2. ASSUME NEW s \in 1..(n + 1)
        PROVE  p[s].nodes = Listed(p, l, s) /\ FrameMeans(d, c, p[s], Goal(d, p, l, s))
    <2>2. Listed(p, l, s) = Listed(q, l, s) /\ Goal(d, p, l, s) = Goal(d, q, l, s)
      <3>1. CASE s = 1
        BY <3>1 DEF Listed, Goal
      <3>2. CASE s # 1
        <4>1. s - 1 \in 1..n
          BY <1>1, <3>2
        <4>2. p[s - 1] = q[s - 1]
          BY <1>1, <4>1
        <4> QED
          BY <4>2 DEF Listed, Goal
      <3> QED
        BY <3>1, <3>2
    <2>3. CASE s <= n
      <3>1. s \in 1..n
        BY <1>1, <2>3
      <3>2. p[s] = q[s]
        BY <1>1, <3>1
      <3>3. q[s].nodes = Listed(q, l, s) /\ FrameMeans(d, c, q[s], Goal(d, q, l, s))
        BY <3>1 DEF Stacked, n
      <3> QED
        BY <2>2, <3>2, <3>3
    <2>4. CASE s = n + 1
      BY <1>1, <2>2, <2>4 DEF n
    <2> QED
      BY <1>1, <2>3, <2>4
  <1>3. Stacked(d, c, p, l)
    BY <1>1, <1>2 DEF Stacked
  <1> QED
    BY <1>3 DEF p

LEMMA Popping ==
  ASSUME NEW d, NEW q \in Seq(Framed(d)), q # <<>>, NEW l, NEW c, Stacked(d, c, q, l)
  PROVE  LET p == SubSeq(q, 1, Len(q) - 1)
         IN  /\ Stacked(d, c, p, l)
             /\ Listed(p, l, Len(p) + 1) = q[Len(q)].nodes
             /\ Goal(d, p, l, Len(p) + 1) = Goal(d, q, l, Len(q))
  <1> DEFINE p == SubSeq(q, 1, Len(q) - 1)
             n == Len(q)
  <1>1. /\ p \in Seq(Framed(d)) /\ Len(p) = n - 1 /\ n \in Nat /\ n > 0
        /\ \A s \in 1..(n - 1) : p[s] = q[s]
    BY Popped
  <1> HIDE DEF p, n
  <1>2. ASSUME NEW s \in 1..n
        PROVE  Listed(p, l, s) = Listed(q, l, s) /\ Goal(d, p, l, s) = Goal(d, q, l, s)
    <2>1. CASE s = 1
      BY <2>1 DEF Listed, Goal
    <2>2. CASE s # 1
      <3>1. s - 1 \in 1..(n - 1)
        BY <1>1, <2>2
      <3>2. p[s - 1] = q[s - 1]
        BY <1>1, <3>1
      <3> QED
        BY <3>2 DEF Listed, Goal
    <2> QED
      BY <2>1, <2>2
  <1>3. ASSUME NEW s \in 1..(n - 1)
        PROVE  p[s].nodes = Listed(p, l, s) /\ FrameMeans(d, c, p[s], Goal(d, p, l, s))
    <2>1. s \in 1..n
      BY <1>1
    <2>2. q[s].nodes = Listed(q, l, s) /\ FrameMeans(d, c, q[s], Goal(d, q, l, s))
      BY <2>1 DEF Stacked, n
    <2>3. p[s] = q[s]
      BY <1>1
    <2> QED
      BY <1>2, <2>1, <2>2, <2>3
  <1>4. Stacked(d, c, p, l)
    BY <1>1, <1>3 DEF Stacked
  <1>5. n \in 1..n /\ Len(p) + 1 = n
    BY <1>1
  <1>6. q[n].nodes = Listed(q, l, n)
    BY <1>5 DEF Stacked, n
  <1>7. Listed(p, l, Len(p) + 1) = q[n].nodes /\ Goal(d, p, l, Len(p) + 1) = Goal(d, q, l, n)
    BY <1>2, <1>5, <1>6
  <1> QED
    BY <1>4, <1>7 DEF p, n
--------------------------------------------------------------------------------
(* The invariant: every call has what is denoted for the list it evaluates, a  *)
(* return brings what its caller expects, and so do the results.               *)
Current == template[Len(full) + 1]

DoneMeans(d, c, t, r) ==
    \A s \in 1..Len(r) : Meets(c, Exact(d, t[s]), r[s], Rest(d, t[s], 1, <<Root>>))

MeansInv ==
    /\ mode \in {"walk", "return"} => Stacked(doc, cut, stack, Current)
    /\ mode = "return" => Reply(doc, allow, cut, stack, Current, ret)
    /\ DoneMeans(doc, cut, template, full)
    /\ mode = "ok" => Len(full) = Len(template)
    /\ mode = "error" /\ allow =>
           \E s \in DOMAIN template : Fails(Rest(doc, template[s], 1, <<Root>>))

TopGoal == Goal(doc, stack, Current, Len(stack))

LEMMA GivenType ==
  ASSUME Inv
  PROVE  /\ doc \in Documents /\ Frames = Framed(doc) /\ D = DOMAIN doc
         /\ stack \in Seq(Framed(doc)) /\ template \in Seq(Lists) /\ Len(template) \in Nat
         /\ DOMAIN template = 1..Len(template) /\ Len(full) \in Nat
         /\ <<Root>> \in Seq(DOMAIN doc) /\ <<Root>> \in Seq(Outcomes(doc))
         /\ Len(full) < Len(template) => Current \in Lists /\ Len(full) + 1 \in DOMAIN template
         /\ mode \in {"walk", "return"} => Len(full) < Len(template)
         /\ mode = "walk" => stack # <<>>
  <1>1. doc \in Documents /\ template \in Templates
    BY DEF Inv, Given
  <1>2. Frames = Framed(doc) /\ D = DOMAIN doc /\ stack \in Seq(Framed(doc))
    BY DEF Inv, StackOK, Frames, Framed, D
  <1>3. template \in Seq(Lists)
    BY <1>1, EvalAssumption
  <1>4. Len(template) \in Nat /\ DOMAIN template = 1..Len(template) /\ Len(full) \in Nat
    BY <1>3, LenProperties DEF Inv, ModeOK
  <1>5. ASSUME Len(full) < Len(template) PROVE Current \in Lists /\ Len(full) + 1 \in DOMAIN template
    <2>1. Len(full) + 1 \in 1..Len(template)
      BY <1>4, <1>5
    <2> QED
      BY <1>3, <1>4, <2>1, ElementOfSeq DEF Current
  <1>6. Root \in DOMAIN doc /\ Root \in Outcomes(doc)
    BY <1>1, OutcomesType
  <1>7. <<Root>> \in Seq(DOMAIN doc) /\ <<Root>> \in Seq(Outcomes(doc))
    BY <1>6
  <1> QED
    BY <1>1, <1>2, <1>3, <1>4, <1>5, <1>7 DEF Inv, ModeOK

LEMMA ExpectedType ==
  ASSUME NEW d \in Documents, NEW f \in Framed(d), Pending(f)
  PROVE  Asked(f) \in Lists /\ Expected(d, f) \in Seq(Outcomes(d))
  <1>1. f.at <= Len(f.nodes) /\ f.nodes[f.at] = Here(f)
    BY DEF Pending, Here
  <1>2. CASE Here(f).type = "filter"
    <2>1. Testing(d, f)
      BY <1>1, <1>2 DEF Pending, Testing
    <2> QED
      BY <2>1, OperandTypes
  <1>3. CASE Here(f).type # "filter"
    <2>1. Here(f).type = "union" /\ f.m <= Len(Here(f).members)
      BY <1>1, <1>3 DEF Pending
    <2>2. Here(f) \in Nodes /\ f.m \in Nat \ {0} /\ f.cur \in Seq(Outcomes(d))
      BY <1>1, FramedType
    <2>3. Asked(f) = Here(f).members[f.m] /\ Expected(d, f) = Rest(d, Asked(f), 1, f.cur)
      BY <1>3 DEF Asked, Expected
    <2>4. Asked(f) \in Lists
      BY <2>1, <2>2, <2>3, NestedType
    <2>5. 1 \in Nat \ {0}
      OBVIOUS
    <2> QED
      BY <2>2, <2>3, <2>4, <2>5, RestType
  <1> QED
    BY <1>2, <1>3

LEMMA TopMeans ==
  ASSUME Inv, MeansInv, stack # <<>>, mode \in {"walk", "return"}
  PROVE  /\ top \in Framed(doc) /\ doc \in Documents
         /\ FrameMeans(doc, cut, top, TopGoal) /\ TopGoal \in Seq(Outcomes(doc))
         /\ mode = "return" =>
                /\ Answers(doc, allow, cut, Asked(top), Expected(doc, top), ret)
                /\ Pending(top) /\ top.at <= Len(top.nodes)
                /\ ret.err \in BOOLEAN /\ ret.vals \in Seq(DOMAIN doc)
  <1> DEFINE n == Len(stack)
  <1>1. /\ top \in Framed(doc) /\ doc \in Documents /\ n \in Nat /\ n > 0 /\ n \in 1..n
        /\ Len(full) < Len(template) /\ Current \in Lists
    BY GivenType, TopType
  <1>2. Stacked(doc, cut, stack, Current)
    BY DEF MeansInv
  <1>3. FrameMeans(doc, cut, top, TopGoal)
    BY <1>1, <1>2 DEF Stacked, top, TopGoal
  <1>4. TopGoal \in Seq(Outcomes(doc))
    <2>1. CASE n = 1
      <3>1. TopGoal = Rest(doc, Current, 1, <<Root>>)
        BY <2>1 DEF TopGoal, Goal
      <3>2. 1 \in Nat \ {0} /\ <<Root>> \in Seq(Outcomes(doc))
        BY GivenType
      <3> QED
        BY <1>1, <3>1, <3>2, RestType
    <2>2. CASE n # 1
      <3>1. n - 1 \in 1..n /\ n - 1 < n
        <4> HIDE DEF n
        <4>1. n \in Nat /\ n > 0 /\ n # 1
          BY <1>1, <2>2
        <4> QED
          BY ONLY <4>1
      <3>2. stack[n - 1] \in Framed(doc) /\ Pending(stack[n - 1])
        <4>1. stack \in Seq(Framed(doc))
          BY GivenType
        <4> QED
          BY <3>1, <4>1, ElementOfSeq DEF Inv, Waiting
      <3>3. TopGoal = Expected(doc, stack[n - 1])
        BY <2>2 DEF TopGoal, Goal
      <3> QED
        BY <1>1, <3>2, <3>3, ExpectedType
    <2> QED
      BY <2>1, <2>2
  <1>5. ASSUME mode = "return"
        PROVE  /\ Answers(doc, allow, cut, Asked(top), Expected(doc, top), ret)
               /\ Pending(top) /\ top.at <= Len(top.nodes)
               /\ ret.err \in BOOLEAN /\ ret.vals \in Seq(DOMAIN doc)
    <2>1. Listed(stack, Current, n + 1) = Asked(top)
          /\ Goal(doc, stack, Current, n + 1) = Expected(doc, top)
      <3>1. n + 1 # 1 /\ n + 1 - 1 = n
        BY <1>1
      <3> QED
        BY <3>1 DEF Listed, Goal, top
    <2>2. Answers(doc, allow, cut, Asked(top), Expected(doc, top), ret)
      BY <1>5, <2>1 DEF MeansInv, Reply
    <2> QED
      BY <1>5, <2>2, CallerType DEF D
  <1> QED
    BY <1>1, <1>3, <1>4, <1>5

LEMMA DoneWeaker ==
  ASSUME NEW d, NEW b, NEW c, b => c, NEW t, NEW r, DoneMeans(d, b, t, r)
  PROVE  DoneMeans(d, c, t, r)
  BY DEF DoneMeans, Meets

LEMMA MeansContinue ==
  ASSUME Inv, MeansInv, stack # <<>>, mode \in {"walk", "return"},
         NEW g \in Framed(doc), g.nodes = top.nodes, cut => cut',
         FrameMeans(doc, cut', g, TopGoal),
         stack' = [stack EXCEPT ![Len(stack)] = g], mode' = "walk", Stay
  PROVE  MeansInv'
  <1>1. doc' = doc /\ template' = template /\ allow' = allow /\ full' = full
        /\ Current' = Current
    BY DEF Stay, Current
  <1>2. stack \in Seq(Framed(doc)) /\ Stacked(doc, cut, stack, Current)
    BY GivenType DEF MeansInv
  <1>3. Stacked(doc, cut', [stack EXCEPT ![Len(stack)] = g], Current)
    BY <1>2, Replacing DEF top, TopGoal
  <1>4. DoneMeans(doc, cut', template, full)
    BY DoneWeaker DEF MeansInv
  <1> QED
    BY <1>1, <1>3, <1>4 DEF MeansInv

LEMMA MeansReturn ==
  ASSUME Inv, MeansInv, stack # <<>>, mode \in {"walk", "return"}, NEW err, NEW vals,
         Answers(doc, allow, cut, top.nodes, TopGoal, [err |-> err, vals |-> vals]),
         Return(err, vals)
  PROVE  MeansInv'
  <1>1. doc' = doc /\ template' = template /\ allow' = allow /\ full' = full
        /\ Current' = Current /\ cut' = cut /\ mode' = "return"
        /\ ret' = [err |-> err, vals |-> vals]
        /\ stack' = SubSeq(stack, 1, Len(stack) - 1)
    BY DEF Stay, Current, Return
  <1>2. stack \in Seq(Framed(doc)) /\ Stacked(doc, cut, stack, Current)
    BY GivenType DEF MeansInv
  <1>3. /\ Stacked(doc, cut, SubSeq(stack, 1, Len(stack) - 1), Current)
        /\ Listed(SubSeq(stack, 1, Len(stack) - 1), Current,
                  Len(SubSeq(stack, 1, Len(stack) - 1)) + 1) = top.nodes
        /\ Goal(doc, SubSeq(stack, 1, Len(stack) - 1), Current,
                Len(SubSeq(stack, 1, Len(stack) - 1)) + 1) = TopGoal
    BY <1>2, Popping DEF top, TopGoal
  <1>4. Stacked(doc, cut, stack', Current) /\ Listed(stack', Current, Len(stack') + 1) = top.nodes
        /\ Goal(doc, stack', Current, Len(stack') + 1) = TopGoal
    BY <1>1, <1>3
  <1>5. Reply(doc, allow, cut, stack', Current, ret')
    BY <1>1, <1>4 DEF Reply
  <1> QED
    BY <1>1, <1>4, <1>5 DEF MeansInv

LEMMA MeansCall ==
  ASSUME Inv, MeansInv, stack # <<>>, mode \in {"walk", "return"},
         NEW g \in Framed(doc), g.nodes = top.nodes, FrameMeans(doc, cut, g, TopGoal),
         NEW list \in Lists, NEW input \in Seq(DOMAIN doc), list = Asked(g),
         FrameMeans(doc, cut, Frame(list, input), Expected(doc, g)),
         stack' = Append([stack EXCEPT ![Len(stack)] = g], Frame(list, input)),
         mode' = "walk", cut' = cut, Stay
  PROVE  MeansInv'
  <1> DEFINE q == [stack EXCEPT ![Len(stack)] = g]
             h == Frame(list, input)
  <1>1. doc' = doc /\ template' = template /\ allow' = allow /\ full' = full
        /\ Current' = Current
    BY DEF Stay, Current
  <1>2. stack \in Seq(Framed(doc)) /\ Stacked(doc, cut, stack, Current)
    BY GivenType DEF MeansInv
  <1>3. /\ q \in Seq(Framed(doc)) /\ Stacked(doc, cut, q, Current) /\ Len(q) = Len(stack)
        /\ q[Len(stack)] = g
    BY <1>2, Replacing DEF top, TopGoal
  <1>4. Len(stack) \in Nat /\ Len(stack) > 0
    BY TopType
  <1>5. h \in Framed(doc) /\ h.nodes = list
    BY FrameType, GivenType
  <1>6. stack' = Append(q, h)
    OBVIOUS
  <1> HIDE DEF q, h
  <1>7. Listed(q, Current, Len(q) + 1) = Asked(g) /\ Goal(doc, q, Current, Len(q) + 1) = Expected(doc, g)
    <2>1. Len(q) + 1 # 1 /\ Len(q) + 1 - 1 = Len(stack)
      BY <1>3, <1>4
    <2> QED
      BY <1>3, <2>1 DEF Listed, Goal
  <1>8. Stacked(doc, cut, Append(q, h), Current)
    <2>1. FrameMeans(doc, cut, h, Goal(doc, q, Current, Len(q) + 1))
          /\ h.nodes = Listed(q, Current, Len(q) + 1)
      BY <1>5, <1>7 DEF h
    <2> QED
      BY <1>3, <1>5, <2>1, Pushing
  <1> QED
    BY <1>1, <1>6, <1>8 DEF MeansInv
--------------------------------------------------------------------------------
LEMMA MeansNext ==
  ASSUME Inv, MeansInv, mode = "walk", NEW vals \in Seq(DOMAIN doc),
         FrameMeans(doc, cut, Started(top.nodes, top.at + 1, vals), TopGoal), NextNode(vals)
  PROVE  MeansInv'
  <1> DEFINE g == Started(top.nodes, top.at + 1, vals)
  <1>1. stack # <<>> /\ mode \in {"walk", "return"}
    BY GivenType
  <1>2. top \in Framed(doc) /\ doc \in Documents
    BY <1>1, TopMeans
  <1>3. top.nodes \in Lists /\ top.at + 1 \in Nat \ {0}
    BY <1>2, FramedType
  <1>4. g \in Framed(doc) /\ g.nodes = top.nodes
    BY <1>2, <1>3, StartedType
  <1>5. /\ stack' = [stack EXCEPT ![Len(stack)] = g] /\ mode' = "walk" /\ cut' = cut /\ Stay
    BY DEF NextNode, Continue, Started
  <1> HIDE DEF g
  <1>6. FrameMeans(doc, cut', g, TopGoal)
    BY <1>5 DEF g
  <1> QED
    BY <1>1, <1>4, <1>5, <1>6, MeansContinue

LEMMA MeansVisited ==
  ASSUME Inv, MeansInv, mode = "walk", top.at <= Len(top.nodes), top.todo # <<>>,
         node.type \in {"field", "wildcard", "array"}, NEW vals \in Seq(DOMAIN doc),
         Meets(FALSE, OneEntry(doc), vals, Means(doc, Denoted(doc), node, this)),
         Continue(Visited(vals))
  PROVE  MeansInv'
  <1>1. stack # <<>> /\ mode \in {"walk", "return"} /\ Frames = Framed(doc) /\ D = DOMAIN doc
    BY GivenType
  <1>2. top \in Framed(doc) /\ doc \in Documents /\ FrameMeans(doc, cut, top, TopGoal)
        /\ TopGoal \in Seq(Outcomes(doc)) /\ top.left = <<>> /\ Here(top) = node
    BY <1>1, TopMeans, TopLeft DEF Here, node
  <1>3. FrameMeans(doc, cut, [top EXCEPT !.todo = Tail(@), !.out = @ \o vals], TopGoal)
    BY <1>2, VisitMeans DEF this
  <1>4. FrameMeans(doc, cut, Visited(vals), TopGoal)
    BY <1>3 DEF Visited
  <1>5. Visited(vals) \in Framed(doc) /\ Visited(vals).nodes = top.nodes
    BY <1>1, VisitedType
  <1>6. /\ stack' = [stack EXCEPT ![Len(stack)] = Visited(vals)]
        /\ mode' = "walk" /\ cut' = cut /\ Stay
    BY DEF Continue
  <1>7. FrameMeans(doc, cut', Visited(vals), TopGoal)
    BY <1>4, <1>6
  <1> QED
    BY <1>1, <1>5, <1>6, <1>7, MeansContinue

(* A call that fails where a failure is denoted.                               *)
LEMMA MeansFail ==
  ASSUME Inv, MeansInv, stack # <<>>, mode \in {"walk", "return"}, top.at <= Len(top.nodes),
         node.type \in {"array", "filter", "union", "identifier"}, allow => Fails(TopGoal),
         NEW vals, Return(TRUE, vals)
  PROVE  MeansInv'
  <1>1. top \in Framed(doc) /\ doc \in Documents /\ Here(top) = node
    BY TopMeans DEF Here, node
  <1>2. Answers(doc, allow, cut, top.nodes, TopGoal, [err |-> TRUE, vals |-> vals])
    BY <1>1, FailAnswers
  <1> QED
    BY <1>2, MeansReturn

LEMMA MeansRootSteps ==
  ASSUME Inv, MeansInv
  PROVE  WalkNext \/ Collect \/ Finish => MeansInv'
  <1>0. doc \in Documents /\ <<Root>> \in Seq(DOMAIN doc)
    BY GivenType
  <1>1. ASSUME WalkNext PROVE MeansInv'
    <2> DEFINE h == Frame(Current, <<Root>>)
    <2>1. stack = <<>> /\ Len(full) < Len(template) /\ Current \in Lists
      BY <1>1, GivenType DEF WalkNext, Inv, ModeOK
    <2>2. doc' = doc /\ template' = template /\ allow' = allow /\ full' = full /\ cut' = cut
          /\ Current' = Current /\ mode' = "walk" /\ stack' = Append(<<>>, h)
      BY <1>1, <2>1 DEF WalkNext, Call, Stay, Current
    <2>3. <<>> \in Seq(Framed(doc)) /\ Len(<<>>) = 0 /\ Stacked(doc, cut, <<>>, Current)
      BY EmptySeq DEF Stacked
    <2>4. h \in Framed(doc) /\ h.nodes = Current
      BY <1>0, <2>1, FrameType, GivenType
    <2>5. FrameMeans(doc, cut, h, Rest(doc, Current, 1, <<Root>>))
      <3>1. Len(<<Root>>) = 1
        OBVIOUS
      <3> QED
        BY <1>0, <2>1, <3>1, StartMeans
    <2> HIDE DEF h
    <2>6. Listed(<<>>, Current, Len(<<>>) + 1) = Current
          /\ Goal(doc, <<>>, Current, Len(<<>>) + 1) = Rest(doc, Current, 1, <<Root>>)
      BY <2>3 DEF Listed, Goal
    <2>7. Stacked(doc, cut, Append(<<>>, h), Current)
      <3> DEFINE q == <<>>
      <3>1. /\ q \in Seq(Framed(doc)) /\ Stacked(doc, cut, q, Current)
            /\ h.nodes = Listed(q, Current, Len(q) + 1)
            /\ FrameMeans(doc, cut, h, Goal(doc, q, Current, Len(q) + 1))
        BY <2>3, <2>4, <2>5, <2>6
      <3> HIDE DEF q
      <3>2. Stacked(doc, cut, Append(q, h), Current)
        BY <2>4, <3>1, Pushing
      <3> QED
        BY <3>2 DEF q
    <2> QED
      BY <2>2, <2>7 DEF MeansInv
  <1>2. ASSUME Collect PROVE MeansInv'
    <2> DEFINE g == Rest(doc, Current, 1, <<Root>>)
    <2>1. mode = "return" /\ stack = <<>> /\ doc' = doc /\ template' = template
          /\ allow' = allow /\ stack' = stack /\ ret' = ret /\ cut' = cut
          /\ mode' = (IF ret.err THEN "error" ELSE "next")
          /\ full' = (IF ret.err THEN <<>> ELSE Append(full, ret.vals))
      BY <1>2 DEF Collect
    <2>2. Len(full) < Len(template) /\ Len(full) + 1 \in DOMAIN template /\ Len(full) \in Nat
          /\ DoneMeans(doc, cut, template, full)
      BY <2>1, GivenType DEF MeansInv
    <2>3. Answers(doc, allow, cut, Current, g, ret)
      <3>1. Len(<<>>) + 1 = 1
        OBVIOUS
      <3> QED
        BY <2>1, <3>1 DEF MeansInv, Reply, Listed, Goal
    <2> HIDE DEF g
    <2>4. CASE ret.err
      <3>1. allow => Fails(g)
        BY <2>3, <2>4 DEF Answers
      <3>2. DoneMeans(doc, cut, template, <<>>)
        BY EmptySeq DEF DoneMeans
      <3>3. allow => \E s \in DOMAIN template : Fails(Rest(doc, template[s], 1, <<Root>>))
        BY <2>2, <3>1 DEF g, Current
      <3> QED
        BY <2>1, <2>4, <3>2, <3>3 DEF MeansInv
    <2>5. CASE ~ret.err
      <3>1. Meets(cut, Exact(doc, Current), ret.vals, g)
        BY <2>3, <2>5 DEF Answers
      <3> DEFINE r == Append(full, ret.vals)
      <3>2. Len(r) = Len(full) + 1 /\ r[Len(full) + 1] = ret.vals
            /\ \A s \in 1..Len(full) : r[s] = full[s]
        BY DEF Inv, ModeOK
      <3> HIDE DEF r
      <3>3. DoneMeans(doc, cut, template, r)
        <4> SUFFICES ASSUME NEW s \in 1..Len(r)
                     PROVE  Meets(cut, Exact(doc, template[s]), r[s],
                                  Rest(doc, template[s], 1, <<Root>>))
          BY DEF DoneMeans
        <4>1. CASE s = Len(full) + 1
          BY <3>1, <3>2, <4>1 DEF g, Current
        <4>2. CASE s \in 1..Len(full)
          BY <2>2, <3>2, <4>2 DEF DoneMeans
        <4> QED
          BY <2>2, <3>2, <4>1, <4>2
      <3> QED
        BY <2>1, <2>5, <3>3 DEF MeansInv, r
    <2> QED
      BY <2>4, <2>5
  <1>3. ASSUME Finish PROVE MeansInv'
    BY <1>3 DEF Finish, MeansInv
  <1> QED
    BY <1>1, <1>2, <1>3

LEMMA MeansListSteps ==
  ASSUME Regular, Inv, MeansInv, mode = "walk"
  PROVE  (EndList \/ EndLoop \/ Text \/ Constant \/ Identifier \/ EndField \/ EndUnion)
             => MeansInv'
  <1>1. stack # <<>> /\ mode \in {"walk", "return"}
    BY GivenType
  <1>2. top \in Framed(doc) /\ doc \in Documents /\ FrameMeans(doc, cut, top, TopGoal)
        /\ TopGoal \in Seq(Outcomes(doc)) /\ Here(top) = node /\ top.out \in Seq(DOMAIN doc)
    BY <1>1, TopMeans, FramedType DEF Here, node
  <1>3. ASSUME EndList PROVE MeansInv'
    <2>1. top.at > Len(top.nodes) /\ Return(FALSE, top.cur)
      BY <1>3 DEF EndList
    <2>2. Answers(doc, allow, cut, top.nodes, TopGoal, [err |-> FALSE, vals |-> top.cur])
      BY <1>2, <2>1, EndAnswers
    <2> QED
      BY <1>1, <2>1, <2>2, MeansReturn
  <1>4. ASSUME EndLoop \/ EndUnion \/ (EndField /\ ~(top.cur # <<>> /\ top.out = <<>> /\ ~allow))
        PROVE  MeansInv'
    <2>1. top.at <= Len(top.nodes) /\ NextNode(top.out)
          /\ \/ node.type = "union" /\ top.m > Len(node.members)
             \/ node.type \in {"array", "wildcard", "recursive", "field", "filter"}
                /\ (node.type = "filter" => top.elems = <<>>) /\ top.todo = <<>>
      BY <1>4 DEF EndLoop, EndUnion, EndField, At
    <2>2. \/ node.type = "union" /\ top.m > Len(node.members)
          \/ node.type # "union" /\ top.elems = <<>> /\ top.todo = <<>>
      <3>1. node.type # "filter" => top.elems = <<>>
        BY <1>2, <2>1, FramedType DEF FrameMeans, Fresh
      <3> QED
        BY <2>1, <3>1
    <2>3. FrameMeans(doc, cut, Started(top.nodes, top.at + 1, top.out), TopGoal)
      BY <1>2, <2>1, <2>2, LoopMeans
    <2> QED
      BY <1>2, <2>1, <2>3, MeansNext
  <1>5. ASSUME Text \/ Constant PROVE MeansInv'
    <2> DEFINE w == [i \in DOMAIN top.cur |-> node.lit]
    <2>1. top.at <= Len(top.nodes) /\ node.type \in {"text", "number"}
          /\ NextNode(IF node.type = "text" THEN <<node.lit>> ELSE w)
      BY <1>5 DEF Text, Constant, At
    <2>2. FrameMeans(doc, cut, Started(top.nodes, top.at + 1, w), TopGoal)
          /\ w \in Seq(DOMAIN doc) /\ (node.type = "text" => w = <<node.lit>>)
      BY <1>2, <2>1, LiteralMeans
    <2> HIDE DEF w
    <2>3. NextNode(w)
      BY <2>1, <2>2
    <2> QED
      BY <2>2, <2>3, MeansNext
  <1>6. ASSUME Identifier PROVE MeansInv'
    <2>1. top.at <= Len(top.nodes) /\ node.type = "identifier" /\ Return(TRUE, top.cur)
      BY <1>6 DEF Identifier, At
    <2>2. top.todo = top.cur /\ Len(top.cur) = 1 /\ top.elems = <<>>
      BY <1>2, <2>1, FramedType DEF FrameMeans, Fresh, Blind
    <2>3. top.todo # <<>>
      BY <2>2
    <2>4. Means(doc, Denoted(doc), node, Head(top.todo)) = <<Failure>>
      BY <2>1 DEF Means
    <2>5. Fails(TopGoal)
      BY <1>2, <2>1, <2>2, <2>3, <2>4, VisitFails
    <2> QED
      BY <1>1, <2>1, <2>5, MeansFail
  <1>7. ASSUME EndField, top.cur # <<>> /\ top.out = <<>> /\ ~allow PROVE MeansInv'
    <2>1. top.at <= Len(top.nodes) /\ node.type = "field" /\ top.todo = <<>> /\ Return(TRUE, <<>>)
      BY <1>7 DEF EndField, At
    <2>2. Answers(doc, allow, cut, top.nodes, TopGoal, [err |-> TRUE, vals |-> <<>>])
      BY <1>2, <1>7, <2>1, FieldAnswers
    <2> QED
      BY <1>1, <2>1, <2>2, MeansReturn
  <1> QED
    BY <1>3, <1>4, <1>5, <1>6, <1>7
--------------------------------------------------------------------------------
LEMMA MeansVisitSteps ==
  ASSUME Regular, Inv, MeansInv, NEW type, Visit(type)
  PROVE  (VisitField \/ SkipNull \/ FailArray \/ ZeroSelection \/ VisitArray \/ VisitWildcard
            \/ VisitRecursive \/ VisitFilter) => MeansInv'
  <1>1. mode = "walk" /\ top.at <= Len(top.nodes) /\ top.todo # <<>> /\ stack # <<>>
        /\ mode \in {"walk", "return"}
    BY GivenType DEF Visit, At
  <1>2. top \in Framed(doc) /\ doc \in Documents /\ FrameMeans(doc, cut, top, TopGoal)
        /\ TopGoal \in Seq(Outcomes(doc)) /\ Here(top) = node /\ top.out \in Seq(DOMAIN doc)
        /\ top.left = <<>> /\ Frames = Framed(doc) /\ D = DOMAIN doc /\ Given
    BY <1>1, TopMeans, FramedType, TopLeft, GivenType DEF Here, node, Inv
  <1>3. this \in DOMAIN doc /\ <<>> \in Seq(DOMAIN doc) /\ IsNode(node)
    <2>1. <<>> \in Seq(D)
      BY EmptySeq
    <2> QED
      BY <1>1, <1>2, <2>1, VisitedType, NodeType
  <1>4. node.type # "filter" => top.elems = <<>>
    BY <1>1, <1>2, FramedType DEF FrameMeans, Fresh
  <1> DEFINE M == Denoted(doc)
             m == Means(doc, M, node, this)
  <1>5. m \in Seq(Outcomes(doc)) \/ node.type \in {"union", "filter"}
    BY <1>1, <1>2, <1>4, ComingVisit DEF this
  <1>6. ASSUME m = <<Failure>>, allow, node.type # "union", top.elems = <<>>
        PROVE  Fails(TopGoal)
    BY <1>1, <1>2, <1>6, VisitFails DEF this
  <1>7. ASSUME NEW vals \in Seq(DOMAIN doc), Continue(Visited(vals)),
               node.type \in {"field", "wildcard", "array"},
               Meets(FALSE, OneEntry(doc), vals, m)
        PROVE  MeansInv'
    BY <1>1, <1>7, MeansVisited
  <1>8. ASSUME NEW vals \in Seq(DOMAIN doc), Continue(Visited(vals)),
               node.type \in {"field", "wildcard", "array"}, vals = m
        PROVE  MeansInv'
    <2>1. Meets(FALSE, OneEntry(doc), vals, vals)
      BY MeetsRefl
    <2> HIDE DEF m
    <2> QED
      BY <1>7, <1>8, <2>1
  <1>9. ASSUME VisitField PROVE MeansInv'
    <2>1. node.type = "field" /\ Continue(Visited(Field(this, node.name)))
      BY <1>9 DEF VisitField, Visit, At
    <2>2. m = Field(this, node.name)
      BY <2>1, FieldMeans DEF Means
    <2>3. Field(this, node.name) \in Seq(DOMAIN doc)
      BY <1>2, <1>3, FieldType
    <2> HIDE DEF m
    <2> QED
      BY <1>8, <2>1, <2>2, <2>3
  <1>10. ASSUME node.type = "array"
         PROVE  m = Subscripted(doc, node.params, this) /\ node.params \in Params
    BY <1>3, <1>10 DEF Means, IsNode
  <1> HIDE DEF m
  <1>11. ASSUME SkipNull PROVE MeansInv'
    <2>1. node.type = "array" /\ doc[this].kind = "null" /\ Continue(Visited(<<>>))
      BY <1>11 DEF SkipNull, Visit, At
    <2>2. m = <<>>
      BY <1>2, <1>3, <1>10, <2>1, ArrayMeans
    <2> QED
      BY <1>3, <1>8, <2>1, <2>2
  <1>12. ASSUME FailArray PROVE MeansInv'
    <2>1. /\ node.type = "array" /\ doc[this].kind # "null"
          /\ doc[this].kind # "list" \/ Bad(node.params, Elements(this))
          /\ Return(TRUE, top.cur)
      BY <1>12 DEF FailArray, Visit, At
    <2>2. m = <<Failure>>
      BY <1>2, <1>3, <1>10, <2>1, ArrayMeans
    <2>3. allow => Fails(TopGoal)
      BY <1>4, <1>6, <2>1, <2>2
    <2> QED
      BY <1>1, <2>1, <2>3, MeansFail
  <1>13. ASSUME ZeroSelection PROVE MeansInv'
    <2> DEFINE g == Started(top.nodes, top.at + 1, top.out)
               b == cut
               c == cut'
    <2>1. /\ node.type = "array" /\ doc[this].kind = "list"
          /\ ZeroElements(node.params, Len(Elements(this)))
          /\ stack' = [stack EXCEPT ![Len(stack)] = g]
          /\ c = (b \/ Len(top.todo) > 1) /\ mode' = "walk" /\ Stay
      BY <1>1, <1>13 DEF ZeroSelection, Visit, At, Started
    <2>2. m = <<>>
      BY <1>2, <1>3, <1>10, <2>1, ArrayMeans
    <2>3. Means(doc, Denoted(doc), Here(top), Head(top.todo)) = <<>>
      BY <1>2, <2>2 DEF m, this
    <2>4. FrameMeans(doc, b, top, TopGoal)
      BY <1>2
    <2> HIDE DEF b, c
    <2>5. FrameMeans(doc, c, g, TopGoal)
      BY <1>1, <1>2, <2>1, <2>3, <2>4, ZeroMeans
    <2>6. top.nodes \in Lists /\ top.at + 1 \in Nat \ {0}
      BY <1>2, FramedType
    <2>7. g \in Framed(doc) /\ g.nodes = top.nodes
      BY <1>2, <2>6, StartedType
    <2>8. b => c
      BY <2>1
    <2> HIDE DEF g
    <2>9. FrameMeans(doc, cut', g, TopGoal) /\ (cut => cut')
      BY <2>5, <2>8 DEF b, c
    <2> QED
      BY <1>1, <2>1, <2>7, <2>9, MeansContinue
  <1>14. ASSUME VisitArray PROVE MeansInv'
    <2>1. /\ node.type = "array" /\ doc[this].kind = "list"
          /\ ~ZeroElements(node.params, Len(Elements(this))) /\ ~Bad(node.params, Elements(this))
          /\ Continue(Visited(Slice(node.params, Elements(this))))
      BY <1>14 DEF VisitArray, Visit, At
    <2>2. Slice(node.params, Elements(this)) = m
      BY <1>2, <1>3, <1>10, <2>1, SliceMeans
    <2>3. Elements(this) \in Seq(D)
      BY <1>2, <1>3, ElementsType
    <2>4. Slice(node.params, Elements(this)) \in Seq(D)
      BY <1>10, <2>1, <2>3, SliceType DEF Bad
    <2> QED
      BY <1>2, <1>8, <2>1, <2>2, <2>4
  <1>15. ASSUME VisitWildcard PROVE MeansInv'
    <2>1. node.type = "wildcard" /\ \E v \in Visits(this) : Continue(Visited(v))
      BY <1>15 DEF VisitWildcard, Visit, At
    <2>2. PICK v \in Visits(this) : Continue(Visited(v))
      BY <2>1
    <2>3. v \in Seq(DOMAIN doc) /\ Meets(FALSE, OneEntry(doc), v, Kids(doc, this))
      BY <1>2, <1>3, VisitsMeet
    <2>4. m = Kids(doc, this)
      BY <2>1 DEF m, Means
    <2> QED
      BY <1>7, <2>1, <2>2, <2>3, <2>4
  <1>16. ASSUME VisitRecursive PROVE MeansInv'
    <2>1. node.type = "recursive"
          /\ \E v \in Visits(this) :
                Continue([top EXCEPT !.todo = v \o Tail(@),
                                     !.out = IF v = <<>> THEN @ ELSE Append(@, this)])
      BY <1>16 DEF VisitRecursive, Visit, At
    <2>2. PICK v \in Visits(this) :
              Continue([top EXCEPT !.todo = v \o Tail(@),
                                   !.out = IF v = <<>> THEN @ ELSE Append(@, this)])
      BY <2>1
    <2> DEFINE g == [top EXCEPT !.todo = v \o Tail(@),
                                !.out = IF v = <<>> THEN @ ELSE Append(@, this)]
    <2>3. /\ v \in Seq(DOMAIN doc) /\ Meets(FALSE, OneEntry(doc), v, Kids(doc, this))
          /\ v = <<>> <=> doc[this].kids = <<>>
      BY <1>2, <1>3, VisitsMeet
    <2>4. FrameMeans(doc, cut, g, TopGoal)
      BY <1>1, <1>2, <2>1, <2>3, RecursiveMeans DEF this
    <2>5. g \in Framed(doc) /\ g.nodes = top.nodes
      <3>1. v \o Tail(top.todo) \in Seq(DOMAIN doc) /\ Append(top.out, this) \in Seq(DOMAIN doc)
        <4>1. top.todo \in Seq(DOMAIN doc)
          BY <1>2, FramedType
        <4> QED
          BY <1>1, <1>2, <1>3, <2>3, <4>1, HeadTailProperties, ConcatProperties, AppendProperties
      <3> QED
        BY <1>2, <3>1 DEF Framed
    <2>6. /\ stack' = [stack EXCEPT ![Len(stack)] = g]
          /\ mode' = "walk" /\ cut' = cut /\ Stay
      BY <2>2 DEF Continue
    <2> HIDE DEF g
    <2>7. FrameMeans(doc, cut', g, TopGoal)
      BY <2>4, <2>6
    <2> QED
      BY <1>1, <2>5, <2>6, <2>7, MeansContinue
  <1>17. ASSUME VisitFilter PROVE MeansInv'
    <2> DEFINE g == [Visited(<<>>) EXCEPT !.elems = Elements(this)]
    <2>1. /\ node.type = "filter" /\ top.elems = <<>>
          /\ IF doc[this].kind = "list" THEN Continue(g) ELSE Return(TRUE, top.cur)
      BY <1>17 DEF VisitFilter, Visit, At
    <2>2. CASE doc[this].kind = "list"
      <3>1. g = [[top EXCEPT !.todo = Tail(@), !.out = @ \o <<>>]
                     EXCEPT !.elems = Kids(doc, Head(top.todo))]
        BY ElementsKids DEF Visited, this
      <3>2. FrameMeans(doc, cut, g, TopGoal)
        <4>1. doc[Head(top.todo)].kind = "list"
          BY <2>2 DEF this
        <4>2. FrameMeans(doc, cut, [[top EXCEPT !.todo = Tail(@), !.out = @ \o <<>>]
                                       EXCEPT !.elems = Kids(doc, Head(top.todo))], TopGoal)
          BY <1>1, <1>2, <2>1, <4>1, FilterMeans
        <4> HIDE DEF g
        <4> QED
          BY <3>1, <4>2
      <3>3. g \in Framed(doc) /\ g.nodes = top.nodes
        <4>1. Elements(this) \in Seq(DOMAIN doc)
          BY <1>2, <1>3, ElementsType
        <4>2. Visited(<<>>) \in Framed(doc) /\ Visited(<<>>).nodes = top.nodes
          BY <1>1, <1>2, <1>3, VisitedType
        <4> QED
          BY <4>1, <4>2 DEF Framed
      <3>4. /\ stack' = [stack EXCEPT ![Len(stack)] = g]
            /\ mode' = "walk" /\ cut' = cut /\ Stay
        BY <2>1, <2>2 DEF Continue
      <3> HIDE DEF g
      <3>5. FrameMeans(doc, cut', g, TopGoal)
        BY <3>2, <3>4
      <3> QED
        BY <1>1, <3>3, <3>4, <3>5, MeansContinue
    <2>3. CASE doc[this].kind # "list"
      <3>1. m = <<Failure>>
        BY <2>1, <2>3 DEF m, Means
      <3>2. allow => Fails(TopGoal)
        BY <1>6, <2>1, <3>1
      <3> QED
        BY <1>1, <2>1, <2>3, <3>2, MeansFail
    <2> QED
      BY <2>2, <2>3
  <1> QED
    BY <1>9, <1>11, <1>12, <1>13, <1>14, <1>15, <1>16, <1>17
--------------------------------------------------------------------------------
(* Filters: the caller that a return finds tests an element.                   *)
LEMMA TestingTop ==
  ASSUME Inv, MeansInv, stack # <<>>, mode \in {"walk", "return"}, node.type = "filter",
         top.elems # <<>>, top.at <= Len(top.nodes)
  PROVE  Testing(doc, top) /\ Here(top) = node
  <1>1. top \in Framed(doc) /\ Here(top) = node
    BY TopMeans DEF Here, node
  <1> QED
    BY <1>1 DEF Testing

LEMMA ReturnedFilter ==
  ASSUME Inv, MeansInv, Returned("filter")
  PROVE  /\ mode = "return" /\ stack # <<>> /\ mode \in {"walk", "return"}
         /\ Testing(doc, top) /\ Here(top) = node /\ node.type = "filter" /\ top.elems # <<>>
         /\ doc \in Documents /\ top \in Framed(doc) /\ top.at <= Len(top.nodes)
         /\ FrameMeans(doc, cut, top, TopGoal) /\ TopGoal \in Seq(Outcomes(doc))
         /\ Answers(doc, allow, cut, Asked(top), Expected(doc, top), ret)
         /\ ret.vals \in Seq(DOMAIN doc)
  <1>1. mode = "return" /\ stack # <<>> /\ node.type = "filter" /\ mode \in {"walk", "return"}
    BY DEF Returned
  <1>2. Pending(top) /\ top.at <= Len(top.nodes)
    BY <1>1, TopMeans
  <1>3. top.elems # <<>>
    BY <1>1, <1>2 DEF Pending, node
  <1> QED
    BY <1>1, <1>2, <1>3, TopMeans, TestingTop

LEMMA MeansTested ==
  ASSUME Inv, MeansInv, Returned("filter"), NEW keep, Tested(keep),
         Meets(cut, TRUE, IF keep THEN <<Head(top.elems)>> ELSE <<>>, Verdicts(doc, top))
  PROVE  MeansInv'
  <1> DEFINE g == [top EXCEPT !.elems = Tail(@), !.left = <<>>,
                              !.out = IF keep THEN Append(@, Head(top.elems)) ELSE @]
  <1>1. /\ stack # <<>> /\ mode \in {"walk", "return"} /\ doc \in Documents
        /\ top \in Framed(doc) /\ top.at <= Len(top.nodes) /\ Here(top).type = "filter"
        /\ top.elems # <<>> /\ FrameMeans(doc, cut, top, TopGoal)
        /\ TopGoal \in Seq(Outcomes(doc))
    BY ReturnedFilter
  <1>2. Meets(cut, TRUE, IF keep THEN <<Head(top.elems)>> ELSE <<>>,
              Test(doc, Denoted(doc), Here(top), Head(top.elems)))
    BY DEF Verdicts
  <1>3. FrameMeans(doc, cut, g, TopGoal)
    BY <1>1, <1>2, TestedMeans
  <1>4. g \in Framed(doc) /\ g.nodes = top.nodes
    <2>1. top.elems \in Seq(DOMAIN doc) /\ top.out \in Seq(DOMAIN doc)
      BY <1>1 DEF Framed
    <2>2. Tail(top.elems) \in Seq(DOMAIN doc) /\ <<>> \in Seq(DOMAIN doc)
          /\ Append(top.out, Head(top.elems)) \in Seq(DOMAIN doc)
      BY <1>1, <2>1, EmptySeq, HeadTailProperties, AppendProperties
    <2> QED
      BY <1>1, <2>2 DEF Framed
  <1>5. /\ stack' = [stack EXCEPT ![Len(stack)] = g] /\ mode' = "walk" /\ cut' = cut /\ Stay
    BY DEF Tested, Continue
  <1> HIDE DEF g
  <1>6. FrameMeans(doc, cut', g, TopGoal)
    BY <1>3, <1>5
  <1> QED
    BY <1>1, <1>4, <1>5, <1>6, MeansContinue

(* An element whose verdict is a failure stops the evaluation.                 *)
LEMMA MeansRefused ==
  ASSUME Inv, MeansInv, Returned("filter"), allow => Fails(Verdicts(doc, top)),
         NEW vals, Return(TRUE, vals)
  PROVE  MeansInv'
  <1>1. /\ stack # <<>> /\ mode \in {"walk", "return"} /\ doc \in Documents
        /\ top \in Framed(doc) /\ top.at <= Len(top.nodes) /\ Here(top).type = "filter"
        /\ node.type = "filter" /\ top.elems # <<>> /\ FrameMeans(doc, cut, top, TopGoal)
        /\ TopGoal \in Seq(Outcomes(doc))
    BY ReturnedFilter
  <1>2. ASSUME allow PROVE Fails(TopGoal)
    <2>1. Fails(Test(doc, Denoted(doc), Here(top), Head(top.elems)))
      BY <1>2 DEF Verdicts
    <2> QED
      BY <1>1, <2>1, TestFails
  <1> QED
    BY <1>1, <1>2, MeansFail

(* The call for an operand: of one element.                                    *)
LEMMA OperandStarts ==
  ASSUME NEW d \in Documents, NEW f, Testing(d, f), NEW c
  PROVE  /\ Asked(f) \in Lists /\ <<Head(f.elems)>> \in Seq(DOMAIN d)
         /\ FrameMeans(d, c, Frame(Asked(f), <<Head(f.elems)>>), Expected(d, f))
  <1> DEFINE l == Asked(f)
             u == Head(f.elems)
             x == <<u>>
  <1>1. u \in DOMAIN d /\ l \in Lists /\ Expected(d, f) = Denoted(d)[<<l, 1>>][u]
    <2>1. Here(f).left \in Lists /\ Here(f).right \in Lists
          /\ Asked(f) = (IF f.left = <<>> THEN Here(f).left ELSE Here(f).right)
      BY OperandTypes
    <2> QED
      BY <2>1, OperandTypes
  <1> HIDE DEF l, u
  <1>2. x \in Seq(DOMAIN d) /\ Len(x) = 1 /\ 1 \in Nat \ {0}
    BY <1>1
  <1>3. Rest(d, l, 1, x) = Denoted(d)[<<l, 1>>][u]
    BY <1>1, <1>2, RestOne
  <1>4. FrameMeans(d, c, Frame(l, x), Rest(d, l, 1, x))
    <2> HIDE DEF x
    <2> QED
      BY <1>1, <1>2, StartMeans
  <1> QED
    BY <1>1, <1>2, <1>3, <1>4 DEF l, u

LEMMA MeansFilterSteps ==
  ASSUME Regular, Inv, MeansInv
  PROVE  (CallLeft \/ Exists \/ NoOperand \/ BadOperand \/ CallRight \/ TestElement)
             => MeansInv'
  <1>1. ASSUME CallLeft PROVE MeansInv'
    <2>1. mode = "walk" /\ stack # <<>> /\ top.at <= Len(top.nodes) /\ node.type = "filter"
          /\ top.elems # <<>> /\ mode \in {"walk", "return"}
      BY <1>1, GivenType DEF CallLeft, At
    <2>2. Testing(doc, top) /\ Here(top) = node /\ top.left = <<>> /\ doc \in Documents
          /\ top \in Framed(doc) /\ FrameMeans(doc, cut, top, TopGoal)
      BY <2>1, TestingTop, TopLeft, TopMeans
    <2>3. Asked(top) = node.left
      BY <2>1, <2>2 DEF Asked
    <2>4. Asked(top) \in Lists /\ <<Head(top.elems)>> \in Seq(DOMAIN doc)
          /\ FrameMeans(doc, cut, Frame(Asked(top), <<Head(top.elems)>>), Expected(doc, top))
      BY <2>2, OperandStarts
    <2>5. stack = [stack EXCEPT ![Len(stack)] = top]
      BY DEF Inv, StackOK, top
    <2>6. stack' = Append([stack EXCEPT ![Len(stack)] = top],
                          Frame(Asked(top), <<Head(top.elems)>>))
          /\ mode' = "walk" /\ cut' = cut /\ Stay
      BY <1>1, <2>3, <2>5 DEF CallLeft, Call
    <2> DEFINE input == <<Head(top.elems)>>
    <2> HIDE DEF input
    <2>7. input \in Seq(DOMAIN doc)
          /\ FrameMeans(doc, cut, Frame(Asked(top), input), Expected(doc, top))
          /\ stack' = Append([stack EXCEPT ![Len(stack)] = top], Frame(Asked(top), input))
      BY <2>4, <2>6 DEF input
    <2> QED
      BY <2>1, <2>2, <2>4, <2>6, <2>7, MeansCall
  <1>2. ASSUME Exists PROVE MeansInv'
    <2>1. Returned("filter") /\ node.op = "exists" /\ Tested(ret.vals # <<>>)
      BY <1>2 DEF Exists
    <2>2. /\ Testing(doc, top) /\ Here(top) = node /\ node.type = "filter" /\ doc \in Documents
          /\ FrameMeans(doc, cut, top, TopGoal) /\ ret.vals \in Seq(DOMAIN doc)
          /\ Answers(doc, allow, cut, Asked(top), Expected(doc, top), ret)
      BY <2>1, ReturnedFilter
    <2>3. \E e : Meets(cut, e, ret.vals, Expected(doc, top))
      <3>1. CASE ret.err
        <4>1. top.left = <<>>
          BY <2>1, <2>2, LeftOperand
        <4>2. Asked(top) = node.left
          BY <2>2, <4>1 DEF Asked
        <4>3. Tolerant(Asked(top))
          BY <2>1, <2>2, <4>2, OperandTypes DEF Regular
        <4> QED
          BY <2>2, <3>1, <4>3 DEF Answers
      <3>2. CASE ~ret.err
        BY <2>2, <3>2 DEF Answers
      <3> QED
        BY <3>1, <3>2
    <2>4. PICK e : Meets(cut, e, ret.vals, Expected(doc, top))
      BY <2>3
    <2>5. Meets(cut, TRUE, IF ret.vals # <<>> THEN <<Head(top.elems)>> ELSE <<>>,
                Verdicts(doc, top))
      BY <2>1, <2>2, <2>4, ExistsMeans
    <2> DEFINE keep == ret.vals # <<>>
    <2>6. Meets(cut, TRUE, IF keep THEN <<Head(top.elems)>> ELSE <<>>, Verdicts(doc, top))
          /\ Tested(keep)
      BY <2>1, <2>5
    <2> HIDE DEF keep
    <2> QED
      BY <2>1, <2>6, MeansTested
  <1>3. ASSUME NoOperand PROVE MeansInv'
    <2>1. Returned("filter") /\ node.op # "exists" /\ ~ret.err /\ ret.vals = <<>> /\ Tested(FALSE)
      BY <1>3 DEF NoOperand, Compares
    <2>2. Meets(cut, Exact(doc, Asked(top)), <<>>, Expected(doc, top))
      BY <2>1, ReturnedFilter DEF Answers
    <2>3. Testing(doc, top) /\ Here(top).op # "exists" /\ doc \in Documents
          /\ FrameMeans(doc, cut, top, TopGoal)
      BY <2>1, ReturnedFilter
    <2>4. Meets(cut, TRUE, <<>>, Verdicts(doc, top))
      BY <2>2, <2>3, NoOperandMeans
    <2> QED
      BY <2>1, <2>4, MeansTested
  <1>4. ASSUME BadOperand PROVE MeansInv'
    <2>1. Returned("filter") /\ node.op # "exists" /\ (ret.err \/ Len(ret.vals) > 1)
          /\ Return(TRUE, top.cur)
      BY <1>4 DEF BadOperand, Compares
    <2>2. Testing(doc, top) /\ Here(top).op # "exists" /\ doc \in Documents
          /\ FrameMeans(doc, cut, top, TopGoal) /\ ret.vals \in Seq(DOMAIN doc)
          /\ Answers(doc, allow, cut, Asked(top), Expected(doc, top), ret)
      BY <2>1, ReturnedFilter
    <2>3. ASSUME allow
          PROVE  \/ Fails(Expected(doc, top))
                 \/ \E e : \E v \in Seq(DOMAIN doc) :
                        Len(v) > 1 /\ Meets(cut, e, v, Expected(doc, top))
      <3>1. CASE ret.err
        BY <2>2, <2>3, <3>1 DEF Answers
      <3>2. CASE ~ret.err
        <4>1. Meets(cut, Exact(doc, Asked(top)), ret.vals, Expected(doc, top))
          BY <2>2, <3>2 DEF Answers
        <4>2. Len(ret.vals) > 1
          BY <2>1, <3>2
        <4> QED
          BY <2>2, <4>1, <4>2
      <3> QED
        BY <3>1, <3>2
    <2>4. allow => Fails(Verdicts(doc, top))
      BY <2>2, <2>3, BadOperandMeans
    <2> QED
      BY <2>1, <2>4, MeansRefused
  <1>5. ASSUME CallRight PROVE MeansInv'
    <2> DEFINE g == [top EXCEPT !.left = ret.vals]
    <2>1. Returned("filter") /\ node.op # "exists" /\ ~ret.err /\ Len(ret.vals) = 1
          /\ top.left = <<>>
      BY <1>5 DEF CallRight, One, Compares
    <2>2. /\ stack # <<>> /\ mode \in {"walk", "return"} /\ Testing(doc, top) /\ Here(top) = node
          /\ node.type = "filter" /\ top.elems # <<>> /\ doc \in Documents
          /\ top \in Framed(doc) /\ top.at <= Len(top.nodes)
          /\ FrameMeans(doc, cut, top, TopGoal) /\ ret.vals \in Seq(DOMAIN doc)
          /\ Answers(doc, allow, cut, Asked(top), Expected(doc, top), ret)
      BY <2>1, ReturnedFilter
    <2>3. Meets(cut, Exact(doc, Asked(top)), ret.vals, Expected(doc, top))
      BY <2>1, <2>2 DEF Answers
    <2>4. FrameMeans(doc, cut, g, TopGoal)
      BY <2>1, <2>2, <2>3, LeftKept
    <2>5. g \in Framed(doc) /\ g.nodes = top.nodes /\ g.at = top.at /\ g.elems = top.elems
          /\ g.left = ret.vals
      BY <2>2 DEF Framed
    <2>6. ret.vals # <<>>
      BY <2>1, EmptySeq
    <2>7. [stack EXCEPT ![Len(stack)].left = ret.vals] = [stack EXCEPT ![Len(stack)] = g]
      BY DEF top
    <2>8. stack' = Append([stack EXCEPT ![Len(stack)] = g],
                          Frame(node.right, <<Head(top.elems)>>))
          /\ mode' = "walk" /\ cut' = cut /\ Stay
      BY <1>5, <2>7 DEF CallRight
    <2> HIDE DEF g
    <2>9. Here(g) = node
      BY <2>5 DEF Here, node
    <2>10. Testing(doc, g) /\ Asked(g) = node.right
      BY <2>2, <2>5, <2>6, <2>9 DEF Testing, Asked
    <2> DEFINE input == <<Head(top.elems)>>
    <2>11. Asked(g) \in Lists /\ input \in Seq(DOMAIN doc)
           /\ FrameMeans(doc, cut, Frame(Asked(g), input), Expected(doc, g))
      BY <2>2, <2>5, <2>10, OperandStarts
    <2>12. stack' = Append([stack EXCEPT ![Len(stack)] = g], Frame(Asked(g), input))
      BY <2>8, <2>10
    <2> HIDE DEF input
    <2> QED
      BY <2>2, <2>4, <2>5, <2>8, <2>11, <2>12, MeansCall
  <1>6. ASSUME TestElement PROVE MeansInv'
    <2> DEFINE v == Verdict(node.op, top.left[1], ret.vals[1])
    <2>1. Returned("filter") /\ ~ret.err /\ Len(ret.vals) = 1 /\ top.left # <<>>
          /\ IF v.err THEN Return(TRUE, top.out) ELSE Tested(v.pass)
      BY <1>6 DEF TestElement, One, Compares
    <2>2. /\ Testing(doc, top) /\ Here(top) = node /\ doc \in Documents
          /\ FrameMeans(doc, cut, top, TopGoal) /\ ret.vals \in Seq(DOMAIN doc)
          /\ Answers(doc, allow, cut, Asked(top), Expected(doc, top), ret)
      BY <2>1, ReturnedFilter
    <2>3. Meets(cut, Exact(doc, Asked(top)), ret.vals, Expected(doc, top))
      BY <2>1, <2>2 DEF Answers
    <2>4. v = C!Apply(Here(top).op, Shown(doc, top.left[1]), Shown(doc, ret.vals[1]))
      BY <2>2, OperandShown DEF Verdict
    <2> HIDE DEF v
    <2>5. IF v.err THEN Fails(Verdicts(doc, top))
          ELSE Meets(cut, TRUE, IF v.pass THEN <<Head(top.elems)>> ELSE <<>>, Verdicts(doc, top))
      BY <2>1, <2>2, <2>3, <2>4, ComparedMeans
    <2>6. CASE v.err
      BY <2>1, <2>5, <2>6, MeansRefused
    <2>7. CASE ~v.err
      BY <2>1, <2>5, <2>7, MeansTested
    <2> QED
      BY <2>6, <2>7
  <1> QED
    BY <1>1, <1>2, <1>3, <1>4, <1>5, <1>6
--------------------------------------------------------------------------------
(* Unions: every member is called on the input of the union.                   *)
LEMMA UnionMember ==
  ASSUME Regular, NEW d \in Documents, NEW f \in Framed(d), f.at <= Len(f.nodes),
         Here(f).type = "union", f.m <= Len(Here(f).members), NEW c
  PROVE  /\ Asked(f) = Here(f).members[f.m] /\ Asked(f) \in Lists /\ f.cur \in Seq(DOMAIN d)
         /\ Expected(d, f) = Rest(d, Here(f).members[f.m], 1, f.cur)
         /\ FrameMeans(d, c, Frame(Asked(f), f.cur), Expected(d, f))
  <1>1. Here(f) \in Nodes /\ f.m \in Nat \ {0} /\ f.cur \in Seq(DOMAIN d)
    BY FramedType
  <1>2. Here(f).members \in Seq(Lists) /\ DOMAIN Here(f).members = 1..Len(Here(f).members)
        /\ Len(Here(f).members) \in Nat
    BY <1>1, NestedType
  <1>3. f.m \in DOMAIN Here(f).members /\ f.m \in 1..Len(Here(f).members)
    BY <1>1, <1>2
  <1>4. Asked(f) = Here(f).members[f.m] /\ Expected(d, f) = Rest(d, Asked(f), 1, f.cur)
    BY DEF Asked, Expected
  <1>5. Asked(f) \in Lists
    BY <1>2, <1>3, <1>4, ElementOfSeq
  <1>6. Asked(f) # <<>> => Asked(f)[1].type \notin Blind
    BY <1>1, <1>3, <1>4 DEF Regular
  <1>7. FrameMeans(d, c, Frame(Asked(f), f.cur), Rest(d, Asked(f), 1, f.cur))
    <2> DEFINE l == Asked(f)
               x == f.cur
    <2>1. l \in Lists /\ x \in Seq(DOMAIN d) /\ (l # <<>> => l[1].type \notin Blind)
      BY <1>1, <1>5, <1>6
    <2> HIDE DEF l, x
    <2>2. FrameMeans(d, c, Frame(l, x), Rest(d, l, 1, x))
      BY <2>1, StartMeans
    <2> QED
      BY <2>2 DEF l, x
  <1> QED
    BY <1>1, <1>4, <1>5, <1>7

LEMMA MeansUnionSteps ==
  ASSUME Regular, Inv, MeansInv
  PROVE  CallMember \/ EndMember => MeansInv'
  <1>1. ASSUME CallMember PROVE MeansInv'
    <2>1. mode = "walk" /\ stack # <<>> /\ top.at <= Len(top.nodes) /\ node.type = "union"
          /\ top.m <= Len(node.members) /\ mode \in {"walk", "return"}
      BY <1>1, GivenType DEF CallMember, At
    <2>2. top \in Framed(doc) /\ doc \in Documents /\ Here(top) = node
          /\ FrameMeans(doc, cut, top, TopGoal)
      BY <2>1, TopMeans DEF Here, node
    <2>3. Asked(top) = node.members[top.m] /\ Asked(top) \in Lists /\ top.cur \in Seq(DOMAIN doc)
          /\ FrameMeans(doc, cut, Frame(Asked(top), top.cur), Expected(doc, top))
      BY <2>1, <2>2, UnionMember
    <2>4. stack = [stack EXCEPT ![Len(stack)] = top]
      BY DEF Inv, StackOK, top
    <2>5. stack' = Append([stack EXCEPT ![Len(stack)] = top], Frame(Asked(top), top.cur))
          /\ mode' = "walk" /\ cut' = cut /\ Stay
      BY <1>1, <2>3, <2>4 DEF CallMember, Call
    <2> QED
      BY <2>1, <2>2, <2>3, <2>5, MeansCall
  <1>2. ASSUME EndMember PROVE MeansInv'
    <2>1. mode = "return" /\ stack # <<>> /\ node.type = "union" /\ mode \in {"walk", "return"}
          /\ IF ret.err THEN Return(TRUE, top.cur)
             ELSE Continue([top EXCEPT !.m = @ + 1, !.out = @ \o ret.vals])
      BY <1>2 DEF EndMember, Returned
    <2>2. /\ top \in Framed(doc) /\ doc \in Documents /\ Here(top) = node
          /\ FrameMeans(doc, cut, top, TopGoal) /\ TopGoal \in Seq(Outcomes(doc))
          /\ Answers(doc, allow, cut, Asked(top), Expected(doc, top), ret)
          /\ Pending(top) /\ top.at <= Len(top.nodes) /\ ret.vals \in Seq(DOMAIN doc)
      BY <2>1, TopMeans DEF Here, node
    <2>3. top.m <= Len(node.members) /\ top.left = <<>>
      BY <2>1, <2>2, TopLeft DEF Pending, node
    <2>4. Expected(doc, top) = Rest(doc, Here(top).members[top.m], 1, top.cur)
      BY <2>1, <2>2, <2>3, UnionMember
    <2>5. CASE ret.err
      <3>1. ASSUME allow PROVE Fails(TopGoal)
        <4>1. Fails(Rest(doc, Here(top).members[top.m], 1, top.cur))
          BY <2>2, <2>4, <2>5, <3>1 DEF Answers
        <4> QED
          BY <2>1, <2>2, <2>3, <4>1, MemberFails
      <3> QED
        BY <2>1, <2>2, <2>5, <3>1, MeansFail
    <2>6. CASE ~ret.err
      <3> DEFINE g == [top EXCEPT !.m = @ + 1, !.out = @ \o ret.vals]
      <3>1. Meets(cut, Exact(doc, Asked(top)), ret.vals,
                  Rest(doc, Here(top).members[top.m], 1, top.cur))
        BY <2>2, <2>4, <2>6 DEF Answers
      <3>2. FrameMeans(doc, cut, g, TopGoal)
        BY <2>1, <2>2, <2>3, <3>1, MemberMeans
      <3>3. g \in Framed(doc) /\ g.nodes = top.nodes
        <4>1. top.out \o ret.vals \in Seq(DOMAIN doc) /\ top.m + 1 \in Nat \ {0}
          <5>1. top.out \in Seq(DOMAIN doc) /\ top.m \in Nat \ {0}
            BY <2>2 DEF Framed
          <5> QED
            BY <2>2, <5>1, ConcatProperties
        <4> QED
          BY <2>2, <4>1 DEF Framed
      <3>4. /\ stack' = [stack EXCEPT ![Len(stack)] = g]
            /\ mode' = "walk" /\ cut' = cut /\ Stay
        BY <2>1, <2>6 DEF Continue
      <3> HIDE DEF g
      <3>5. FrameMeans(doc, cut', g, TopGoal)
        BY <3>2, <3>4
      <3> QED
        BY <2>1, <3>3, <3>4, <3>5, MeansContinue
    <2> QED
      BY <2>5, <2>6
  <1> QED
    BY <1>1, <1>2

LEMMA MeansStep ==
  ASSUME Regular, Inv, MeansInv, [Next]_vars
  PROVE  MeansInv'
  <1>1. ASSUME NEW type, Visit(type),
               VisitField \/ SkipNull \/ FailArray \/ ZeroSelection \/ VisitArray
                 \/ VisitWildcard \/ VisitRecursive \/ VisitFilter
        PROVE  MeansInv'
    BY <1>1, MeansVisitSteps
  <1>2. CASE VisitField \/ SkipNull \/ FailArray \/ ZeroSelection \/ VisitArray
               \/ VisitWildcard \/ VisitRecursive \/ VisitFilter
    <2>1. Visit("field") \/ Visit("array") \/ Visit("wildcard") \/ Visit("recursive")
            \/ Visit("filter")
      BY <1>2 DEF VisitField, SkipNull, FailArray, ZeroSelection, VisitArray, VisitWildcard,
                  VisitRecursive, VisitFilter
    <2> QED
      BY <1>1, <1>2, <2>1
  <1>3. CASE EndList \/ EndLoop \/ Text \/ Constant \/ Identifier \/ EndField \/ EndUnion
    <2>1. mode = "walk"
      BY <1>3 DEF EndList, EndLoop, Text, Constant, Identifier, EndField, EndUnion, At
    <2> QED
      BY <1>3, <2>1, MeansListSteps
  <1>4. CASE UNCHANGED vars
    <2>1. doc' = doc /\ template' = template /\ allow' = allow /\ stack' = stack
          /\ mode' = mode /\ ret' = ret /\ full' = full /\ cut' = cut
      BY <1>4 DEF vars
    <2>2. Current' = Current
      BY <2>1 DEF Current
    <2> QED
      BY <2>1, <2>2 DEF MeansInv
  <1> QED
    BY <1>2, <1>3, <1>4, MeansRootSteps, MeansFilterSteps, MeansUnionSteps DEF Next

LEMMA MeansInit == Init => MeansInv
  <1> SUFFICES ASSUME Init PROVE MeansInv
    OBVIOUS
  <1>1. Len(full) = 0
    BY EmptySeq DEF Init
  <1>2. DoneMeans(doc, cut, template, full)
    BY <1>1 DEF DoneMeans
  <1> QED
    BY <1>2 DEF Init, MeansInv
--------------------------------------------------------------------------------
(* What is done is what is denoted.                                            *)
LEMMA SameWithin ==
  ASSUME NEW s, NEW t, Within(s, t), Within(t, s), NEW S, s \in Seq(S), t \in Seq(S)
  PROVE  SameBag(s, t)
  <1> SUFFICES ASSUME NEW v PROVE Count(s, v) = Count(t, v)
    BY DEF SameBag
  <1>1. Count(s, v) \in Nat /\ Count(t, v) \in Nat
    BY CountType
  <1>2. Count(s, v) <= Count(t, v) /\ Count(t, v) <= Count(s, v)
    BY DEF Within
  <1> QED
    BY <1>1, <1>2

LEMMA MeaningRest ==
  ASSUME Inv, NEW s \in DOMAIN template
  PROVE  Meaning(s) = Rest(doc, template[s], 1, <<Root>>) /\ Meaning(s) \in Seq(Outcomes(doc))
  <1>1. doc \in Documents /\ template \in Seq(Lists) /\ DOMAIN template = 1..Len(template)
        /\ <<Root>> \in Seq(Outcomes(doc))
    BY GivenType
  <1>2. template[s] \in Lists /\ Root \in DOMAIN doc /\ 1 \in Nat \ {0}
    BY <1>1, ElementOfSeq, OutcomesType
  <1>3. Rest(doc, template[s], 1, <<Root>>) = Denoted(doc)[<<template[s], 1>>][Root]
    BY <1>1, <1>2, RestOne
  <1>4. Rest(doc, template[s], 1, <<Root>>) \in Seq(Outcomes(doc))
    BY <1>1, <1>2, RestType
  <1> QED
    BY <1>3, <1>4 DEF Meaning

LEMMA MeansDenotes == Inv /\ MeansInv => Denotes
  <1> SUFFICES ASSUME Inv, MeansInv PROVE Denotes
    OBVIOUS
  <1>0. doc \in Documents /\ DOMAIN template = 1..Len(template)
    BY GivenType
  <1>1. ASSUME mode = "ok", ~cut
        PROVE  /\ Len(full) = Len(template)
               /\ \A s \in DOMAIN full :
                     /\ ~Fails(Meaning(s))
                     /\ SameBag(full[s], Meaning(s))
                     /\ OneEntry(doc) /\ NoUnion(template[s]) => full[s] = Meaning(s)
    <2>1. Len(full) = Len(template) /\ DoneMeans(doc, cut, template, full)
      BY <1>1 DEF MeansInv
    <2>2. full \in Seq(Seq(DOMAIN doc)) /\ DOMAIN full = 1..Len(full)
      BY LenProperties DEF Inv, ModeOK, D
    <2>3. ASSUME NEW s \in DOMAIN full
          PROVE  /\ ~Fails(Meaning(s))
                 /\ SameBag(full[s], Meaning(s))
                 /\ OneEntry(doc) /\ NoUnion(template[s]) => full[s] = Meaning(s)
      <3> DEFINE x == full[s]
                 g == Meaning(s)
      <3>1. s \in 1..Len(full) /\ s \in DOMAIN template /\ x \in Seq(DOMAIN doc)
        BY <1>0, <2>1, <2>2, ElementOfSeq
      <3>2. g = Rest(doc, template[s], 1, <<Root>>) /\ g \in Seq(Outcomes(doc))
        BY <3>1, MeaningRest
      <3>3. x \in Seq(Outcomes(doc)) /\ Failure \notin DOMAIN doc
        BY <1>0, <3>1, OutcomesType
      <3>4. Meets(cut, Exact(doc, template[s]), x, g)
        BY <2>1, <3>1, <3>2 DEF DoneMeans
      <3> HIDE DEF x, g
      <3>5. Within(x, g) /\ Within(g, x) /\ (Exact(doc, template[s]) => x = g)
        BY <1>1, <3>4 DEF Meets
      <3>6. ~Fails(x)
        <4>1. \A i \in DOMAIN x : x[i] \in DOMAIN doc
          BY <3>1, ElementOfSeq
        <4> QED
          BY <3>3, <4>1 DEF Fails, Range
      <3>7. ~Fails(g)
        BY <3>2, <3>3, <3>5, <3>6, FailsWithin
      <3>8. SameBag(x, g)
        BY <3>2, <3>3, <3>5, SameWithin
      <3> QED
        BY <3>5, <3>7, <3>8 DEF x, g, Exact
    <2> QED
      BY <2>1, <2>3
  <1>2. ASSUME mode = "error", allow PROVE \E s \in DOMAIN template : Fails(Meaning(s))
    BY <1>2, MeaningRest DEF MeansInv
  <1> QED
    BY <1>1, <1>2 DEF Denotes

(* The evaluator carries whole lists of values from node to node, calls itself *)
(* for operands and members, and meets the entries of maps in any order; what  *)
(* it finds is what the expression denotes for the document, value by value,   *)
(* and with AllowMissingKeys it fails only where a failure is denoted: for any *)
(* documents and any expressions in which texts and keywords come first and an *)
(* exists-filter asks for a path of fields, wildcards and descents.            *)
THEOREM ResultsAreDenoted == ASSUME Regular PROVE Spec => []Denotes
  <1>1. Inv /\ MeansInv /\ [Next]_vars => MeansInv'
    BY MeansStep
  <1>2. Inv /\ MeansInv => Denotes
    BY MeansDenotes
  <1> QED
    BY <1>1, <1>2, MeansInit, Invariance, PTL DEF Spec
================================================================================
