---------------------------- MODULE ArrayNodeProofs ----------------------------
(* Theorems about ArrayNode, for every int width, every list length an int can *)
(* index, every subscript and every input.                                     *)
EXTENDS ArrayNode, SequenceTheorems, TLAPS

AllParse == \A a \in 1..Len(subs) : Parses(subs[a])

(* Inside the inner loop the slice is in bounds and the step is positive; its  *)
(* index is zero or at least one step, which is what keeps it from wrapping.   *)
InLoop ==
    /\ k <= Len(input)
    /\ value.kind = "list"
    /\ Bounded(params, value.len)
    /\ ~ZeroElements(params, value.len)
    /\ ~BadStep(params)
    /\ i = 0 \/ i >= StepOf(params)

Inv ==
    /\ TypeOK
    /\ pc \in {"union", "range", "step"} => AllParse
    /\ pc \in {"range", "step"} => m <= Len(subs)
    /\ pc = "step" => InLoop
    /\ InBounds

LEMMA SubsType ==
  ASSUME TypeOK
  PROVE  /\ subs \in Seq(Subscript) /\ Len(subs) \in Nat
         /\ \A a \in 1..Len(subs) : subs[a] \in Subscript
         /\ input \in Seq(Value) /\ Len(input) \in Nat
         /\ \A a \in 1..Len(input) : input[a] \in Value
  BY ArrayAssumption DEF TypeOK

LEMMA NumberType ==
  ASSUME NEW x \in Number
  PROVE  x # <<>> => x[1] \in Int
  BY DEF Number

LEMMA EntryType ==
  ASSUME NEW x \in Number, Atoi(x)
  PROVE  NumberEntry(x) \in Entry
  <1>1. CASE x = <<>>
    BY <1>1, ArrayAssumption DEF NumberEntry, Unknown, Entry, GoInt, MinInt
  <1>2. CASE x # <<>>
    BY <1>2 DEF NumberEntry, Known, Entry, Atoi
  <1> QED
    BY <1>1, <1>2

LEMMA AddType ==
  ASSUME NEW a \in GoInt, NEW b \in 0..MaxInt
  PROVE  /\ Add(a, b) \in GoInt
         /\ a + b <= MaxInt => Add(a, b) = a + b
         /\ a + b > MaxInt => Add(a, b) = a + b - 2 * (MaxInt + 1)
  BY ArrayAssumption DEF Add, GoInt, MinInt

LEMMA ParamsType ==
  ASSUME NEW sub \in Subscript, Parses(sub), MaxInt > 0
  PROVE  ParseArray(sub) \in Params
  <1>1. /\ sub.start \in Number /\ sub.stop.num \in Number /\ sub.step.num \in Number
    BY DEF Subscript
  <1>2. /\ NumberEntry(sub.start) \in Entry
        /\ NumberEntry(sub.stop.num) \in Entry
        /\ NumberEntry(sub.step.num) \in Entry
    BY <1>1, EntryType DEF Parses
  <1>3. Add(NumberEntry(sub.start).value, 1) \in GoInt
    BY <1>2, AddType, ArrayAssumption DEF Entry
  <1>4. Derived(Add(NumberEntry(sub.start).value, 1)) \in Entry
    BY <1>3 DEF Derived, Entry
  <1> QED
    BY <1>2, <1>4 DEF ParseArray, Params

(* A subscript without a colon names one position, or one out of bounds; never *)
(* an empty slice.  The cases are the derived stop wrapping around, "[-1]"     *)
(* (whose derived stop is 0), smaller negative numbers, and the rest.          *)
LEMMA IndexIsOne ==
  ASSUME NEW sub \in Subscript, Parses(sub), IsIndex(sub), NEW n \in 0..MaxLen
  PROVE  /\ ~ZeroElements(ParseArray(sub), n)
         /\ Bounded(ParseArray(sub), n) =>
                /\ From(ParseArray(sub), n) = TheIndex(sub, n)
                /\ To(ParseArray(sub), n) = From(ParseArray(sub), n) + 1
  <1> DEFINE x == NumberEntry(sub.start).value
             p == ParseArray(sub)
  <1>1. x \in GoInt
    BY EntryType DEF Parses, Subscript, Entry
  <1>2. /\ p.start.value = x
        /\ p.stop.value = Add(x, 1) /\ p.stop.known /\ p.stop.derived
    BY DEF ParseArray, IsIndex, Derived
  <1>3. /\ From(p, n) = IF x < 0 THEN x + n ELSE x
        /\ To(p, n) = IF Add(x, 1) <= 0 THEN Add(x, 1) + n ELSE Add(x, 1)
    <2>1. Add(x, 1) \in Int
      BY <1>1, ArrayAssumption DEF Add, GoInt, MinInt
    <2> HIDE DEF p, x
    <2> QED
      BY <1>2, <2>1 DEF From, To
  <1>4. TheIndex(sub, n) = IF x < 0 THEN x + n ELSE x
    BY DEF TheIndex
  <1> HIDE DEF p, x
  <1>5. CASE x = MaxInt
    <2>1. Add(x, 1) = -MaxInt - 1
      BY <1>5, ArrayAssumption DEF Add
    <2>2. From(p, n) = MaxInt /\ To(p, n) = n - MaxInt - 1
      BY <1>3, <1>5, <2>1, ArrayAssumption
    <2>3. To(p, n) < 0
      BY <2>2, ArrayAssumption
    <2> QED
      BY <2>2, <2>3, ArrayAssumption DEF ZeroElements, Bounded, p
  <1>6. CASE x # MaxInt
    <2>1. Add(x, 1) = x + 1
      BY <1>1, <1>6, ArrayAssumption DEF Add, GoInt, MinInt
    <2>2. To(p, n) = From(p, n) + 1
      BY <1>1, <1>3, <2>1, ArrayAssumption DEF GoInt, MinInt
    <2>3. From(p, n) \in Int
      BY <1>1, <1>3, ArrayAssumption DEF GoInt, MinInt
    <2> QED
      BY <1>3, <1>4, <2>2, <2>3 DEF ZeroElements, p
  <1> QED
    BY <1>5, <1>6
--------------------------------------------------------------------------------
(* The window the inner loop walks, and why its index stays inside an int.     *)
LEMMA LoopFacts ==
  ASSUME Inv, pc = "step"
  PROVE  /\ value \in Value /\ value.len \in 0..MaxLen
         /\ from \in 0..(value.len - 1) /\ to \in (from + 1)..value.len
         /\ StepOf(params) \in 1..MaxInt
         /\ i < to - from =>
                /\ from + i \in 0..(value.len - 1)
                /\ Add(i, StepOf(params)) = i + StepOf(params)
                /\ i + StepOf(params) \in 0..MaxInt
  <1>1. InLoop /\ TypeOK /\ AllParse /\ m \in 1..Len(subs) /\ k \in 1..Len(input)
    <2>1. m <= Len(subs) /\ k <= Len(input)
      BY DEF Inv, InLoop
    <2>2. m \in 1..(Len(subs) + 1) /\ k \in 1..(Len(input) + 1)
      BY DEF Inv, TypeOK
    <2>3. Len(subs) \in Nat /\ Len(input) \in Nat
      BY SubsType DEF Inv
    <2> QED
      BY <2>1, <2>2, <2>3 DEF Inv
  <1>2. value \in Value /\ value.len \in 0..MaxLen
    BY <1>1, SubsType DEF value, Value
  <1>3. subs[m] \in Subscript /\ Parses(subs[m])
    BY <1>1, SubsType DEF AllParse
  <1>4. MaxInt > 0
    <2>1. NumberEntry(subs[m].start) \in Entry
      BY <1>3, EntryType DEF Parses, Subscript
    <2>2. From(params, value.len) \in Int
      BY <2>1, <1>2, ArrayAssumption DEF params, ParseArray, From, Entry, GoInt, MinInt
    <2> QED
      BY <1>1, <1>2, <2>2, ArrayAssumption DEF InLoop, Bounded
  <1>5. params \in Params
    BY <1>3, <1>4, ParamsType DEF params
  <1>6. StepOf(params) \in 1..MaxInt
    BY <1>1, <1>4, <1>5, ArrayAssumption DEF StepOf, InLoop, BadStep, Params, Entry, GoInt, MinInt
  <1>7. from \in Int /\ to \in Int
    BY <1>2, <1>5, ArrayAssumption DEF from, to, From, To, Params, Entry, GoInt, MinInt
  <1>8. from \in 0..(value.len - 1) /\ to \in (from + 1)..value.len
    BY <1>1, <1>2, <1>7 DEF InLoop, Bounded, ZeroElements, from, to
  <1>9. ASSUME i < to - from
        PROVE  /\ from + i \in 0..(value.len - 1)
               /\ Add(i, StepOf(params)) = i + StepOf(params)
               /\ i + StepOf(params) \in 0..MaxInt
    <2>1. i \in 0..MaxInt
      BY <1>1 DEF TypeOK
    <2>2. from + i \in 0..(value.len - 1) /\ i < MaxLen
      BY <1>2, <1>8, <1>9, <2>1, ArrayAssumption
    <2>3. i = 0 \/ i >= StepOf(params)
      BY <1>1 DEF InLoop
    <2>4. i + StepOf(params) \in 0..MaxInt
      BY <1>6, <2>1, <2>2, <2>3, ArrayAssumption
    <2>5. Add(i, StepOf(params)) = i + StepOf(params)
      BY <2>4, ArrayAssumption DEF Add
    <2> QED
      BY <2>2, <2>4, <2>5
  <1> QED
    BY <1>2, <1>6, <1>8, <1>9

LEMMA InvInit == Init => Inv
  <1> SUFFICES ASSUME Init PROVE Inv
    OBVIOUS
  <1>1. Len(subs) \in Nat /\ Len(input) \in Nat
    BY ArrayAssumption DEF Init
  <1> QED
    BY <1>1, ArrayAssumption DEF Init, Inv, TypeOK, InBounds

LEMMA InvStep == Inv /\ [Next]_vars => Inv'
  <1> SUFFICES ASSUME Inv, [Next]_vars PROVE Inv'
    OBVIOUS
  <1>1. Len(subs) \in Nat /\ Len(input) \in Nat
    BY SubsType DEF Inv
  <1> DEFINE Kept == UNCHANGED <<subs, input>>
  <1>2. CASE Parse
    BY <1>2, <1>1 DEF Parse, Inv, TypeOK, InBounds, Stopped, AllParse
  <1>3. CASE NextMember
    BY <1>3, <1>1 DEF NextMember, Inv, TypeOK, InBounds, Stopped, AllParse
  <1>4. CASE Done
    BY <1>4, <1>1 DEF Done, Inv, TypeOK, InBounds, Stopped, AllParse
  <1>5. CASE EndRange \/ ZeroSelection
    <2>1. pc = "range" /\ ReturnResult
      BY <1>5 DEF EndRange, ZeroSelection
    <2>2. union' \in Seq(Elements)
      BY <2>1, ConcatProperties DEF ReturnResult, Inv, TypeOK
    <2>3. m' \in 1..(Len(subs) + 1)
      BY <2>1, <1>1 DEF ReturnResult, Inv, TypeOK
    <2> QED
      BY <2>1, <2>2, <2>3 DEF ReturnResult, Inv, TypeOK, InBounds, Stopped, AllParse
  <1>6. CASE SkipNil
    BY <1>6, <1>1 DEF SkipNil, Inv, TypeOK, InBounds, Stopped, AllParse
  <1>7. CASE NotAList
    BY <1>7 DEF NotAList, Fail, Inv, TypeOK, InBounds, Stopped, AllParse
  <1>8. CASE OutOfBounds
    BY <1>8 DEF OutOfBounds, Fail, Inv, TypeOK, InBounds, Stopped, AllParse
  <1>9. CASE Slice
    <2>1. InLoop'
      BY <1>9 DEF Slice, InLoop, value, params
    <2> QED
      BY <1>9, <2>1, ArrayAssumption DEF Slice, Inv, TypeOK, InBounds, Stopped, AllParse
  <1>10. CASE Element
    <2>1. pc = "step" /\ i < to - from /\ UNCHANGED <<pc, subs, input, m, k, union>>
      BY <1>10 DEF Element
    <2>2. /\ from + i \in 0..(value.len - 1)
          /\ i' = i + StepOf(params)
          /\ i' \in 0..MaxInt
          /\ StepOf(params) \in 1..MaxInt
      BY <1>10, <2>1, LoopFacts DEF Element
    <2>3. k \in 1..Len(input) /\ value.kind = "list" /\ InLoop
      BY <1>1, <2>1 DEF Inv, InLoop, TypeOK
    <2> DEFINE e == <<k, from + i>>
    <2>4. result' = Append(result, e) /\ result \in Seq(Elements)
      BY <1>10 DEF Element, Inv, TypeOK
    <2>5. e \in Elements /\ e[1] = k /\ e[2] = from + i
      BY <2>2, <2>3, LoopFacts, <2>1 DEF Elements
    <2> HIDE DEF e
    <2>6. /\ result' \in Seq(Elements)
          /\ Len(result) \in Nat /\ Len(result') = Len(result) + 1
          /\ \A b \in 1..Len(result) : result'[b] = result[b]
          /\ result'[Len(result) + 1] = e
      BY <2>4, <2>5, AppendProperties
    <2>7. InBounds'
      <3> SUFFICES ASSUME NEW b \in 1..Len(result')
                   PROVE  /\ result'[b][1] \in 1..Len(input')
                          /\ input'[result'[b][1]].kind = "list"
                          /\ result'[b][2] \in 0..(input'[result'[b][1]].len - 1)
        BY DEF InBounds
      <3>1. CASE b \in 1..Len(result)
        BY <2>1, <2>6, <3>1 DEF Inv, InBounds
      <3>2. CASE b = Len(result) + 1
        BY <2>1, <2>2, <2>3, <2>5, <2>6, <3>2 DEF value
      <3> QED
        BY <2>6, <3>1, <3>2
    <2>8. i \in 0..MaxInt
      BY DEF Inv, TypeOK
    <2>9. i' >= StepOf(params)
      BY <2>2, <2>8, ArrayAssumption
    <2>10. InLoop'
      BY <2>1, <2>3, <2>9 DEF InLoop, value, params
    <2> QED
      BY <2>1, <2>2, <2>6, <2>7, <2>10 DEF Inv, TypeOK, AllParse, Stopped
  <1>11. CASE EndStep
    BY <1>11, <1>1 DEF EndStep, InLoop, Inv, TypeOK, InBounds, Stopped, AllParse
  <1>12. CASE UNCHANGED vars
    BY <1>12 DEF vars, Inv, TypeOK, InBounds, InLoop, AllParse, value, params
  <1> QED
    BY <1>2, <1>3, <1>4, <1>5, <1>6, <1>7, <1>8, <1>9, <1>10, <1>11, <1>12 DEF Next

THEOREM Invariance == Spec => []Inv
  BY InvInit, InvStep, PTL DEF Spec

(* The locals keep their Go types: the loop index, which grows by any positive *)
(* int, never wraps around.                                                    *)
THEOREM TypeCorrect == Spec => []TypeOK
  <1>1. Inv => TypeOK
    BY DEF Inv
  <1> QED
    BY <1>1, Invariance, PTL

(* No element outside its list is ever selected, whatever the subscripts.      *)
THEOREM SelectionsInBounds == Spec => []InBounds
  <1>1. Inv => InBounds
    BY DEF Inv
  <1> QED
    BY <1>1, Invariance, PTL
--------------------------------------------------------------------------------
(* What "[n]" has selected: one element of every list before input k, and of   *)
(* input k itself once its inner loop has run.                                 *)
Selected  == {result[e] : e \in 1..Len(result)}
OnePerInput == \A e, f \in 1..Len(result) : result[e][1] = result[f][1] => e = f
Before    == {<<a, TheIndex(subs[m], input[a].len)>> :
                  a \in {b \in 1..(k - 1) : input[b].kind = "list"}}
Here      == IF pc = "step" /\ i > 0 THEN {<<k, TheIndex(subs[m], value.len)>>} ELSE {}

IndexInv ==
    pc \in {"range", "step"} /\ IsIndex(subs[m]) =>
        OnePerInput /\ Selected = Before \cup Here

LEMMA IndexStep == Inv /\ IndexInv /\ [Next]_vars => IndexInv'
  <1> SUFFICES ASSUME Inv, IndexInv, [Next]_vars,
                      pc' \in {"range", "step"}, IsIndex(subs'[m'])
               PROVE  OnePerInput' /\ Selected' = Before' \cup Here'
    BY DEF IndexInv
  <1>1. Len(subs) \in Nat /\ Len(input) \in Nat
    BY SubsType DEF Inv
  <1>2. CASE NextMember
    <2>1. result' = <<>> /\ k' = 1 /\ pc' = "range"
      BY <1>2 DEF NextMember
    <2>2. Selected' = {} /\ OnePerInput'
      BY <2>1 DEF Selected, OnePerInput
    <2>3. Before' = {} /\ Here' = {}
      BY <2>1 DEF Before, Here
    <2> QED
      BY <2>2, <2>3
  <1>3. CASE SkipNil
    <2>1. /\ pc = "range" /\ pc' = "range" /\ UNCHANGED <<subs, input, m, result>>
          /\ k' = k + 1 /\ k \in 1..Len(input) /\ input[k].kind # "list"
      BY <1>3, <1>1 DEF SkipNil, value, Inv, TypeOK
    <2>2. {b \in 1..(k' - 1) : input[b].kind = "list"} = {b \in 1..(k - 1) : input[b].kind = "list"}
      BY <1>1, <2>1
    <2>3. Before' = Before
      BY <2>1, <2>2 DEF Before
    <2>4. Here' = Here
      BY <2>1 DEF Here
    <2> QED
      BY <2>1, <2>3, <2>4 DEF IndexInv, Selected, OnePerInput
  <1>4. CASE Slice
    <2>1. /\ pc = "range" /\ pc' = "step" /\ i' = 0
          /\ UNCHANGED <<subs, input, m, k, result>>
      BY <1>4 DEF Slice
    <2>2. Here' = {} /\ Here = {} /\ Before' = Before
      BY <2>1 DEF Here, Before
    <2> QED
      BY <2>1, <2>2 DEF IndexInv, Selected, OnePerInput
  <1>5. CASE Element
    <2>1. pc = "step" /\ i < to - from /\ UNCHANGED <<pc, subs, input, m, k>>
      BY <1>5 DEF Element
    <2>2. m \in 1..Len(subs) /\ k \in 1..Len(input) /\ AllParse /\ InLoop /\ i \in 0..MaxInt
      BY <1>1, <2>1 DEF Inv, InLoop, TypeOK
    <2>3. subs[m] \in Subscript /\ Parses(subs[m]) /\ IsIndex(subs[m]) /\ value.len \in 0..MaxLen
      BY <2>1, <2>2, SubsType, LoopFacts DEF AllParse, Inv
    <2>4. from = TheIndex(subs[m], value.len) /\ to = from + 1
      BY <2>2, <2>3, IndexIsOne DEF InLoop, params, from, to
    <2>5. from \in Int
      BY <2>1, LoopFacts, <2>3
    <2>6. i = 0
      BY <2>1, <2>2, <2>4, <2>5, ArrayAssumption
    <2> DEFINE e == <<k, from>>
    <2>7. result' = Append(result, e) /\ i' > 0
      <3>1. from + i = from
        BY <2>5, <2>6
      <3>2. i' = i + StepOf(params) /\ StepOf(params) \in 1..MaxInt
        BY <1>5, <2>1, LoopFacts DEF Element
      <3> QED
        BY <1>5, <2>6, <3>1, <3>2, ArrayAssumption DEF Element
    <2>8. /\ Len(result) \in Nat /\ Len(result') = Len(result) + 1
          /\ \A b \in 1..Len(result) : result'[b] = result[b]
          /\ result'[Len(result) + 1] = e
      <3>1. result \in Seq(Elements) /\ e \in Elements
        BY <2>2, <2>5, <1>1 DEF Inv, TypeOK, Elements
      <3> HIDE DEF e
      <3> QED
        BY <2>7, <3>1, AppendProperties
    <2>9. Selected' = Selected \cup {e}
      <3>1. Selected' \subseteq Selected \cup {e}
        <4> SUFFICES ASSUME NEW b \in 1..Len(result')
                     PROVE  result'[b] \in Selected \cup {e}
          BY DEF Selected
        <4> HIDE DEF e
        <4>1. CASE b \in 1..Len(result)
          BY <2>8, <4>1 DEF Selected
        <4>2. CASE b = Len(result) + 1
          BY <2>8, <4>2
        <4> QED
          BY <2>8, <4>1, <4>2
      <3>2. Selected \subseteq Selected'
        <4> SUFFICES ASSUME NEW b \in 1..Len(result) PROVE result[b] \in Selected'
          BY DEF Selected
        <4>1. b \in 1..Len(result') /\ result'[b] = result[b]
          BY <2>8
        <4> QED
          BY <4>1 DEF Selected
      <3>3. e \in Selected'
        <4>1. Len(result) + 1 \in 1..Len(result')
          BY <2>8
        <4> QED
          BY <2>8, <4>1 DEF Selected
      <3> QED
        BY <3>1, <3>2, <3>3
    <2>10. Here = {} /\ Here' = {e} /\ Before' = Before
      BY <2>1, <2>4, <2>6, <2>7 DEF Here, Before, value
    <2>11. OnePerInput /\ Selected = Before
      BY <2>1, <2>3, <2>10 DEF IndexInv
    <2>12. \A b \in 1..Len(result) : result[b][1] # k
      <3> SUFFICES ASSUME NEW b \in 1..Len(result) PROVE result[b][1] # k
        OBVIOUS
      <3>1. result[b] \in Before
        BY <2>11 DEF Selected
      <3>2. result[b][1] \in 1..(k - 1)
        BY <3>1 DEF Before
      <3> QED
        BY <2>2, <3>2, <1>1
    <2>13. OnePerInput'
      <3> SUFFICES ASSUME NEW b \in 1..Len(result'), NEW c \in 1..Len(result'),
                          result'[b][1] = result'[c][1]
                   PROVE  b = c
        BY DEF OnePerInput
      <3>1. CASE b \in 1..Len(result) /\ c \in 1..Len(result)
        BY <2>8, <2>11, <3>1 DEF OnePerInput
      <3>2. CASE b = Len(result) + 1 \/ c = Len(result) + 1
        BY <2>8, <2>12, <3>2
      <3> QED
        BY <2>8, <3>1, <3>2
    <2> QED
      BY <2>9, <2>10, <2>11, <2>13
  <1>6. CASE EndStep
    <2>1. /\ pc = "step" /\ pc' = "range" /\ i >= to - from /\ k' = k + 1
          /\ UNCHANGED <<subs, input, m, i, result>>
      BY <1>6 DEF EndStep
    <2>2. k \in 1..Len(input) /\ input[k].kind = "list" /\ i \in 0..MaxInt
      BY <1>1, <2>1 DEF Inv, InLoop, TypeOK, value
    <2>3. from \in Int /\ to \in Int /\ to > from
      BY <2>1, LoopFacts
    <2>4. i > 0
      BY <2>1, <2>2, <2>3, ArrayAssumption
    <2>5. Here = {<<k, TheIndex(subs[m], value.len)>>} /\ Here' = {}
      BY <2>1, <2>4 DEF Here
    <2>6. {b \in 1..(k' - 1) : input[b].kind = "list"}
              = {b \in 1..(k - 1) : input[b].kind = "list"} \cup {k}
      BY <1>1, <2>1, <2>2
    <2>7. Before' = Before \cup {<<k, TheIndex(subs[m], value.len)>>}
      BY <2>1, <2>6 DEF Before, value
    <2> QED
      BY <2>1, <2>5, <2>7 DEF IndexInv, Selected, OnePerInput
  <1>7. CASE UNCHANGED vars
    BY <1>7 DEF vars, IndexInv, Selected, OnePerInput, Before, Here, value
  <1>8. CASE Parse \/ Done \/ EndRange \/ ZeroSelection \/ NotAList \/ OutOfBounds
    BY <1>8 DEF Parse, Done, EndRange, ZeroSelection, NotAList, OutOfBounds, ReturnResult, Fail
  <1> QED
    BY <1>2, <1>3, <1>4, <1>5, <1>6, <1>7, <1>8 DEF Next

(* "[n]" selects exactly one element of each list it is evaluated on, the one  *)
(* n names, or the evaluation fails; never silently nothing.                   *)
THEOREM IndexIsExact == Spec => []IndexSelectsOne
  <1>1. Init => IndexInv
    BY DEF Init, IndexInv
  <1>2. Inv /\ IndexInv => IndexSelectsOne
    <2> SUFFICES ASSUME Inv, IndexInv, pc = "range", IsIndex(subs[m])
                 PROVE  IndexSelectsOne
      BY DEF IndexSelectsOne
    <2>1. m \in 1..Len(subs) /\ AllParse
      BY SubsType DEF Inv, TypeOK
    <2>2. subs[m] \in Subscript /\ Parses(subs[m])
      BY <2>1, SubsType DEF AllParse, Inv
    <2>3. k <= Len(input) /\ value.kind = "list" => ~ZeroElements(params, value.len)
      <3> SUFFICES ASSUME k <= Len(input) PROVE ~ZeroElements(params, value.len)
        OBVIOUS
      <3>1. k \in 1..Len(input)
        BY SubsType DEF Inv, TypeOK
      <3>2. value.len \in 0..MaxLen
        BY <3>1, SubsType DEF value, Value, Inv
      <3> QED
        BY <2>2, <3>2, IndexIsOne DEF params
    <2> QED
      BY <2>3 DEF IndexInv, IndexSelectsOne, Here, Selected, OnePerInput, Before
  <1> QED
    BY <1>1, <1>2, IndexStep, Invariance, PTL DEF Spec
--------------------------------------------------------------------------------
(* What evalArray's numbers select from a list, when it goes on with them, is  *)
(* what the subscript stands for: every step-th position of the window.        *)
LEMMA Window ==
  ASSUME NEW sub \in Subscript, Parses(sub), NEW n \in 0..MaxLen,
         Bounded(ParseArray(sub), n), ~BadStep(ParseArray(sub)), MaxInt > 0,
         NEW e \in Int
  PROVE  Selects(sub, n, e) <=>
             /\ e < To(ParseArray(sub), n)
             /\ \E j \in Nat : e = From(ParseArray(sub), n) + j * StepOf(ParseArray(sub))
  <1> DEFINE p == ParseArray(sub)
             from0 == From(p, n)
             to0 == To(p, n)
             st == StepOf(p)
  <1>1. /\ sub.start \in Number /\ sub.stop.num \in Number /\ sub.step.num \in Number
        /\ sub.stop.colon \in BOOLEAN
    BY DEF Subscript
  <1>2. p \in Params
    BY ParamsType
  <1>3. st \in 1..MaxInt
    BY <1>2, ArrayAssumption DEF StepOf, BadStep, Params, Entry, GoInt, MinInt
  <1>4. from0 \in 0..(n - 1) /\ to0 \in 0..n
    <2>1. from0 \in Int /\ to0 \in Int
      BY <1>2, ArrayAssumption DEF From, To, Params, Entry, GoInt, MinInt
    <2> QED
      BY <2>1, ArrayAssumption DEF Bounded
  <1>5. from0 = Position(sub.start, n, 0)
    BY <1>1, ArrayAssumption DEF From, ParseArray, Position, NumberEntry, Unknown, Known
  <1>6. CASE IsIndex(sub)
    <2>1. to0 = from0 + 1
      BY <1>6, IndexIsOne
    <2>2. Selects(sub, n, e) <=> e = from0
      BY <1>5, <1>6 DEF Selects
    <2>3. ASSUME NEW j \in Nat, e < to0, e = from0 + j * st
          PROVE  e = from0
      <3>1. j >= 1 => j * st >= 1
        BY <1>3
      <3>2. j * st \in Int
        BY <1>3
      <3>3. j * st < 1
        BY <1>4, <2>1, <2>3, <3>2
      <3>4. j = 0
        BY <3>1, <3>2, <3>3
      <3> QED
        BY <1>3, <1>4, <2>3, <3>4
    <2>4. e = from0 => e < to0 /\ e = from0 + 0 * st
      BY <1>3, <1>4, <2>1
    <2> HIDE DEF from0, to0, st
    <2>5. (e < to0 /\ \E j \in Nat : e = from0 + j * st) <=> e = from0
      BY <2>3, <2>4
    <2> QED
      BY <2>2, <2>5 DEF from0, to0, st
  <1>7. CASE ~IsIndex(sub)
    <2>1. to0 = Position(sub.stop.num, n, n)
      BY <1>1, <1>7, ArrayAssumption
         DEF To, ParseArray, Position, NumberEntry, Unknown, Known, IsIndex
    <2>2. st = IF sub.step.num = <<>> THEN 1 ELSE sub.step.num[1]
      BY <1>1 DEF StepOf, ParseArray, NumberEntry, Unknown, Known
    <2>3. Selects(sub, n, e) <=> e < to0 /\ \E j \in 0..n : e = from0 + j * st
      BY <1>5, <1>7, <2>1, <2>2 DEF Selects
    <2>4. ASSUME NEW j \in Nat, e < to0, e = from0 + j * st
          PROVE  j \in 0..n
      <3>1. j * st >= j /\ j * st \in Int
        BY <1>3
      <3> QED
        BY <1>4, <2>4, <3>1
    <2> HIDE DEF from0, to0, st
    <2>5. (e < to0 /\ \E j \in Nat : e = from0 + j * st)
              <=> (e < to0 /\ \E j \in 0..n : e = from0 + j * st)
      BY <2>4, ArrayAssumption
    <2> QED
      BY <2>3, <2>5 DEF from0, to0, st
  <1> QED
    BY <1>6, <1>7

(* What the loops over the inputs and over the slice have reached of what the  *)
(* member of the union is to select.                                           *)
Reached == {p \in Chosen(subs[m]) :
               p[1] < k \/ (pc = "step" /\ p[1] = k /\ p[2] < from + i)}

SliceInv ==
    pc \in {"range", "step"} =>
        /\ \A e, f \in 1..Len(result) : e < f => Precedes(result[e], result[f])
        /\ {result[e] : e \in 1..Len(result)} = Reached
        /\ pc = "step" => \E j \in Nat : i = j * StepOf(params)

(* The position the inner loop is at is selected, and none before the next.    *)
LEMMA AtPosition ==
  ASSUME Inv, pc = "step", NEW j \in Nat, i = j * StepOf(params), i < to - from,
         NEW e \in Int
  PROVE  Selects(subs[m], value.len, e) /\ e < from + (i + StepOf(params))
             <=> (Selects(subs[m], value.len, e) /\ e < from + i) \/ e = from + i
  <1>1. /\ m \in 1..Len(subs) /\ k \in 1..Len(input) /\ AllParse /\ InLoop /\ i \in 0..MaxInt
    BY SubsType DEF Inv, InLoop, TypeOK
  <1>2. /\ value.len \in 0..MaxLen /\ from \in 0..(value.len - 1)
        /\ to \in (from + 1)..value.len /\ StepOf(params) \in 1..MaxInt
    BY LoopFacts
  <1>3. subs[m] \in Subscript /\ Parses(subs[m])
    BY <1>1, SubsType DEF AllParse, Inv
  <1>4. MaxInt > 0
    BY <1>2, ArrayAssumption
  <1> DEFINE st == StepOf(params)
  <1>5. \A x \in Int : Selects(subs[m], value.len, x)
                           <=> x < to /\ \E h \in Nat : x = from + h * st
    BY <1>1, <1>2, <1>3, <1>4, Window DEF InLoop, params, from, to
  <1>6. Selects(subs[m], value.len, from + i)
    <2>1. from + i \in Int /\ from + i < to
      BY <1>1, <1>2
    <2> QED
      BY <1>5, <2>1
  <1>7. ASSUME Selects(subs[m], value.len, e), e < from + (i + st), e >= from + i
        PROVE  e = from + i
    <2>1. PICK h \in Nat : e = from + h * st
      BY <1>5, <1>7
    <2>2. h * st \in Int /\ j * st \in Int /\ st \in 1..MaxInt
      BY <1>2
    <2>3. h * st >= j * st /\ h * st < j * st + st
      BY <1>2, <1>7, <2>1, <2>2
    <2>4. h >= j + 1 => h * st >= (j + 1) * st
      BY <2>2
    <2>5. (j + 1) * st = j * st + st
      BY <2>2
    <2>6. h + 1 <= j => (h + 1) * st <= j * st
      BY <2>2
    <2>7. (h + 1) * st = h * st + st
      BY <2>2
    <2>8. h = j
      BY <2>2, <2>3, <2>4, <2>5, <2>6, <2>7
    <2> QED
      BY <2>1, <2>8
  <1> HIDE DEF st
  <1>8. st \in Nat /\ st > 0 /\ i \in Nat /\ from \in Nat
    BY <1>1, <1>2 DEF st
  <1> QED
    BY <1>6, <1>7, <1>8 DEF st

(* One more element, after all there are: order and contents.                  *)
LEMMA OneMore ==
  ASSUME NEW s \in Seq(Elements), NEW p \in Elements,
         \A e, f \in 1..Len(s) : e < f => Precedes(s[e], s[f]),
         \A e \in 1..Len(s) : Precedes(s[e], p)
  PROVE  LET t == Append(s, p)
         IN  /\ \A e, f \in 1..Len(t) : e < f => Precedes(t[e], t[f])
             /\ {t[e] : e \in 1..Len(t)} = {s[e] : e \in 1..Len(s)} \cup {p}
  <1> DEFINE t == Append(s, p)
  <1>1. /\ Len(s) \in Nat /\ Len(t) = Len(s) + 1
        /\ \A e \in 1..Len(s) : t[e] = s[e]
        /\ t[Len(s) + 1] = p
    BY AppendProperties, LenProperties
  <1> HIDE DEF t
  <1>2. ASSUME NEW e \in 1..Len(t), NEW f \in 1..Len(t), e < f
        PROVE  Precedes(t[e], t[f])
    <2>1. e \in 1..Len(s) /\ (f \in 1..Len(s) \/ f = Len(s) + 1)
      BY <1>1, <1>2
    <2> QED
      BY <1>1, <1>2, <2>1
  <1>3. {t[e] : e \in 1..Len(t)} = {s[e] : e \in 1..Len(s)} \cup {p}
    <2>1. 1..Len(t) = (1..Len(s)) \cup {Len(s) + 1}
      BY <1>1
    <2>2. \A x : (\E e \in 1..Len(t) : x = t[e]) <=> (\E e \in 1..Len(s) : x = s[e]) \/ x = p
      BY <1>1, <2>1
    <2> QED
      BY <2>2
  <1> QED
    BY <1>2, <1>3 DEF t

LEMMA SliceStep == Inv /\ SliceInv /\ [Next]_vars => SliceInv'
  <1> SUFFICES ASSUME Inv, SliceInv, [Next]_vars, pc' \in {"range", "step"}
               PROVE  SliceInv'
    BY DEF SliceInv
  <1>1. Len(subs) \in Nat /\ Len(input) \in Nat
    BY SubsType DEF Inv
  <1>2. CASE NextMember
    <2>1. result' = <<>> /\ k' = 1 /\ pc' = "range"
      BY <1>2 DEF NextMember
    <2>2. Reached' = {}
      BY <2>1 DEF Reached, Chosen
    <2> QED
      BY <2>1, <2>2 DEF SliceInv
  <1>3. CASE SkipNil
    <2>1. /\ pc = "range" /\ pc' = "range" /\ UNCHANGED <<subs, input, m, result>>
          /\ k' = k + 1 /\ k \in 1..Len(input) /\ input[k].kind # "list"
      BY <1>3, <1>1 DEF SkipNil, value, Inv, TypeOK
    <2>2. Chosen(subs[m])' = Chosen(subs[m])
      BY <2>1 DEF Chosen
    <2>3. \A p \in Chosen(subs[m]) : p[1] \in 1..Len(input) /\ p[1] # k
      BY <2>1 DEF Chosen
    <2>4. \A p \in Chosen(subs[m]) : p[1] < k' <=> p[1] < k
      BY <2>1, <2>3, <1>1
    <2>5. Reached' = Reached
      BY <2>1, <2>2, <2>4 DEF Reached
    <2> QED
      BY <2>1, <2>5 DEF SliceInv
  <1>4. CASE Slice
    <2>1. /\ pc = "range" /\ pc' = "step" /\ i' = 0
          /\ UNCHANGED <<subs, input, m, k, result>>
      BY <1>4 DEF Slice
    <2>2. from' = from /\ params' = params /\ value' = value /\ Chosen(subs[m])' = Chosen(subs[m])
      BY <2>1 DEF from, params, value, Chosen
    <2>4. /\ m \in 1..Len(subs) /\ k \in 1..Len(input) /\ AllParse
          /\ Bounded(params, value.len) /\ ~BadStep(params)
      BY <1>1, <1>4, SubsType DEF Inv, TypeOK, Slice
    <2>5. value.len \in 0..MaxLen /\ subs[m] \in Subscript /\ Parses(subs[m])
      BY <2>4, SubsType DEF Inv, value, Value, AllParse
    <2>6. from \in Nat /\ StepOf(params) \in 1..MaxInt
      <3>1. NumberEntry(subs[m].start) \in Entry
        BY <2>5, EntryType DEF Parses, Subscript
      <3>2. from \in Int
        BY <2>5, <3>1, ArrayAssumption DEF from, params, ParseArray, From, Entry, GoInt, MinInt
      <3>3. from \in Nat /\ MaxInt > 0
        BY <2>4, <2>5, <3>2, ArrayAssumption DEF Bounded, from
      <3>4. params \in Params
        BY <2>5, <3>3, ParamsType DEF params
      <3> QED
        BY <2>4, <3>3, <3>4, ArrayAssumption DEF StepOf, BadStep, Params, Entry, GoInt, MinInt
    <2>7. ASSUME NEW p \in Chosen(subs[m]), p[1] = k, p[2] < from + 0
          PROVE  FALSE
      <3>1. p[2] \in 0..MaxLen /\ Selects(subs[m], value.len, p[2])
        BY <2>7 DEF Chosen, value
      <3>2. MaxInt > 0
        BY <2>6, ArrayAssumption
      <3>3. PICK j \in Nat : p[2] = from + j * StepOf(params)
        BY <2>4, <2>5, <3>1, <3>2, Window, ArrayAssumption DEF params, from
      <3>4. j * StepOf(params) \in Nat
        BY <2>6
      <3> QED
        BY <2>6, <2>7, <3>3, <3>4
    <2>8. Reached' = Reached
      BY <2>1, <2>2, <2>7 DEF Reached
    <2>9. i' = 0 * StepOf(params')
      BY <2>1, <2>2, <2>6
    <2> QED
      BY <2>1, <2>8, <2>9 DEF SliceInv
  <1>5. CASE Element
    <2>1. pc = "step" /\ i < to - from /\ UNCHANGED <<pc, subs, input, m, k>>
      BY <1>5 DEF Element
    <2>2. /\ value.len \in 0..MaxLen /\ from \in 0..(value.len - 1)
          /\ StepOf(params) \in 1..MaxInt /\ from + i \in 0..(value.len - 1)
          /\ Add(i, StepOf(params)) = i + StepOf(params)
      BY <2>1, LoopFacts
    <2> DEFINE st == StepOf(params)
               p == <<k, from + i>>
    <2>3. /\ i' = i + st /\ result' = Append(result, p)
          /\ from' = from /\ params' = params /\ value' = value
          /\ Chosen(subs[m])' = Chosen(subs[m])
      BY <1>5, <2>1, <2>2 DEF Element, from, params, value, Chosen
    <2>4. /\ m \in 1..Len(subs) /\ k \in 1..Len(input) /\ value.kind = "list"
          /\ i \in 0..MaxInt /\ result \in Seq(Elements)
      BY <1>1, <2>1, SubsType DEF Inv, InLoop, TypeOK
    <2>5. PICK j \in Nat : i = j * st
      BY <2>1 DEF SliceInv
    <2>6. p \in Elements
      BY <2>2, <2>4 DEF Elements
    <2>7. \A e \in Int : Selects(subs[m], value.len, e) /\ e < from + (i + st)
                 <=> (Selects(subs[m], value.len, e) /\ e < from + i) \/ e = from + i
      BY <2>1, <2>5, AtPosition
    <2>8. p \in Chosen(subs[m])
      <3>1. Selects(subs[m], value.len, from + i)
        BY <2>2, <2>7
      <3>2. from + i \in 0..MaxLen
        BY <2>2, ArrayAssumption
      <3>3. p[1] = k /\ p[2] = from + i /\ p \in (1..Len(input)) \X (0..MaxLen)
        BY <2>4, <3>2
      <3> HIDE DEF p
      <3> QED
        BY <2>4, <3>1, <3>3 DEF Chosen, value
    <2>9. Reached' = Reached \cup {p}
      <3>1. ASSUME NEW q \in Chosen(subs[m])
            PROVE  q \in Reached' <=> q \in Reached \/ q = p
        <4>1. q[1] \in 1..Len(input) /\ q[2] \in 0..MaxLen /\ q = <<q[1], q[2]>>
          BY <3>1 DEF Chosen
        <4>2. q[1] = k => Selects(subs[m], value.len, q[2])
          BY <3>1 DEF Chosen, value
        <4>3. q[1] = k => (q[2] < from + (i + st) <=> q[2] < from + i \/ q[2] = from + i)
          BY <2>7, <4>1, <4>2, ArrayAssumption
        <4>4. q = p <=> q[1] = k /\ q[2] = from + i
          BY <4>1
        <4>5. k \in Int /\ ~(k < k)
          BY <2>4
        <4> HIDE DEF p, st
        <4> QED
          BY <2>1, <2>3, <4>3, <4>4, <4>5, <3>1 DEF Reached
      <3>2. Reached \subseteq Chosen(subs[m]) /\ Reached' \subseteq Chosen(subs[m])
        BY <2>3 DEF Reached
      <3> HIDE DEF p
      <3> QED
        BY <2>8, <3>1, <3>2
    <2>10. \A e \in 1..Len(result) : Precedes(result[e], p)
      <3> SUFFICES ASSUME NEW e \in 1..Len(result) PROVE Precedes(result[e], p)
        OBVIOUS
      <3>1. result[e] \in Reached
        BY <2>1 DEF SliceInv
      <3> QED
        BY <3>1 DEF Reached, Precedes
    <2>11. \A e, f \in 1..Len(result) : e < f => Precedes(result[e], result[f])
      BY <2>1 DEF SliceInv
    <2>12. /\ \A e, f \in 1..Len(result') : e < f => Precedes(result'[e], result'[f])
           /\ {result'[e] : e \in 1..Len(result')} = {result[e] : e \in 1..Len(result)} \cup {p}
      <3> HIDE DEF p
      <3> QED
        BY <2>3, <2>4, <2>6, <2>10, <2>11, OneMore
    <2>13. {result'[e] : e \in 1..Len(result')} = Reached'
      BY <2>1, <2>9, <2>12 DEF SliceInv
    <2>14. \E h \in Nat : i' = h * StepOf(params')
      <3>1. (j + 1) * st = j * st + st
        BY <2>2
      <3> QED
        BY <2>3, <2>5, <3>1
    <2>15. \A e, f \in 1..Len(result') : e < f => Precedes(result'[e], result'[f])
      BY <2>12
    <2> QED
      BY <2>13, <2>14, <2>15 DEF SliceInv
  <1>6. CASE EndStep
    <2>1. /\ pc = "step" /\ pc' = "range" /\ i >= to - from /\ k' = k + 1
          /\ UNCHANGED <<subs, input, m, i, result>>
      BY <1>6 DEF EndStep
    <2>2. /\ m \in 1..Len(subs) /\ k \in 1..Len(input) /\ AllParse /\ InLoop /\ i \in 0..MaxInt
      BY <1>1, <2>1 DEF Inv, InLoop, TypeOK
    <2>3. /\ from \in Int /\ to \in Int /\ value.len \in 0..MaxLen
          /\ subs[m] \in Subscript /\ Parses(subs[m]) /\ MaxInt > 0
      BY <2>1, <2>2, LoopFacts, SubsType, ArrayAssumption DEF Inv, AllParse
    <2>4. Chosen(subs[m])' = Chosen(subs[m])
      BY <2>1 DEF Chosen
    <2>5. ASSUME NEW p \in Chosen(subs[m])
          PROVE  p[1] < k' <=> p[1] < k \/ (p[1] = k /\ p[2] < from + i)
      <3>1. p[1] \in 1..Len(input) /\ p[2] \in 0..MaxLen
        BY <2>5 DEF Chosen
      <3>2. CASE p[1] = k
        <4>1. Selects(subs[m], value.len, p[2])
          BY <2>5, <3>2 DEF Chosen, value
        <4>2. p[2] < to
          BY <2>2, <2>3, <3>1, <4>1, Window, ArrayAssumption DEF InLoop, params, to
        <4> QED
          BY <2>1, <2>2, <2>3, <3>1, <3>2, <4>2, ArrayAssumption
      <3>3. CASE p[1] # k
        BY <2>1, <2>2, <3>1, <3>3, <1>1
      <3> QED
        BY <3>2, <3>3
    <2>6. Reached' = Reached
      BY <2>1, <2>4, <2>5 DEF Reached
    <2> QED
      BY <2>1, <2>6 DEF SliceInv
  <1>7. CASE UNCHANGED vars
    BY <1>7 DEF vars, SliceInv, Reached, Chosen, from, params, value
  <1>8. CASE Parse \/ Done \/ EndRange \/ ZeroSelection \/ NotAList \/ OutOfBounds
    BY <1>8 DEF Parse, Done, EndRange, ZeroSelection, NotAList, OutOfBounds, ReturnResult, Fail
  <1> QED
    BY <1>2, <1>3, <1>4, <1>5, <1>6, <1>7, <1>8 DEF Next

(* What has been reached is everything once the inputs have been looped over.  *)
LEMMA AllReached ==
  ASSUME Inv, pc = "range", k > Len(input)
  PROVE  Reached = Chosen(subs[m])
  <1>1. \A p \in Chosen(subs[m]) : p[1] \in 1..Len(input)
    BY DEF Chosen
  <1>2. \A p \in Chosen(subs[m]) : p[1] < k
    BY <1>1, SubsType DEF Inv, TypeOK
  <1> QED
    BY <1>2 DEF Reached

(* A selection stays one when it is put after another, or another after it.    *)
LEMMA Shifted ==
  ASSUME NEW s \in Seq(Elements), NEW t \in Seq(Elements), NEW sub
  PROVE  /\ Selection(sub, t, 0, Len(t)) =>
                Selection(sub, s \o t, Len(s), Len(s) + Len(t))
         /\ \A lo \in 0..Len(s), hi \in 0..Len(s) :
                Selection(sub, s, lo, hi) => Selection(sub, s \o t, lo, hi)
  <1> DEFINE u == s \o t
  <1>1. /\ Len(s) \in Nat /\ Len(t) \in Nat
        /\ \A e \in 1..Len(s) : u[e] = s[e]
        /\ \A e \in 1..Len(t) : u[Len(s) + e] = t[e]
    BY ConcatProperties, LenProperties
  <1> HIDE DEF u
  <1>2. ASSUME Selection(sub, t, 0, Len(t))
        PROVE  Selection(sub, u, Len(s), Len(s) + Len(t))
    <2>1. \A e \in (Len(s) + 1)..(Len(s) + Len(t)) :
              e - Len(s) \in 1..Len(t) /\ u[e] = t[e - Len(s)]
      BY <1>1
    <2>2. \A e \in 1..Len(t) : Len(s) + e \in (Len(s) + 1)..(Len(s) + Len(t))
      BY <1>1
    <2>3. {u[e] : e \in (Len(s) + 1)..(Len(s) + Len(t))} = {t[e] : e \in 1..Len(t)}
      <3>1. \A x : (\E e \in (Len(s) + 1)..(Len(s) + Len(t)) : x = u[e])
                       <=> (\E e \in 1..Len(t) : x = t[e])
        <4>1. ASSUME NEW x, NEW e \in 1..Len(t), x = t[e]
              PROVE  \E f \in (Len(s) + 1)..(Len(s) + Len(t)) : x = u[f]
          BY <1>1, <2>2, <4>1
        <4> QED
          BY <2>1, <4>1
      <3> QED
        BY <3>1
    <2>4. ASSUME NEW e \in (Len(s) + 1)..(Len(s) + Len(t)),
                 NEW f \in (Len(s) + 1)..(Len(s) + Len(t)), e < f
          PROVE  Precedes(u[e], u[f])
      <3>1. e - Len(s) < f - Len(s) /\ 0 + 1 = 1
        BY <1>1, <2>4
      <3>2. e - Len(s) \in 1..Len(t) /\ f - Len(s) \in 1..Len(t)
        BY <2>1, <2>4
      <3>3. Precedes(t[e - Len(s)], t[f - Len(s)])
        BY <1>2, <3>1, <3>2 DEF Selection
      <3> QED
        BY <2>1, <2>4, <3>3
    <2>5. 0 + 1 = 1 /\ {t[e] : e \in 1..Len(t)} = Chosen(sub)
      BY <1>2 DEF Selection
    <2> QED
      BY <2>3, <2>4, <2>5 DEF Selection
  <1>3. ASSUME NEW lo \in 0..Len(s), NEW hi \in 0..Len(s), Selection(sub, s, lo, hi)
        PROVE  Selection(sub, u, lo, hi)
    <2>1. \A e \in (lo + 1)..hi : u[e] = s[e]
      BY <1>1
    <2>2. {u[e] : e \in (lo + 1)..hi} = {s[e] : e \in (lo + 1)..hi}
      BY <2>1
    <2> QED
      BY <1>3, <2>1, <2>2 DEF Selection
  <1> QED
    BY <1>2, <1>3 DEF u

LEMMA NextSelection ==
  ASSUME NEW n \in Nat, n + 1 <= Len(subs), Len(subs) \in Nat,
         NEW s \in Seq(Elements), NEW t \in Seq(Elements),
         Selections(n, s), Selection(subs[n + 1], t, 0, Len(t))
  PROVE  Selections(n + 1, s \o t)
  <1>1. PICK cut \in [0..n -> 0..Len(s)] :
            /\ cut[0] = 0 /\ cut[n] = Len(s)
            /\ \A a \in 1..n : /\ cut[a - 1] <= cut[a]
                               /\ Selection(subs[a], s, cut[a - 1], cut[a])
    BY DEF Selections
  <1> DEFINE u == s \o t
             more == [a \in 0..(n + 1) |-> IF a = n + 1 THEN Len(u) ELSE cut[a]]
  <1>2. Len(s) \in Nat /\ Len(t) \in Nat /\ Len(u) = Len(s) + Len(t)
    BY ConcatProperties, LenProperties
  <1>3. \A a \in 0..n : more[a] = cut[a] /\ cut[a] \in 0..Len(s)
    OBVIOUS
  <1>4. more[n + 1] = Len(u)
    OBVIOUS
  <1>5. more \in [0..(n + 1) -> 0..Len(u)]
    BY <1>2
  <1> HIDE DEF more, u
  <1>6. ASSUME NEW a \in 1..(n + 1)
        PROVE  more[a - 1] <= more[a] /\ Selection(subs[a], u, more[a - 1], more[a])
    <2>1. CASE a = n + 1
      <3>1. more[a - 1] = Len(s) /\ more[a] = Len(s) + Len(t)
        BY <1>1, <1>2, <1>3, <1>4, <2>1
      <3>2. Selection(subs[a], u, Len(s), Len(s) + Len(t))
        BY <2>1, Shifted DEF u
      <3> QED
        BY <1>2, <3>1, <3>2
    <2>2. CASE a # n + 1
      <3>1. a \in 1..n /\ a - 1 \in 0..n /\ a \in 0..n
        BY <2>2
      <3>2. Selection(subs[a], s, cut[a - 1], cut[a])
        BY <1>1, <3>1
      <3>3. Selection(subs[a], u, cut[a - 1], cut[a])
        BY <1>3, <3>1, <3>2, Shifted DEF u
      <3> QED
        BY <1>1, <1>3, <3>1, <3>3
    <2> QED
      BY <2>1, <2>2
  <1>7. more[0] = 0
    BY <1>1, <1>3
  <1> QED
    BY <1>4, <1>5, <1>6, <1>7 DEF Selections, u

UnionInv ==
    NothingEmpty =>
        /\ pc = "parse" => m = 1 /\ union = <<>>
        /\ pc \in {"union", "range", "step"} => Selections(m - 1, union)
        /\ pc = "ok" => Selections(Len(subs), returned)

LEMMA NoSelection == Selections(0, <<>>)
  <1> DEFINE cut == [a \in 0..0 |-> 0]
  <1>1. cut \in [0..0 -> 0..Len(<<>>)] /\ cut[0] = 0 /\ cut[0] = Len(<<>>)
    BY EmptySeq
  <1>2. \A a \in 1..0 : FALSE
    OBVIOUS
  <1> HIDE DEF cut
  <1> QED
    BY <1>1, <1>2 DEF Selections

LEMMA SelectionsKept ==
  ASSUME UNCHANGED <<subs, input>>
  PROVE  /\ NothingEmpty' <=> NothingEmpty
         /\ \A n, s : Selections(n, s)' <=> Selections(n, s)
  <1>1. \A sub : Chosen(sub)' = Chosen(sub)
    BY DEF Chosen
  <1>2. \A sub, s, lo, hi : Selection(sub, s, lo, hi)' <=> Selection(sub, s, lo, hi)
    BY <1>1 DEF Selection
  <1> QED
    BY <1>2 DEF Selections, NothingEmpty

LEMMA UnionStep == Inv /\ SliceInv /\ UnionInv /\ [Next]_vars => UnionInv'
  <1> SUFFICES ASSUME Inv, SliceInv, UnionInv, [Next]_vars, NothingEmpty'
               PROVE  /\ pc' = "parse" => m' = 1 /\ union' = <<>>
                      /\ pc' \in {"union", "range", "step"} => Selections(m - 1, union)'
                      /\ pc' = "ok" => Selections(Len(subs), returned)'
    BY DEF UnionInv
  <1>1. Len(subs) \in Nat /\ Len(input) \in Nat /\ m \in 1..(Len(subs) + 1)
    BY SubsType DEF Inv, TypeOK
  <1>2. UNCHANGED <<subs, input>>
    BY DEF Next, vars, Parse, NextMember, Done, EndRange, SkipNil, NotAList, ZeroSelection,
           OutOfBounds, Slice, Element, EndStep, ReturnResult, Fail
  <1>3. NothingEmpty
    BY <1>2, SelectionsKept
  <1>4. CASE Parse
    <2>1. m' = m /\ union' = union /\ pc' \in {"union", "syntax error"} /\ pc = "parse"
      BY <1>4 DEF Parse
    <2>2. m = 1 /\ union = <<>>
      BY <1>3, <2>1, Zenon DEF UnionInv
    <2>3. Selections(m - 1, union)
      <3>1. m - 1 = 0
        BY <2>2
      <3> QED
        BY <2>2, <3>1, NoSelection
    <2>4. Selections(m - 1, union)' <=> Selections(m - 1, union)
      BY <1>2, <2>1, SelectionsKept
    <2> QED
      BY <2>1, <2>3, <2>4
  <1>5. CASE Done
    <2>1. pc = "union" /\ pc' = "ok" /\ m = Len(subs) + 1 /\ returned' = union
      BY <1>1, <1>5 DEF Done
    <2>2. Selections(Len(subs), union)
      <3>1. m - 1 = Len(subs)
        BY <1>1, <2>1
      <3>2. Selections(m - 1, union)
        BY <1>3, <2>1 DEF UnionInv
      <3> QED
        BY <3>1, <3>2
    <2>3. Selections(Len(subs), returned)' <=> Selections(Len(subs), union)
      BY <1>2, <2>1, SelectionsKept
    <2> QED
      BY <2>1, <2>2, <2>3
  <1>6. CASE EndRange
    <2>1. /\ pc = "range" /\ k > Len(input) /\ pc' = "union"
          /\ union' = union \o result /\ m' = m + 1
      BY <1>6 DEF EndRange, ReturnResult
    <2>2. m - 1 \in Nat /\ (m - 1) + 1 = m /\ m' - 1 = m /\ m <= Len(subs)
      BY <1>1, <2>1 DEF Inv
    <2>3. union \in Seq(Elements) /\ result \in Seq(Elements)
      BY DEF Inv, TypeOK
    <2>4. Selection(subs[m], result, 0, Len(result))
      <3>1. Reached = Chosen(subs[m])
        BY <2>1, AllReached
      <3>2. 0 + 1 = 1
        OBVIOUS
      <3> QED
        BY <2>1, <3>1, <3>2 DEF SliceInv, Selection
    <2>5. Selections(m - 1, union)
      BY <1>3, <2>1 DEF UnionInv
    <2>6. Selections(m, union \o result)
      <3> DEFINE n == m - 1
      <3>1. n \in Nat /\ n + 1 = m /\ n + 1 <= Len(subs) /\ Selections(n, union)
        BY <2>2, <2>5
      <3> HIDE DEF n
      <3>2. Selections(n + 1, union \o result)
        BY <1>1, <2>3, <2>4, <3>1, NextSelection
      <3> QED
        BY <3>1, <3>2
    <2>7. Selections(m - 1, union)' <=> Selections(m, union \o result)
      BY <1>2, <2>1, <2>2, SelectionsKept
    <2> QED
      BY <2>1, <2>6, <2>7
  <1>7. CASE ZeroSelection
    <2>1. pc = "range" /\ k <= Len(input) /\ value.kind = "list" /\ ZeroElements(params, value.len)
      BY <1>7 DEF ZeroSelection
    <2>2. m \in 1..Len(subs) /\ k \in 1..Len(input)
      BY <1>1, <2>1 DEF Inv, TypeOK
    <2> QED
      BY <1>3, <2>1, <2>2 DEF NothingEmpty, params, value
  <1>8. CASE NotAList \/ OutOfBounds
    BY <1>8 DEF NotAList, OutOfBounds, Fail
  <1>9. CASE \/ NextMember \/ SkipNil \/ Slice \/ Element \/ EndStep
    <2>1. /\ m' = m /\ union' = union /\ pc \in {"union", "range", "step"}
          /\ pc' \in {"union", "range", "step"}
      BY <1>9 DEF NextMember, SkipNil, Slice, Element, EndStep
    <2>2. Selections(m - 1, union)
      BY <1>3, <2>1 DEF UnionInv
    <2>3. Selections(m - 1, union)' <=> Selections(m - 1, union)
      BY <1>2, <2>1, SelectionsKept
    <2> QED
      BY <2>1, <2>2, <2>3
  <1>10. CASE UNCHANGED vars
    <2>1. UNCHANGED <<pc, m, union, returned>>
      BY <1>10 DEF vars
    <2>2. /\ Selections(m - 1, union)' <=> Selections(m - 1, union)
          /\ Selections(Len(subs), returned)' <=> Selections(Len(subs), returned)
      BY <1>2, <2>1, SelectionsKept
    <2> QED
      BY <1>3, <2>1, <2>2 DEF UnionInv
  <1> QED
    BY <1>4, <1>5, <1>6, <1>7, <1>8, <1>9, <1>10 DEF Next

(* Subscripts select exactly what slices select, from every list and in order, *)
(* whatever the int width, the numbers and the lists, when no list is asked    *)
(* for zero elements.                                                          *)
THEOREM SlicesAreExact == Spec => []MatchesSlices
  <1>1. Init => SliceInv /\ UnionInv
    BY DEF Init, SliceInv, UnionInv
  <1>2. UnionInv => MatchesSlices
    BY DEF UnionInv, MatchesSlices
  <1> QED
    BY <1>1, <1>2, SliceStep, UnionStep, Invariance, PTL DEF Spec
================================================================================
