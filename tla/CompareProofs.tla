----------------------------- MODULE CompareProofs -----------------------------
(* Theorems about Compare, for integers of any width and any operands.  Each   *)
(* is a fact about all operands that fit their kinds; that only such operands  *)
(* are compared is the invariant they share.                                   *)
EXTENDS Compare, SequenceTheorems, TLAPS

Fitting == {a \in Arg : Fits(a)}

LEMMA OperandsFit == Spec => [](Compared \subseteq Fitting)
  <1>1. Init => args \in Seq(Operands)
    BY DEF Init
  <1>2. args \in Seq(Operands) /\ [Next]_args => (args \in Seq(Operands))'
    <2> SUFFICES ASSUME args \in Seq(Operands), [Next]_args
                 PROVE  args' \in Seq(Operands)
      OBVIOUS
    <2>1. CASE Next
      <3>1. PICK a \in Operands : args' = Append(args, a)
        BY <2>1 DEF Next
      <3> QED
        BY <3>1, AppendProperties
    <2> QED
      BY <2>1
  <1>3. args \in Seq(Operands) => Compared \subseteq Fitting
    BY CompareAssumption DEF Compared, Fitting
  <1> QED
    BY <1>1, <1>2, <1>3, PTL DEF Spec

LEMMA IsFields ==
  ASSUME NEW b \in BOOLEAN
  PROVE  Is(b) \in [pass : BOOLEAN, err : BOOLEAN] /\ ~Is(b).err /\ Is(b).pass = b
  BY DEF Is

(* The comparisons of numbers of mixed kinds, in terms of the numbers.         *)
LEMMA Signs ==
  ASSUME NEW x \in Int, NEW y \in Int, x < Half, 0 <= y
  PROVE  /\ (x < 0 \/ AsUint(x) < y) <=> x < y
         /\ (x >= 0 /\ y < AsUint(x)) <=> y < x
         /\ (x >= 0 /\ AsUint(x) = y) <=> x = y
         /\ (x >= 0 /\ y = AsUint(x)) <=> y = x
  BY CompareAssumption DEF AsUint

LEMMA IntegerCases ==
  ASSUME NEW a \in Fitting, NEW b \in Fitting, Integer(a), Integer(b)
  PROVE  /\ a.num \in Int /\ b.num \in Int /\ Sound(a, b)
         /\ \/ a.kind = b.kind
            \/ Both(a, b, "int", "uint") /\ a.num < Half /\ 0 <= b.num
            \/ Both(a, b, "uint", "int") /\ b.num < Half /\ 0 <= a.num
  BY DEF Fitting, Arg, Fits, Integer, Both, Sound

LEMMA IntegerLess ==
  ASSUME NEW a \in Fitting, NEW b \in Fitting, Integer(a), Integer(b)
  PROVE  Less(a, b) = Is(a.num < b.num)
  <1>1. CASE a.kind = b.kind
    <2>1. Less(a, b) = Is(Sound(a, b) /\ a.num < b.num)
      BY <1>1 DEF Less, Both, Integer
    <2>2. (Sound(a, b) /\ a.num < b.num) = (a.num < b.num)
      BY IntegerCases
    <2> QED
      BY <2>1, <2>2
  <1>2. CASE Both(a, b, "int", "uint") /\ a.num < Half /\ 0 <= b.num
    <2>1. Less(a, b) = Is(a.num < 0 \/ AsUint(a.num) < b.num)
      BY <1>2 DEF Less, Both
    <2>2. (a.num < 0 \/ AsUint(a.num) < b.num) = (a.num < b.num)
      BY <1>2, IntegerCases, Signs
    <2> QED
      BY <2>1, <2>2
  <1>3. CASE Both(a, b, "uint", "int") /\ b.num < Half /\ 0 <= a.num
    <2>1. Less(a, b) = Is(b.num >= 0 /\ a.num < AsUint(b.num))
      BY <1>3 DEF Less, Both
    <2>2. (b.num >= 0 /\ a.num < AsUint(b.num)) = (a.num < b.num)
      BY <1>3, IntegerCases, Signs
    <2> QED
      BY <2>1, <2>2
  <1> QED
    BY <1>1, <1>2, <1>3, IntegerCases

LEMMA IntegerEqual ==
  ASSUME NEW a \in Fitting, NEW b \in Fitting, Integer(a), Integer(b)
  PROVE  Equal(a, b) = Is(a.num = b.num)
  <1>1. CASE a.kind = b.kind
    <2>1. Equal(a, b) = Is(Sound(a, b) /\ a.num = b.num)
      BY <1>1 DEF Equal, Both, Integer, Kinds
    <2>2. (Sound(a, b) /\ a.num = b.num) = (a.num = b.num)
      BY IntegerCases
    <2> QED
      BY <2>1, <2>2
  <1>2. CASE Both(a, b, "int", "uint") /\ a.num < Half /\ 0 <= b.num
    <2>1. Equal(a, b) = Is(a.num >= 0 /\ AsUint(a.num) = b.num)
      BY <1>2 DEF Equal, Both
    <2>2. (a.num >= 0 /\ AsUint(a.num) = b.num) = (a.num = b.num)
      BY <1>2, IntegerCases, Signs
    <2> QED
      BY <2>1, <2>2
  <1>3. CASE Both(a, b, "uint", "int") /\ b.num < Half /\ 0 <= a.num
    <2>1. Equal(a, b) = Is(b.num >= 0 /\ a.num = AsUint(b.num))
      BY <1>3 DEF Equal, Both
    <2>2. (b.num >= 0 /\ a.num = AsUint(b.num)) = (a.num = b.num)
      BY <1>3, IntegerCases, Signs
    <2> QED
      BY <2>1, <2>2
  <1> QED
    BY <1>1, <1>2, <1>3, IntegerCases

(* What the operators derived from Less and Equal make of two verdicts.        *)
LEMMA Derived ==
  ASSUME NEW a, NEW b, NEW l \in BOOLEAN, NEW e \in BOOLEAN,
         Less(a, b) = Is(l), Equal(a, b) = Is(e)
  PROVE  /\ NotEqual(a, b) = Is(~e)
         /\ LessEqual(a, b) = Is(IF l THEN l ELSE e)
         /\ Greater(a, b) = Is(~(IF l THEN l ELSE e))
         /\ GreaterEqual(a, b) = Is(~l)
  <1>1. NotEqual(a, b) = Is(~e)
    BY DEF NotEqual, Is
  <1>2. LessEqual(a, b) = Is(IF l THEN l ELSE e)
    <2>1. Less(a, b).pass = l /\ Less(a, b).err = FALSE
      BY DEF Is
    <2>2. CASE l = TRUE
      BY <2>1, <2>2 DEF LessEqual
    <2>3. CASE l = FALSE
      BY <2>1, <2>3 DEF LessEqual
    <2> QED
      BY <2>2, <2>3
  <1>3. Greater(a, b) = Is(~(IF l THEN l ELSE e))
    BY <1>2 DEF Greater, Is, Bad
  <1>4. GreaterEqual(a, b) = Is(~l)
    BY DEF GreaterEqual, Is, Bad
  <1> QED
    BY <1>1, <1>2, <1>3, <1>4

LEMMA ExactPair ==
  ASSUME NEW a \in Fitting, NEW b \in Fitting, Integer(a), Integer(b)
  PROVE  Exact(a, b)
  <1> DEFINE l == a.num < b.num
             e == a.num = b.num
  <1>1. a.num \in Int /\ b.num \in Int
    BY IntegerCases
  <1>2. l \in BOOLEAN /\ e \in BOOLEAN
    BY <1>1
  <1>3. Less(a, b) = Is(l) /\ Equal(a, b) = Is(e)
    BY IntegerLess, IntegerEqual
  <1>4. /\ (~e) = (a.num # b.num)
        /\ (IF l THEN l ELSE e) = (a.num <= b.num)
        /\ (~(IF l THEN l ELSE e)) = (a.num > b.num)
        /\ (~l) = (a.num >= b.num)
    BY <1>1
  <1> HIDE DEF l, e
  <1>5. /\ NotEqual(a, b) = Is(~e)
        /\ LessEqual(a, b) = Is(IF l THEN l ELSE e)
        /\ Greater(a, b) = Is(~(IF l THEN l ELSE e))
        /\ GreaterEqual(a, b) = Is(~l)
    BY <1>2, <1>3, Derived
  <1>6. /\ Is(~e) = Is(a.num # b.num)
        /\ Is(IF l THEN l ELSE e) = Is(a.num <= b.num)
        /\ Is(~(IF l THEN l ELSE e)) = Is(a.num > b.num)
        /\ Is(~l) = Is(a.num >= b.num)
    BY <1>4
  <1>7. Less(a, b) = Is(a.num < b.num) /\ Equal(a, b) = Is(a.num = b.num)
    BY IntegerLess, IntegerEqual
  <1> QED
    BY <1>5, <1>6, <1>7 DEF Exact

(* Integers compare by their values whatever their Go types, for every width.  *)
THEOREM Exactness == Spec => []IntegersExact
  <1>1. Compared \subseteq Fitting => IntegersExact
    BY ExactPair DEF IntegersExact
  <1> QED
    BY <1>1, OperandsFit, PTL

(* What Less and Equal say of a pair, by the kinds of the two.                 *)
LEMMA LessCases ==
  ASSUME NEW a \in Fitting, NEW b \in Fitting
  PROVE  /\ Less(a, b) \in [pass : BOOLEAN, err : BOOLEAN]
         /\ Less(a, b).err <=> ~ \/ a.kind = b.kind /\ a.kind \in {"float", "int", "string", "uint"}
                                 \/ Integer(a) /\ Integer(b)
         /\ Less(a, b).pass <=> ~Less(a, b).err /\ Sound(a, b) /\ a.num < b.num
  <1> USE CompareAssumption DEF Fitting, Arg, Kinds, Fits, Integer
  <1>1. a.num \in Int /\ b.num \in Int
    OBVIOUS
  <1>2. CASE Integer(a) /\ Integer(b)
    <2>1. Less(a, b) = Is(a.num < b.num) /\ Sound(a, b)
      BY <1>2, IntegerLess, IntegerCases
    <2>2. (a.num < b.num) \in BOOLEAN
      BY <1>1
    <2> HIDE DEF Fitting, Arg, Kinds, Fits
    <2>3. /\ Less(a, b) \in [pass : BOOLEAN, err : BOOLEAN]
          /\ ~Less(a, b).err /\ Less(a, b).pass = (a.num < b.num)
      BY <2>1, <2>2, IsFields
    <2> QED
      BY <1>2, <2>1, <2>3
  <1>3. CASE ~(Integer(a) /\ Integer(b))
    BY <1>1, <1>3 DEF Less, Both, Sound, Is, Bad
  <1> QED
    BY <1>2, <1>3

LEMMA EqualCases ==
  ASSUME NEW a \in Fitting, NEW b \in Fitting
  PROVE  /\ Equal(a, b) \in [pass : BOOLEAN, err : BOOLEAN]
         /\ Equal(a, b).err <=> ~ \/ a.kind = b.kind /\ a.kind \in Kinds
                                  \/ Integer(a) /\ Integer(b)
         /\ Equal(a, b).pass <=> ~Equal(a, b).err /\ Sound(a, b) /\ a.num = b.num
  <1> USE CompareAssumption DEF Fitting, Arg, Kinds, Fits, Integer
  <1>1. a.num \in Int /\ b.num \in Int
    OBVIOUS
  <1>2. CASE Integer(a) /\ Integer(b)
    <2>1. Equal(a, b) = Is(a.num = b.num) /\ Sound(a, b)
      BY <1>2, IntegerEqual, IntegerCases
    <2>2. (a.num = b.num) \in BOOLEAN
      BY <1>1
    <2> HIDE DEF Fitting, Arg, Kinds, Fits
    <2>3. /\ Equal(a, b) \in [pass : BOOLEAN, err : BOOLEAN]
          /\ ~Equal(a, b).err /\ Equal(a, b).pass = (a.num = b.num)
      BY <2>1, <2>2, IsFields
    <2> QED
      BY <1>2, <2>1, <2>3
  <1>3. CASE ~(Integer(a) /\ Integer(b))
    BY <1>1, <1>3 DEF Equal, Both, Sound, Is, Bad
  <1> QED
    BY <1>2, <1>3

(* When the four orderings and the two equations fail, and what > and >= are.  *)
LEMMA DerivedCases ==
  ASSUME NEW a \in Fitting, NEW b \in Fitting
  PROVE  /\ LessEqual(a, b).err = Less(a, b).err
         /\ Greater(a, b).err = Less(a, b).err
         /\ GreaterEqual(a, b).err = Less(a, b).err
         /\ NotEqual(a, b).err = Equal(a, b).err
         /\ NotEqual(a, b).pass <=> ~Equal(a, b).pass
         /\ Greater(a, b).pass <=> ~Less(a, b).err /\ ~Less(a, b).pass /\ ~Equal(a, b).pass
  <1>1. Less(a, b).err => ~Less(a, b).pass
    BY LessCases
  <1>2. ~Less(a, b).err => ~Equal(a, b).err
    BY LessCases, EqualCases DEF Kinds, Integer
  <1>3. /\ Less(a, b) \in [pass : BOOLEAN, err : BOOLEAN]
        /\ Equal(a, b) \in [pass : BOOLEAN, err : BOOLEAN]
    BY LessCases, EqualCases
  <1> QED
    BY <1>1, <1>2, <1>3 DEF LessEqual, Greater, GreaterEqual, NotEqual, Is, Bad

(* Whether a comparison fails depends on the operands only.                    *)
THEOREM FailuresAlike == Spec => []ErrorsAlike
  <1>1. ASSUME NEW a \in Fitting, NEW b \in Fitting
        PROVE  FailAlike(a, b)
    <2>1. Less(a, b).err = Less(b, a).err /\ Equal(a, b).err = Equal(b, a).err
      BY LessCases, EqualCases DEF Integer
    <2>2. Equal(a, b).err => Less(a, b).err
      BY LessCases, EqualCases DEF Integer, Kinds
    <2>3. \A op \in {"<=", ">", ">="} : Apply(op, a, b).err = Less(a, b).err
      BY DerivedCases DEF Apply
    <2>4. \A op \in Operators : Apply(op, a, b).err = Apply(op, b, a).err
      BY <2>1, DerivedCases DEF Apply, Operators
    <2> QED
      BY <2>2, <2>3, <2>4, DerivedCases DEF FailAlike
  <1>2. Compared \subseteq Fitting => ErrorsAlike
    BY <1>1 DEF ErrorsAlike
  <1> QED
    BY <1>2, OperandsFit, PTL

(* The six operators agree on one order: of two operands that can be ordered   *)
(* exactly one is less, or they are equal, and less is transitive across kinds *)
(* and respects equality.                                                      *)
THEOREM OneOrder == Spec => []TotalOrder
  <1>1. ASSUME NEW a \in Fitting, NEW b \in Fitting, Ordered(a, b)
        PROVE  OneHolds(a, b)
    <2>1. a.num \in Int /\ b.num \in Int /\ Sound(a, b) /\ Sound(b, a)
      BY <1>1 DEF Fitting, Arg, Ordered, Sound
    <2>2. /\ ~Less(a, b).err /\ ~Less(b, a).err
          /\ ~Equal(a, b).err /\ ~Equal(b, a).err
      BY <1>1, LessCases, EqualCases DEF Ordered, Integer, Kinds
    <2>3. /\ Less(a, b).pass <=> a.num < b.num
          /\ Less(b, a).pass <=> b.num < a.num
          /\ Equal(a, b).pass <=> a.num = b.num
          /\ Equal(b, a).pass <=> a.num = b.num
      BY <2>1, <2>2, LessCases, EqualCases
    <2>4. /\ NotEqual(a, b).pass <=> a.num # b.num
          /\ Greater(b, a).pass <=> a.num < b.num
      BY <2>1, <2>2, <2>3, DerivedCases
    <2> QED
      BY <2>1, <2>3, <2>4 DEF OneHolds
  <1>2. ASSUME NEW a \in Fitting, NEW b \in Fitting, NEW c \in Fitting
        PROVE  Transitive(a, b, c)
    <2>1. a.num \in Int /\ b.num \in Int /\ c.num \in Int
      BY DEF Fitting, Arg
    <2>2. ~Less(a, b).err /\ ~Less(b, c).err => ~Less(a, c).err
      BY LessCases DEF Integer
    <2>3. ~Equal(a, b).err /\ ~Less(b, c).err => ~Less(a, c).err
      BY LessCases, EqualCases DEF Integer
    <2>4. ~Equal(a, b).err /\ ~Equal(b, c).err => ~Equal(a, c).err
      BY EqualCases DEF Integer
    <2> QED
      BY <2>1, <2>2, <2>3, <2>4, LessCases, EqualCases DEF Transitive, Sound
  <1>3. Compared \subseteq Fitting => TotalOrder
    BY <1>1, <1>2 DEF TotalOrder
  <1> QED
    BY <1>3, OperandsFit, PTL
================================================================================
