------------------------------ MODULE ParserProofs ------------------------------
(* Theorems about Parser, for any alphabet and any templates.                  *)
EXTENDS Parser, SequenceTheorems, WellFoundedInduction, TLAPS

Str == Seq(Chars)

(* Any set of natural numbers has a least one: what CHOOSE picks exists.       *)
Smaller == {ss \in Nat \X Nat : ss[1] < ss[2]}

LEMMA Least ==
  ASSUME NEW I \in SUBSET Nat, I # {}
  PROVE  \E m \in I : \A k \in I : m <= k
  <1>1. IsWellFoundedOn(Smaller, Nat)
    BY NatLessThanWellFounded DEF OpToRel, Smaller
  <1>2. PICK x \in I : \A y \in I : ~ (<<y, x>> \in Smaller)
    BY <1>1, WFMin
  <1>3. \A k \in I : ~ (k < x)
    <2> TAKE k \in I
    <2>1. <<k, x>> \in Nat \X Nat /\ <<k, x>> \notin Smaller
      BY <1>2
    <2> QED
      BY <2>1 DEF Smaller
  <1> QED
    BY <1>3

LEMMA FirstIs ==
  ASSUME NEW t \in Str, NEW S
  PROVE  /\ FirstOf(t, S) \in 1..(Len(t) + 1)
         /\ FirstOf(t, S) <= Len(t) => t[FirstOf(t, S)] \in S
         /\ \A h \in 1..(FirstOf(t, S) - 1) : t[h] \notin S
  <1> DEFINE I == {i \in 1..(Len(t) + 1) : i <= Len(t) => t[i] \in S}
  <1>1. Len(t) \in Nat
    BY LenProperties DEF Str
  <1>2. Len(t) + 1 \in I /\ I \in SUBSET Nat
    BY <1>1
  <1>3. PICK m \in I : \A k \in I : m <= k
    <2> HIDE DEF I
    <2> QED
      BY <1>2, Least
  <1>4. \A h \in 1..(m - 1) : t[h] \notin S
    BY <1>1, <1>3
  <1> QED
    BY <1>1, <1>3, <1>4 DEF FirstOf

LEMMA LastIs ==
  ASSUME NEW t \in Str, NEW S
  PROVE  LastOf(t, S) \in 0..Len(t)
  <1> DEFINE I == {i \in 0..Len(t) : Len(t) - i > 0 => t[Len(t) - i] \in S}
  <1>1. Len(t) \in Nat
    BY LenProperties DEF Str
  <1>2. Len(t) \in I /\ I \in SUBSET Nat
    BY <1>1
  <1>3. PICK m \in I : \A k \in I : m <= k
    <2> HIDE DEF I
    <2> QED
      BY <1>2, Least
  <1>4. \A h \in (Len(t) - m + 1)..Len(t) : t[h] \notin S
    <2> SUFFICES ASSUME NEW h \in (Len(t) - m + 1)..Len(t), t[h] \in S
                 PROVE  FALSE
      OBVIOUS
    <2>1. Len(t) - h \in 0..Len(t) /\ Len(t) - (Len(t) - h) = h /\ Len(t) - h < m
      BY <1>1, <1>3
    <2>2. Len(t) - h \in I
      BY <2>1
    <2> QED
      BY <1>1, <1>3, <2>1, <2>2
  <1>5. Len(t) - m \in 0..Len(t) /\ (Len(t) - m > 0 => t[Len(t) - m] \in S)
    BY <1>1, <1>3
  <1> QED
    BY <1>4, <1>5 DEF LastOf

(* Parts of a text are texts, no longer, and have no other characters.         *)
LEMMA Part ==
  ASSUME NEW t \in Str, NEW m \in Int, NEW n \in Int, 1 <= m, n <= Len(t)
  PROVE  /\ SubSeq(t, m, n) \in Str
         /\ Len(SubSeq(t, m, n)) = IF m <= n THEN n - m + 1 ELSE 0
         /\ \A x : Has(SubSeq(t, m, n), x) => \E i \in m..n : t[i] = x
         /\ \A i \in 1..(n - m + 1) : SubSeq(t, m, n)[i] = t[m + i - 1]
  <1>1. \A i \in m..n : t[i] \in Chars
    BY LenProperties, ElementOfSeq DEF Str
  <1>2. /\ SubSeq(t, m, n) \in Seq(Chars)
        /\ Len(SubSeq(t, m, n)) = IF m <= n THEN n - m + 1 ELSE 0
        /\ \A i \in 1..(n - m + 1) : SubSeq(t, m, n)[i] = t[m + i - 1]
    BY <1>1, SubSeqProperties
  <1>3. DOMAIN SubSeq(t, m, n) = 1..Len(SubSeq(t, m, n))
    BY <1>2, LenProperties
  <1>4. ASSUME NEW x, Has(SubSeq(t, m, n), x)
        PROVE  \E i \in m..n : t[i] = x
    <2>1. PICK i \in 1..Len(SubSeq(t, m, n)) : SubSeq(t, m, n)[i] = x
      BY <1>3, <1>4 DEF Has
    <2>2. m + i - 1 \in m..n /\ t[m + i - 1] = x
      BY <1>2, <2>1
    <2> QED
      BY <2>2
  <1> QED
    BY <1>2, <1>4 DEF Str

LEMMA PartHas ==
  ASSUME NEW t \in Str, NEW m \in Int, NEW n \in Int, 1 <= m, n <= Len(t),
         NEW x, Has(SubSeq(t, m, n), x)
  PROVE  Has(t, x)
  <1>1. PICK i \in m..n : t[i] = x
    BY Part
  <1>2. i \in DOMAIN t
    BY LenProperties DEF Str
  <1>3. \E j \in DOMAIN t : t[j] = x
    BY <1>1, <1>2
  <1> QED
    BY <1>3 DEF Has

LEMMA BeforeIs ==
  ASSUME NEW t \in Str, NEW x
  PROVE  /\ Before(t, x) \in Str /\ ~Has(Before(t, x), x)
         /\ Len(Before(t, x)) <= Len(t)
         /\ Has(t, x) => Len(Before(t, x)) < Len(t)
  <1> DEFINE f == FirstOf(t, {x})
  <1>1. Len(t) \in Nat /\ DOMAIN t = 1..Len(t)
    BY LenProperties DEF Str
  <1>2. f \in 1..(Len(t) + 1) /\ (\A h \in 1..(f - 1) : t[h] # x)
    BY FirstIs
  <1>3. Has(t, x) => f <= Len(t)
    <2> SUFFICES ASSUME Has(t, x)
                 PROVE  f <= Len(t)
      OBVIOUS
    <2>1. PICK i \in 1..Len(t) : t[i] = x
      BY <1>1 DEF Has
    <2> HIDE DEF f
    <2> QED
      BY <1>1, <1>2, <2>1
  <1>4. /\ SubSeq(t, 1, f - 1) \in Str
        /\ Len(SubSeq(t, 1, f - 1)) = IF 1 <= f - 1 THEN f - 1 - 1 + 1 ELSE 0
        /\ ~Has(SubSeq(t, 1, f - 1), x)
    <2> DEFINE n == f - 1
    <2>1. n \in Int /\ n <= Len(t) /\ 1 \in Int /\ 1 <= 1
      BY <1>1, <1>2
    <2>2. \A h \in 1..n : t[h] # x
      BY <1>2
    <2>3. /\ SubSeq(t, 1, n) \in Str
          /\ Len(SubSeq(t, 1, n)) = IF 1 <= n THEN n - 1 + 1 ELSE 0
          /\ Has(SubSeq(t, 1, n), x) => \E i \in 1..n : t[i] = x
      <3> HIDE DEF n
      <3> QED
        BY <2>1, Part
    <2> QED
      BY <2>2, <2>3
  <1> QED
    BY <1>1, <1>2, <1>3, <1>4 DEF Before

LEMMA AfterIs ==
  ASSUME NEW t \in Str, NEW x, Has(t, x)
  PROVE  After(t, x) \in Str /\ Len(After(t, x)) < Len(t)
  <1> DEFINE f == FirstOf(t, {x})
  <1>1. Len(t) \in Nat /\ DOMAIN t = 1..Len(t)
    BY LenProperties DEF Str
  <1>2. f \in 1..(Len(t) + 1) /\ (\A h \in 1..(f - 1) : t[h] # x)
    BY FirstIs
  <1>3. f <= Len(t)
    BY <1>1, <1>2 DEF Has
  <1>4. /\ SubSeq(t, f + 1, Len(t)) \in Str
        /\ Len(SubSeq(t, f + 1, Len(t))) = IF f + 1 <= Len(t) THEN Len(t) - (f + 1) + 1 ELSE 0
    BY <1>1, <1>2, <1>3, Part
  <1> QED
    BY <1>1, <1>2, <1>3, <1>4 DEF After

LEMMA TrimIs ==
  ASSUME NEW t \in Str
  PROVE  /\ Trim(t) \in Str /\ Len(Trim(t)) <= Len(t)
         /\ \A x : Has(Trim(t), x) => Has(t, x)
  <1> DEFINE f == FirstOf(t, Chars \ {" "})  l == LastOf(t, Chars \ {" "})
  <1>1. Len(t) \in Nat
    BY LenProperties DEF Str
  <1>2. f \in 1..(Len(t) + 1) /\ l \in 0..Len(t)
    BY FirstIs, LastIs
  <1>3. /\ SubSeq(t, f, l) \in Str
        /\ Len(SubSeq(t, f, l)) = IF f <= l THEN l - f + 1 ELSE 0
    <2> HIDE DEF f, l
    <2>1. f \in Int /\ l \in Int /\ 1 <= f /\ l <= Len(t)
      BY <1>1, <1>2
    <2> QED
      BY <2>1, Part
  <1>4. \A x : Has(SubSeq(t, f, l), x) => Has(t, x)
    <2> HIDE DEF f, l
    <2>1. f \in Int /\ l \in Int /\ 1 <= f /\ l <= Len(t)
      BY <1>1, <1>2
    <2> QED
      BY <2>1, PartHas
  <1>5. Trim(t) = SubSeq(t, f, l)
    BY DEF Trim
  <1>6. Len(SubSeq(t, f, l)) <= Len(t)
    <2> HIDE DEF f, l
    <2> QED
      BY <1>1, <1>2, <1>3
  <1> QED
    BY <1>3, <1>4, <1>5, <1>6

(* A text in brackets or braces.                                               *)
LEMMA Enclosed ==
  ASSUME NEW t \in Str, NEW a \in Chars, NEW b \in Chars
  PROVE  LET e == <<a>> \o t \o <<b>>
         IN  /\ e \in Str /\ Len(e) = Len(t) + 2 /\ e[1] = a
             /\ \A x : Has(e, x) => x = a \/ x = b \/ Has(t, x)
  <1>1. <<a>> \in Seq(Chars) /\ <<b>> \in Seq(Chars) /\ t \in Seq(Chars)
        /\ Len(<<a>>) = 1 /\ Len(<<b>>) = 1 /\ <<a>>[1] = a /\ <<b>>[1] = b
    BY DEF Str
  <1> DEFINE d == <<a>> \o t
  <1>2. /\ d \in Seq(Chars) /\ Len(d) = 1 + Len(t) /\ Len(t) \in Nat
        /\ \A i \in 1..(1 + Len(t)) : d[i] = IF i <= 1 THEN <<a>>[i] ELSE t[i - 1]
    BY <1>1, ConcatProperties, LenProperties
  <1>3. /\ d \o <<b>> \in Seq(Chars) /\ Len(d \o <<b>>) = Len(d) + 1
        /\ \A i \in 1..(Len(d) + 1) : (d \o <<b>>)[i] = IF i <= Len(d) THEN d[i] ELSE <<b>>[i - Len(d)]
    <2> HIDE DEF d
    <2> QED
      BY <1>1, <1>2, ConcatProperties
  <1>4. (d \o <<b>>)[1] = a
    BY <1>1, <1>2, <1>3
  <1>5. ASSUME NEW x, Has(d \o <<b>>, x), x # a, x # b
        PROVE  Has(t, x)
    <2>1. DOMAIN (d \o <<b>>) = 1..(Len(t) + 2) /\ DOMAIN t = 1..Len(t)
      BY <1>1, <1>2, <1>3, LenProperties
    <2>2. PICK i \in 1..(Len(t) + 2) : (d \o <<b>>)[i] = x
      BY <1>5, <2>1 DEF Has
    <2>3. i # 1 /\ i # Len(t) + 2
      BY <1>1, <1>2, <1>3, <1>4, <1>5, <2>2
    <2>4. i - 1 \in 1..Len(t) /\ t[i - 1] = x
      BY <1>2, <1>3, <2>2, <2>3
    <2> QED
      BY <2>1, <2>4 DEF Has
  <1>6. d \o <<b>> \in Str /\ Len(d \o <<b>>) = Len(t) + 2
    BY <1>2, <1>3 DEF Str
  <1> QED
    BY <1>4, <1>5, <1>6
--------------------------------------------------------------------------------
(* What every parser at work keeps to.                                         *)
Fields == {"input", "pos", "start", "root", "mode", "pair", "closed", "make", "op", "calls", "got"}

IsSeq(s) == \E S : s \in Seq(S)

(* A text still to be parsed is shorter than its parser's by the brackets; the *)
(* rest of a union may not be while there is a comma in it.                    *)
Pending(f) ==
    IF f.make = "union"
    THEN /\ Has(f.input, ",") /\ Len(f.calls) = 1
         /\ Len(f.calls[1]) + (IF Has(f.calls[1], ",") THEN 3 ELSE 4) <= Len(f.input)
    ELSE \A k \in 1..Len(f.calls) : Len(f.calls[k]) + 4 <= Len(f.input)

Shape(f) ==
    /\ DOMAIN f = Fields
    /\ f.input \in Str /\ f.pos \in Nat /\ f.start \in Nat /\ f.calls \in Seq(Str)
    /\ IsSeq(f.root)
    /\ \A k \in 1..Len(f.root) : "type" \in DOMAIN f.root[k]

Ahead(f) ==
    /\ f.mode \notin {"text", "end"} => f.start >= 1
    /\ f.mode = "quote" => f.pair # Eof
    /\ f.mode = "filter" => f.start >= 4
    /\ f.mode = "calls" /\ f.calls # <<>> => Pending(f)

Good(f) == Shape(f) /\ Frame(f) /\ Ahead(f)

Inv ==
    /\ IsSeq(stack)
    /\ status \in {"parsing", "ok", "error"}
    /\ status = "parsing" <=> stack # <<>>
    /\ \A k \in 1..Len(stack) : Good(stack[k])
    /\ \A k \in 2..Len(stack) : Callee(stack[k]) /\ Len(stack[k].input) > 0
    /\ \A k \in 1..(Len(stack) - 1) : stack[k].mode = "calls"
    /\ Shrinks
--------------------------------------------------------------------------------
(* The stack of parsers.                                                       *)
LEMMA SeqLen ==
  ASSUME NEW q, IsSeq(q)
  PROVE  Len(q) \in Nat /\ DOMAIN q = 1..Len(q) /\ (q # <<>> <=> Len(q) > 0)
  <1>1. PICK S : q \in Seq(S)
    BY DEF IsSeq
  <1> QED
    BY <1>1, LenProperties, EmptySeq

Put(q, n, f) == [q EXCEPT ![n] = f]

LEMMA Replaced ==
  ASSUME NEW q, IsSeq(q), NEW n \in 1..Len(q), NEW f
  PROVE  /\ IsSeq(Put(q, n, f)) /\ Len(Put(q, n, f)) = Len(q) /\ Put(q, n, f)[n] = f
         /\ \A k \in 1..Len(q) : k # n => Put(q, n, f)[k] = q[k]
  <1>1. PICK S : q \in Seq(S)
    BY DEF IsSeq
  <1>2. q \in Seq(S \cup {f}) /\ f \in S \cup {f}
    BY <1>1, SeqMonotonic
  <1> DEFINE t == Put(q, n, f)
  <1>3. /\ t \in Seq(S \cup {f}) /\ Len(t) = Len(q)
        /\ \A k \in 1..Len(q) : t[k] = IF k = n THEN f ELSE q[k]
    BY <1>2, ExceptSeq DEF Put
  <1>4. IsSeq(t)
    BY <1>3 DEF IsSeq
  <1> QED
    BY <1>3, <1>4

LEMMA Pushed ==
  ASSUME NEW q, IsSeq(q), NEW f
  PROVE  LET t == Append(q, f)
         IN  /\ IsSeq(t) /\ Len(t) = Len(q) + 1 /\ t # <<>>
             /\ t[Len(q) + 1] = f
             /\ \A k \in 1..Len(q) : t[k] = q[k]
  <1>1. PICK S : q \in Seq(S)
    BY DEF IsSeq
  <1>2. q \in Seq(S \cup {f}) /\ f \in S \cup {f}
    BY <1>1, SeqMonotonic
  <1> DEFINE t == Append(q, f)
  <1>3. /\ t \in Seq(S \cup {f}) /\ Len(t) = Len(q) + 1 /\ t # <<>>
        /\ t[Len(q) + 1] = f /\ \A k \in 1..Len(q) : t[k] = q[k]
    BY <1>2, AppendProperties
  <1>4. IsSeq(t)
    BY <1>3 DEF IsSeq
  <1> QED
    BY <1>3, <1>4

LEMMA Cut ==
  ASSUME NEW q, IsSeq(q), NEW n \in 0..Len(q)
  PROVE  LET t == SubSeq(q, 1, n)
         IN  /\ IsSeq(t) /\ Len(t) = n
             /\ \A k \in 1..n : t[k] = q[k]
  <1>1. PICK S : q \in Seq(S)
    BY DEF IsSeq
  <1>2. Len(q) \in Nat
    BY SeqLen
  <1>3. \A k \in 1..n : q[k] \in S
    BY <1>1, <1>2, ElementOfSeq
  <1> DEFINE t == SubSeq(q, 1, n)
  <1>4. n \in Int /\ 1 \in Int
    BY <1>2
  <1>5. /\ t \in Seq(S) /\ Len(t) = IF 1 <= n THEN n - 1 + 1 ELSE 0
        /\ \A k \in 1..(n - 1 + 1) : t[k] = q[1 + k - 1]
    BY <1>3, <1>4, SubSeqProperties
  <1>6. IsSeq(t)
    BY <1>5 DEF IsSeq
  <1>7. Len(t) = n /\ \A k \in 1..n : t[k] = q[k]
    <2> HIDE DEF t
    <2> QED
      BY <1>2, <1>5
  <1> QED
    BY <1>6, <1>7

(* The parser at work, and the character it looks at.                          *)
LEMMA Working ==
  ASSUME Inv, status = "parsing"
  PROVE  /\ Len(stack) \in Nat /\ Len(stack) > 0 /\ Good(p) /\ Len(p.input) \in Nat
         /\ c # Eof => p.pos + 1 <= Len(p.input) /\ c = p.input[p.pos + 1]
         /\ Len(stack) > 1 => Callee(p) /\ Len(p.input) > 0
  <1>1. Len(stack) \in Nat /\ Len(stack) > 0
    BY SeqLen DEF Inv
  <1>2. Good(p)
    BY <1>1 DEF Inv, p
  <1>3. Len(p.input) \in Nat /\ p.pos \in Nat
    BY <1>2, LenProperties DEF Good, Shape, Str
  <1>4. c # Eof => p.pos + 1 <= Len(p.input) /\ c = p.input[p.pos + 1]
    BY <1>3 DEF c
  <1>5. Len(stack) > 1 => Callee(p) /\ Len(p.input) > 0
    BY <1>1 DEF Inv, p
  <1> QED
    BY <1>1, <1>2, <1>3, <1>4, <1>5

(* A parser that goes on, as a good parser of the same text, keeps the whole.  *)
LEMMA Continues ==
  ASSUME Inv, status = "parsing", NEW g, Good(g), g.input = p.input,
         Len(stack) > 1 => Callee(g), Continue(g)
  PROVE  Inv'
  <1> DEFINE N == Len(stack)
  <1>1. N \in Nat /\ N > 0 /\ (N > 1 => Len(p.input) > 0)
    BY Working
  <1>2. /\ IsSeq(stack') /\ Len(stack') = N /\ stack'[N] = g
        /\ \A k \in 1..N : k # N => stack'[k] = stack[k]
    <2>1. IsSeq(stack) /\ N \in 1..Len(stack)
      BY <1>1 DEF Inv
    <2>2. stack' = Put(stack, N, g)
      BY DEF Continue, Put
    <2>3. /\ IsSeq(Put(stack, N, g)) /\ Len(Put(stack, N, g)) = Len(stack)
          /\ Put(stack, N, g)[N] = g
          /\ \A k \in 1..Len(stack) : k # N => Put(stack, N, g)[k] = stack[k]
      <3> HIDE DEF N
      <3> QED
        BY <2>1, Replaced
    <2> QED
      BY <2>2, <2>3
  <1>3. stack' # <<>>
    BY <1>1, <1>2, SeqLen
  <1> HIDE DEF N
  <1>4. \A k \in 1..N : Good(stack'[k])
    BY <1>1, <1>2 DEF Inv, N
  <1>5. \A k \in 2..N : Callee(stack'[k]) /\ Len(stack'[k].input) > 0
    BY <1>1, <1>2 DEF Inv, N
  <1>6. \A k \in 1..(N - 1) : stack'[k].mode = "calls"
    BY <1>1, <1>2 DEF Inv, N
  <1>7. \A k \in 1..N : stack'[k].input = stack[k].input
    BY <1>1, <1>2 DEF p, N
  <1>8. \A k \in 1..(N - 1) : Weight(stack'[k + 1].input) < Weight(stack'[k].input)
    <2> TAKE k \in 1..(N - 1)
    <2>1. stack'[k].input = stack[k].input /\ stack'[k + 1].input = stack[k + 1].input
      BY <1>1, <1>7
    <2> QED
      BY <2>1 DEF Inv, Shrinks, N
  <1>9. status' = "parsing"
    BY DEF Continue
  <1> QED
    BY <1>1, <1>2, <1>3, <1>4, <1>5, <1>6, <1>8, <1>9 DEF Inv, Shrinks
--------------------------------------------------------------------------------
(* Steps inside an action.                                                     *)
RootLike(f, g) ==
    /\ IsSeq(g.root) /\ Len(g.root) = Len(f.root)
    /\ \A k \in 1..Len(f.root) : /\ "type" \in DOMAIN g.root[k]
                                 /\ g.root[k].type = f.root[k].type

Inside(f) == f.mode \notin {"text", "end"}

Moved(f, g) ==
    /\ DOMAIN g = Fields /\ g.input = f.input /\ RootLike(f, g)
    /\ g.pos \in Nat /\ g.start \in Nat /\ g.calls \in Seq(Str)
    /\ f.start <= g.start /\ g.start <= g.pos /\ g.pos <= Len(f.input)
    /\ Inside(g)
    /\ g.mode \in {"inside", "calls"} => g.start = g.pos
    /\ g.mode \in {"quote", "array"} => g.start < g.pos
    /\ g.mode = "quote" => g.pair # Eof
    /\ g.mode = "filter" => g.start >= 4
    /\ g.mode = "calls" /\ g.calls # <<>> => Pending(g)

LEMMA Moves ==
  ASSUME NEW f, Good(f), Inside(f), NEW g, Moved(f, g)
  PROVE  Good(g) /\ (Callee(f) => Callee(g))
  <1> USE DEF Inside
  <1>1. Len(f.root) \in Nat /\ Len(f.root) > 0 /\ Len(g.root) = Len(f.root) /\ g.root # <<>>
        /\ f.root # <<>>
    BY SeqLen DEF Good, Frame, Shape, Moved, RootLike
  <1>2. Shape(g)
    BY DEF Good, Shape, Moved, RootLike
  <1>3. g.root[Len(g.root)].type = "list"
    BY <1>1 DEF Good, Frame, Moved, RootLike
  <1>4. Len(f.input) \in Nat /\ f.start \in Nat /\ f.start >= 1
    BY LenProperties DEF Good, Shape, Str, Ahead
  <1>5. Frame(g)
    BY <1>1, <1>3, <1>4 DEF Moved, Frame
  <1>6. Ahead(g)
    BY <1>4 DEF Moved, Ahead
  <1>7. Callee(f) => Callee(g)
    BY <1>1 DEF Callee, Moved, RootLike
  <1> QED
    BY <1>2, <1>5, <1>6, <1>7 DEF Good

LEMMA Goes ==
  ASSUME Inv, status = "parsing", Inside(p), NEW g, Moved(p, g), Continue(g)
  PROVE  Inv'
  <1>1. Good(p) /\ (Len(stack) > 1 => Callee(p))
    BY Working
  <1>2. Good(g) /\ (Callee(p) => Callee(g)) /\ g.input = p.input
    BY <1>1, Moves DEF Moved
  <1> QED
    BY <1>1, <1>2, Continues

LEMMA RootSame ==
  ASSUME NEW f, Shape(f), NEW g, g.root = f.root
  PROVE  RootLike(f, g)
  BY DEF Shape, RootLike

LEMMA AppendToIs ==
  ASSUME NEW f, Shape(f), f.root # <<>>, NEW nodes
  PROVE  LET g == AppendTo(f, nodes)
         IN  /\ DOMAIN g = Fields /\ RootLike(f, g)
             /\ g.input = f.input /\ g.pos = f.pos /\ g.start = f.start /\ g.calls = f.calls
             /\ g.mode = f.mode /\ g.make = f.make
  <1> DEFINE n == Len(f.root)
             e == [f.root[n] EXCEPT !.nodes = @ \o nodes]
             r == [f.root EXCEPT ![n] = e]
             g == [f EXCEPT !.root = r]
  <1>1. n \in 1..n /\ n \in Nat
    BY SeqLen DEF Shape
  <1>2. "type" \in DOMAIN f.root[n]
    BY <1>1 DEF Shape
  <1>3. DOMAIN e = DOMAIN f.root[n] /\ e.type = f.root[n].type
    BY <1>2
  <1>4. IsSeq(r) /\ Len(r) = n /\ r[n] = e /\ \A k \in 1..n : k # n => r[k] = f.root[k]
    <2>1. IsSeq(f.root) /\ n \in 1..Len(f.root)
      BY <1>1 DEF Shape
    <2>2. n = Len(f.root) /\ r = Put(f.root, n, e)
      BY DEF Put
    <2> HIDE DEF e, n, r
    <2> QED
      BY <2>1, <2>2, Replaced
  <1>5. g.root = r /\ DOMAIN g = Fields
        /\ g.input = f.input /\ g.pos = f.pos /\ g.start = f.start /\ g.calls = f.calls
        /\ g.mode = f.mode /\ g.make = f.make
    <2> HIDE DEF r
    <2> QED
      BY DEF Shape, Fields
  <1>6. AppendTo(f, nodes) = g
    BY <1>1 DEF AppendTo, Shape, Fields
  <1>7. RootLike(f, g)
    <2> HIDE DEF r, e, g
    <2> QED
      BY <1>1, <1>2, <1>3, <1>4, <1>5 DEF RootLike, Shape
  <1> QED
    BY <1>5, <1>6, <1>7

LEMMA Scans ==
  ASSUME Inv, status = "parsing", Inside(p), p.mode \notin {"inside", "calls"},
         NEW n \in Nat, p.pos + n <= Len(p.input), Continue(Step(p, n))
  PROVE  Inv'
  <1> DEFINE g == Step(p, n)
  <1>1. Good(p) /\ Len(p.input) \in Nat
    BY Working
  <1>2. /\ DOMAIN g = Fields /\ g.pos = p.pos + n /\ g.input = p.input /\ g.root = p.root
        /\ g.start = p.start /\ g.calls = p.calls /\ g.mode = p.mode /\ g.pair = p.pair
    BY <1>1 DEF Step, Good, Shape, Fields
  <1>3. RootLike(p, g)
    BY <1>1, <1>2, RootSame DEF Good
  <1>4. Moved(p, g)
    <2> HIDE DEF g
    <2> QED
      BY <1>1, <1>2, <1>3 DEF Moved, Good, Shape, Frame, Ahead, Inside
  <1> QED
    BY <1>4, Goes

(* A node or more is appended, and the text of it dropped.                     *)
LEMMA Ends ==
  ASSUME Inv, status = "parsing", Inside(p), NEW n \in 0..1, p.pos + n <= Len(p.input),
         NEW f, f = (IF n = 0 THEN p ELSE Step(p, 1)), NEW nodes,
         Continue(Drop(AppendTo(f, nodes), "inside"))
  PROVE  Inv'
  <1> DEFINE h == AppendTo(f, nodes)  g == Drop(h, "inside")
  <1>1. Good(p) /\ Len(p.input) \in Nat
    BY Working
  <1>2. /\ DOMAIN f = Fields /\ f.pos = p.pos + n /\ f.input = p.input /\ f.root = p.root
        /\ f.start = p.start /\ f.calls = p.calls /\ f.mode = p.mode
    BY <1>1 DEF Step, Good, Shape, Fields
  <1>3. Shape(f) /\ f.root # <<>>
    BY <1>1, <1>2 DEF Good, Shape, Frame, Inside
  <1>4. /\ DOMAIN h = Fields /\ RootLike(f, h)
        /\ h.input = f.input /\ h.pos = f.pos /\ h.start = f.start /\ h.calls = f.calls
    BY <1>3, AppendToIs
  <1>5. /\ DOMAIN g = Fields /\ g.root = h.root /\ g.input = h.input /\ g.pos = h.pos
        /\ g.start = h.pos /\ g.calls = h.calls /\ g.mode = "inside"
    <2> HIDE DEF h
    <2> QED
      BY <1>4 DEF Drop, Fields
  <1>6. RootLike(p, g)
    <2> HIDE DEF h, g
    <2> QED
      BY <1>2, <1>4, <1>5 DEF RootLike
  <1>7. Moved(p, g)
    <2> HIDE DEF h, g
    <2> QED
      BY <1>1, <1>2, <1>4, <1>5, <1>6 DEF Moved, Good, Shape, Frame, Inside
  <1>8. Continue(g)
    OBVIOUS
  <1> HIDE DEF h, g
  <1> QED
    BY <1>7, <1>8, Goes

LEMMA Emits ==
  ASSUME Inv, status = "parsing", Inside(p), NEW nodes, Emit(nodes)
  PROVE  Inv'
  <1>1. p.pos + 0 <= Len(p.input)
    BY Working DEF Good, Frame, Shape
  <1>2. Continue(Drop(AppendTo(p, nodes), "inside"))
    BY DEF Emit
  <1> QED
    BY <1>1, <1>2, Ends
--------------------------------------------------------------------------------
(* The steps that leave an action as they found it or fail.                    *)
LEMMA FailKeeps == Inv /\ Fail => Inv'
  <1> SUFFICES ASSUME Inv, Fail
               PROVE  Inv'
    OBVIOUS
  <1>1. stack' = <<>> /\ status' = "error"
    BY DEF Fail
  <1>2. IsSeq(stack') /\ Len(stack') = 0
    BY <1>1, EmptySeq DEF IsSeq
  <1> QED
    BY <1>1, <1>2 DEF Inv, Shrinks

LEMMA AcceptKeeps == Inv /\ Accept => Inv'
  <1> SUFFICES ASSUME Inv, Accept
               PROVE  Inv'
    OBVIOUS
  <1>1. stack' = <<>> /\ status' = "ok"
    BY DEF Accept
  <1>2. IsSeq(stack') /\ Len(stack') = 0
    BY <1>1, EmptySeq DEF IsSeq
  <1> QED
    BY <1>1, <1>2 DEF Inv, Shrinks

LEMMA ScanSteps ==
  Inv /\ (ScanIdentifier \/ ScanNumber \/ ScanField \/ ScanQuote \/ ScanArray) => Inv'
  <1> SUFFICES ASSUME Inv, ScanIdentifier \/ ScanNumber \/ ScanField \/ ScanQuote \/ ScanArray
               PROVE  Inv'
    OBVIOUS
  <1>1. /\ status = "parsing" /\ Inside(p) /\ p.mode \notin {"inside", "calls"} /\ c # Eof
    BY DEF ScanIdentifier, ScanNumber, ScanField, ScanQuote, ScanArray, At, Inside, Terminators,
           Digits, Eof
  <1>2. p.pos + 1 <= Len(p.input)
    BY <1>1, Working
  <1>3. \E n \in 1..2 : Continue(Step(p, n)) /\ p.pos + n <= Len(p.input)
    <2>1. CASE ScanField
      BY <1>2, <2>1 DEF ScanField
    <2>2. CASE ScanIdentifier \/ ScanNumber \/ ScanQuote \/ ScanArray
      BY <1>2, <2>2 DEF ScanIdentifier, ScanNumber, ScanQuote, ScanArray
    <2> QED
      BY <2>1, <2>2
  <1> QED
    BY <1>1, <1>3, Scans

LEMMA EmitSteps ==
  Inv /\ (EndIdentifier \/ EndNumber \/ EndField \/ EndUnion \/ EndKey \/ EndOperands) => Inv'
  <1> SUFFICES ASSUME Inv, EndIdentifier \/ EndNumber \/ EndField \/ EndUnion \/ EndKey \/ EndOperands
               PROVE  Inv'
    OBVIOUS
  <1>1. status = "parsing" /\ Inside(p)
    BY DEF EndIdentifier, EndNumber, EndField, EndUnion, EndKey, EndOperands, Called, At, Inside
  <1>2. Fail \/ \E nodes : Emit(nodes)
    BY DEF EndIdentifier, EndNumber, EndField, EndUnion, EndKey, EndOperands
  <1> QED
    BY <1>1, <1>2, Emits, FailKeeps

LEMMA QuoteEnds == Inv /\ EndQuote => Inv'
  <1> SUFFICES ASSUME Inv, EndQuote
               PROVE  Inv'
    OBVIOUS
  <1>1. status = "parsing" /\ Inside(p) /\ p.mode = "quote" /\ c = p.pair
    BY DEF EndQuote, At, Inside, Unescaped
  <1>2. CASE Fail
    BY <1>2, FailKeeps
  <1>3. CASE \E nodes : Continue(Drop(AppendTo(Step(p, 1), nodes), "inside"))
    <2>1. PICK nodes : Continue(Drop(AppendTo(Step(p, 1), nodes), "inside"))
      BY <1>3
    <2>2. p.pos + 1 <= Len(p.input)
      BY <1>1, Working DEF Good, Ahead
    <2> QED
      BY <1>1, <2>1, <2>2, Ends
  <1> QED
    BY <1>2, <1>3 DEF EndQuote

(* What begins inside an action.                                               *)
LEMMA Begins ==
  ASSUME Inv, status = "parsing", p.mode = "inside", NEW n \in 0..1, p.pos + n <= Len(p.input),
         NEW g, Continue(g), DOMAIN g = Fields, g.input = p.input, g.root = p.root,
         g.start = p.start, g.calls = p.calls, g.pos = p.pos + n,
         \/ n = 1 /\ g.mode \in {"array", "number"}
         \/ n = 1 /\ g.mode = "quote" /\ g.pair # Eof
         \/ g.mode = "identifier"
  PROVE  Inv'
  <1>1. Good(p) /\ Len(p.input) \in Nat /\ Inside(p)
    BY Working DEF Inside
  <1>2. RootLike(p, g)
    BY <1>1, RootSame DEF Good
  <1>3. Inside(g) /\ g.mode \notin {"inside", "calls", "filter"}
    BY DEF Inside
  <1>4. g.pos \in Nat /\ g.start \in Nat /\ g.calls \in Seq(Str)
        /\ p.start <= g.start /\ g.start <= g.pos /\ g.pos <= Len(p.input)
        /\ (n = 1 => g.start < g.pos)
    BY <1>1 DEF Good, Shape, Frame
  <1>5. Moved(p, g)
    BY <1>2, <1>3, <1>4 DEF Moved
  <1> QED
    BY <1>1, <1>5, Goes

LEMMA BeginSteps ==
  Inv /\ (BeginArray \/ BeginQuote \/ BeginNumber \/ BeginIdentifier) => Inv'
  <1> SUFFICES ASSUME Inv, BeginArray \/ BeginQuote \/ BeginNumber \/ BeginIdentifier
               PROVE  Inv'
    OBVIOUS
  <1>1. status = "parsing" /\ p.mode = "inside"
    BY DEF BeginArray, BeginQuote, BeginNumber, BeginIdentifier, At
  <1>2. DOMAIN p = Fields /\ p.pos \in Nat /\ p.pos <= Len(p.input) /\ Len(p.input) \in Nat
    BY <1>1, Working DEF Good, Shape, Frame
  <1>3. CASE BeginArray
    <2> DEFINE g == [Step(p, 1) EXCEPT !.mode = "array"]
    <2>1. /\ DOMAIN g = Fields /\ g.input = p.input /\ g.root = p.root /\ g.start = p.start
          /\ g.calls = p.calls /\ g.pos = p.pos + 1 /\ g.mode = "array"
      BY <1>2 DEF Step, Fields
    <2>2. p.pos + 1 <= Len(p.input) /\ Continue(g)
      BY <1>1, <1>3, Working DEF BeginArray, Eof
    <2> HIDE DEF g
    <2> QED
      BY <1>1, <2>1, <2>2, Begins
  <1>4. CASE BeginQuote
    <2> DEFINE g == [Step(p, 1) EXCEPT !.mode = "quote", !.pair = c]
    <2>1. /\ DOMAIN g = Fields /\ g.input = p.input /\ g.root = p.root /\ g.start = p.start
          /\ g.calls = p.calls /\ g.pos = p.pos + 1 /\ g.mode = "quote" /\ g.pair = c
      BY <1>2 DEF Step, Fields
    <2>2. c # Eof
      BY <1>4 DEF BeginQuote, Quotes, Eof
    <2>3. p.pos + 1 <= Len(p.input) /\ Continue(g)
      BY <1>1, <1>4, <2>2, Working DEF BeginQuote
    <2> HIDE DEF g
    <2> QED
      BY <1>1, <2>1, <2>2, <2>3, Begins
  <1>5. CASE BeginNumber
    <2> DEFINE g == [Step(p, 1) EXCEPT !.mode = "number"]
    <2>1. /\ DOMAIN g = Fields /\ g.input = p.input /\ g.root = p.root /\ g.start = p.start
          /\ g.calls = p.calls /\ g.pos = p.pos + 1 /\ g.mode = "number"
      BY <1>2 DEF Step, Fields
    <2>2. c # Eof
      BY <1>5 DEF BeginNumber, Signs, Digits, Eof
    <2>3. p.pos + 1 <= Len(p.input) /\ Continue(g)
      BY <1>1, <1>5, <2>2, Working DEF BeginNumber
    <2> HIDE DEF g
    <2> QED
      BY <1>1, <2>1, <2>3, Begins
  <1>6. CASE BeginIdentifier
    <2> DEFINE g == [p EXCEPT !.mode = "identifier"]
    <2>1. /\ DOMAIN g = Fields /\ g.input = p.input /\ g.root = p.root /\ g.start = p.start
          /\ g.calls = p.calls /\ g.pos = p.pos + 0 /\ g.mode = "identifier"
      BY <1>2 DEF Fields
    <2>2. p.pos + 0 <= Len(p.input) /\ Continue(g)
      BY <1>2, <1>6 DEF BeginIdentifier
    <2> HIDE DEF g
    <2> QED
      BY <1>1, <2>1, <2>2, Begins
  <1> QED
    BY <1>3, <1>4, <1>5, <1>6

(* Characters taken, and the text before the cursor dropped.                   *)
LEMMA Drops ==
  ASSUME Inv, status = "parsing", Inside(p), NEW n \in Nat, p.pos + n <= Len(p.input),
         NEW mode \in {"inside", "field"}, Continue(Drop(Step(p, n), mode))
  PROVE  Inv'
  <1> DEFINE g == Drop(Step(p, n), mode)
  <1>1. Good(p) /\ Len(p.input) \in Nat
    BY Working
  <1>2. /\ DOMAIN g = Fields /\ g.pos = p.pos + n /\ g.input = p.input /\ g.root = p.root
        /\ g.start = p.pos + n /\ g.calls = p.calls /\ g.mode = mode
    BY <1>1 DEF Step, Drop, Good, Shape, Fields
  <1>3. RootLike(p, g)
    BY <1>1, <1>2, RootSame DEF Good
  <1>4. Moved(p, g)
    <2> HIDE DEF g
    <2> QED
      BY <1>1, <1>2, <1>3 DEF Moved, Good, Shape, Frame, Ahead, Inside
  <1> QED
    BY <1>4, Goes

LEMMA DropSteps == Inv /\ (Skip \/ BeginField) => Inv'
  <1> SUFFICES ASSUME Inv, Skip \/ BeginField
               PROVE  Inv'
    OBVIOUS
  <1>1. status = "parsing" /\ Inside(p) /\ c # Eof
    BY DEF Skip, BeginField, At, Inside, Eof
  <1>2. p.pos + 1 <= Len(p.input)
    BY <1>1, Working
  <1>3. \E mode \in {"inside", "field"} : Continue(Drop(Step(p, 1), mode))
    BY DEF Skip, BeginField
  <1> QED
    BY <1>1, <1>2, <1>3, Drops

LEMMA RecursiveKeeps == Inv /\ Recursive => Inv'
  <1> SUFFICES ASSUME Inv, Recursive
               PROVE  Inv'
    OBVIOUS
  <1>1. status = "parsing" /\ Inside(p) /\ p.mode = "inside"
    BY DEF Recursive, At, Inside
  <1>2. Good(p) /\ Len(p.input) \in Nat
    BY <1>1, Working
  <1>3. CASE Fail
    BY <1>3, FailKeeps
  <1>4. CASE ~Fail
    <2> DEFINE h == AppendTo(p, <<[type |-> "recursive"]>>)
               Going(mode) == Drop(Step(h, 2), mode)
    <2>1. \E mode \in {"inside", "field"} : Continue(Going(mode))
      BY <1>4 DEF Recursive
    <2>2. PICK mode \in {"inside", "field"} : Continue(Going(mode))
      BY <2>1
    <2> DEFINE g == Going(mode)
    <2>3. Shape(p) /\ p.root # <<>>
      BY <1>1, <1>2 DEF Good, Frame
    <2>4. /\ DOMAIN h = Fields /\ RootLike(p, h)
          /\ h.input = p.input /\ h.pos = p.pos /\ h.calls = p.calls
      BY <2>3, AppendToIs
    <2>5. /\ DOMAIN g = Fields /\ g.root = h.root /\ g.input = h.input /\ g.pos = h.pos + 2
          /\ g.start = h.pos + 2 /\ g.calls = h.calls /\ g.mode = mode
      <3> HIDE DEF h
      <3> QED
        BY <2>4 DEF Drop, Step, Fields
    <2>6. RootLike(p, g)
      <3> HIDE DEF h, g
      <3> QED
        BY <2>4, <2>5 DEF RootLike
    <2>7. p.pos + 2 <= Len(p.input)
      BY DEF Recursive, Descent, HasPrefix
    <2>8. Moved(p, g)
      <3> HIDE DEF h, g, Going
      <3> QED
        BY <1>1, <1>2, <2>4, <2>5, <2>6, <2>7 DEF Moved, Good, Shape, Frame, Inside
    <2>9. Continue(g)
      BY <2>2
    <2> HIDE DEF g
    <2> QED
      BY <1>1, <2>8, <2>9, Goes
  <1> QED
    BY <1>3, <1>4
--------------------------------------------------------------------------------
(* Filters.                                                                    *)
LEMMA Literal ==
  ASSUME NEW s, HasPrefix(s)
  PROVE  p.pos + Len(s) <= Len(p.input) /\ \A i \in DOMAIN s : p.input[p.pos + i] = s[i]
  BY DEF HasPrefix

LEMMA FilterBegins == Inv /\ BeginFilter => Inv'
  <1> SUFFICES ASSUME Inv, BeginFilter
               PROVE  Inv'
    OBVIOUS
  <1> DEFINE g == [Drop(Step(p, 3), "filter") EXCEPT !.pair = Eof, !.closed = FALSE]
  <1>1. status = "parsing" /\ Inside(p) /\ Continue(g)
    BY DEF BeginFilter, At, Inside
  <1>2. Good(p) /\ Len(p.input) \in Nat
    BY <1>1, Working
  <1>3. p.pos + 3 <= Len(p.input)
    BY DEF BeginFilter, Filter, HasPrefix
  <1>4. /\ DOMAIN g = Fields /\ g.pos = p.pos + 3 /\ g.input = p.input /\ g.root = p.root
        /\ g.start = p.pos + 3 /\ g.calls = p.calls /\ g.mode = "filter"
    BY <1>2 DEF Step, Drop, Good, Shape, Fields
  <1>5. RootLike(p, g)
    BY <1>2, <1>4, RootSame DEF Good
  <1>6. Moved(p, g)
    <2> HIDE DEF g
    <2> QED
      BY <1>1, <1>2, <1>3, <1>4, <1>5 DEF Moved, Good, Shape, Frame, Ahead, Inside
  <1> HIDE DEF g
  <1> QED
    BY <1>1, <1>6, Goes

LEMMA FilterScans == Inv /\ ScanFilter => Inv'
  <1> SUFFICES ASSUME Inv, ScanFilter
               PROVE  Inv'
    OBVIOUS
  <1> DEFINE g == [Step(p, 1) EXCEPT !.pair   = IF @ = Eof /\ c \in Quotes THEN c ELSE @,
                                     !.closed = @ \/ Unescaped]
  <1>1. status = "parsing" /\ Inside(p) /\ p.mode = "filter" /\ Continue(g) /\ c # Eof
    BY DEF ScanFilter, At, Inside
  <1>2. Good(p) /\ Len(p.input) \in Nat /\ p.pos + 1 <= Len(p.input)
    BY <1>1, Working
  <1>3. /\ DOMAIN g = Fields /\ g.pos = p.pos + 1 /\ g.input = p.input /\ g.root = p.root
        /\ g.start = p.start /\ g.calls = p.calls /\ g.mode = p.mode
    BY <1>2 DEF Step, Good, Shape, Fields
  <1>4. RootLike(p, g)
    BY <1>2, <1>3, RootSame DEF Good
  <1>5. Moved(p, g)
    <2> HIDE DEF g
    <2> QED
      BY <1>1, <1>2, <1>3, <1>4 DEF Moved, Good, Shape, Frame, Ahead, Inside
  <1> HIDE DEF g
  <1> QED
    BY <1>1, <1>5, Goes

LEMMA FailSteps ==
  Inv /\ (Unclosed \/ Unrecognized \/ FailQuote \/ FailArray \/ FailFilter) => Inv'
  BY FailKeeps DEF Unclosed, Unrecognized, FailQuote, FailArray, FailFilter
--------------------------------------------------------------------------------
(* Text outside actions.                                                       *)
LEMMA TextPasses == Inv /\ PassText => Inv'
  <1> SUFFICES ASSUME Inv, PassText
               PROVE  Inv'
    OBVIOUS
  <1> DEFINE g == Step(p, 1)
  <1>1. status = "parsing" /\ p.mode = "text" /\ Continue(g) /\ c # Eof /\ c # "{"
    BY DEF PassText, At
  <1>2. /\ Good(p) /\ Len(p.input) \in Nat /\ p.pos + 1 <= Len(p.input)
        /\ c = p.input[p.pos + 1] /\ (Len(stack) > 1 => Callee(p))
    BY <1>1, Working
  <1>3. /\ DOMAIN g = Fields /\ g.pos = p.pos + 1 /\ g.input = p.input /\ g.root = p.root
        /\ g.start = p.start /\ g.calls = p.calls /\ g.mode = p.mode
    BY <1>2 DEF Step, Good, Shape, Fields
  <1>4. Callee(p) => Callee(g)
    <2> HIDE DEF g
    <2>1. Callee(p) => p.root # <<>>
      <3> SUFFICES ASSUME Callee(p), p.root = <<>>
                   PROVE  FALSE
        OBVIOUS
      <3>1. p.pos = 0
        BY DEF Callee
      <3>2. p.input[1] = "{"
        BY DEF Callee
      <3>3. c = p.input[0 + 1] /\ 0 + 1 = 1
        BY <1>2, <3>1
      <3> QED
        BY <1>1, <3>2, <3>3
    <2> QED
      BY <1>3, <2>1 DEF Callee
  <1>5. Good(g)
    <2> HIDE DEF g
    <2>1. Shape(g)
      BY <1>2, <1>3 DEF Good, Shape
    <2>2. g.pos \in Nat /\ g.pos <= Len(g.input) /\ g.start \in Nat /\ g.start <= g.pos
      BY <1>2, <1>3 DEF Good, Shape, Frame
    <2>3. g.mode = "text"
      BY <1>1, <1>3
    <2>4. Frame(g)
      BY <2>2, <2>3 DEF Frame
    <2>5. Ahead(g)
      BY <2>3 DEF Ahead
    <2> QED
      BY <2>1, <2>4, <2>5 DEF Good
  <1> HIDE DEF g
  <1> QED
    BY <1>1, <1>2, <1>3, <1>4, <1>5, Continues

LEMMA DelimLeaves == Inv /\ RightDelim => Inv'
  <1> SUFFICES ASSUME Inv, RightDelim
               PROVE  Inv'
    OBVIOUS
  <1> DEFINE g == Drop(Step(p, 1), "text")
  <1>1. status = "parsing" /\ p.mode = "inside" /\ Continue(g) /\ c # Eof
    BY DEF RightDelim, At, Eof
  <1>2. /\ Good(p) /\ Len(p.input) \in Nat /\ p.pos + 1 <= Len(p.input)
        /\ (Len(stack) > 1 => Callee(p))
    BY <1>1, Working
  <1>3. /\ DOMAIN g = Fields /\ g.pos = p.pos + 1 /\ g.input = p.input /\ g.root = p.root
        /\ g.start = p.pos + 1 /\ g.calls = p.calls /\ g.mode = "text"
    BY <1>2 DEF Step, Drop, Good, Shape, Fields
  <1>4. p.root # <<>>
    BY <1>1, <1>2 DEF Good, Frame
  <1>5. Callee(p) => Callee(g)
    <2> HIDE DEF g
    <2> QED
      BY <1>3, <1>4 DEF Callee
  <1>6. Good(g)
    <2> HIDE DEF g
    <2> QED
      BY <1>1, <1>2, <1>3 DEF Good, Shape, Frame, Ahead
  <1> HIDE DEF g
  <1> QED
    BY <1>1, <1>2, <1>3, <1>5, <1>6, Continues

(* The text before the cursor becomes a node, and what was there stays.        *)
Grown(f, g) ==
    /\ DOMAIN g = Fields /\ g.input = f.input /\ g.pos = f.pos /\ g.calls = f.calls
    /\ g.mode = f.mode /\ g.start = f.pos
    /\ IsSeq(g.root) /\ Len(g.root) >= Len(f.root)
    /\ \A k \in 1..Len(f.root) : g.root[k] = f.root[k]
    /\ \A k \in 1..Len(g.root) : "type" \in DOMAIN g.root[k]
    /\ f.pos = f.start => g.root = f.root

LEMMA Appends ==
  ASSUME NEW f, Shape(f), f.start <= f.pos
  PROVE  Grown(f, AppendText(f))
  <1>1. CASE ~(f.pos > f.start)
    <2>1. f.start = f.pos
      BY <1>1 DEF Shape
    <2> QED
      BY <1>1, <2>1 DEF AppendText, Grown, Shape, Fields
  <1>2. CASE f.pos > f.start
    <2> DEFINE e == [type |-> "text", text |-> Consumed]
               r == Append(f.root, e)
               g == [f EXCEPT !.root = r, !.start = f.pos]
    <2>1. /\ IsSeq(r) /\ Len(r) = Len(f.root) + 1 /\ r[Len(f.root) + 1] = e
          /\ \A k \in 1..Len(f.root) : r[k] = f.root[k]
      <3> HIDE DEF e
      <3> QED
        BY Pushed DEF Shape
    <2>2. Len(f.root) \in Nat /\ "type" \in DOMAIN e
      BY SeqLen DEF Shape
    <2>3. /\ DOMAIN g = Fields /\ g.input = f.input /\ g.pos = f.pos /\ g.calls = f.calls
          /\ g.mode = f.mode /\ g.start = f.pos /\ g.root = r
      <3> HIDE DEF r
      <3> QED
        BY DEF Shape, Fields
    <2>4. AppendText(f) = g
      <3> HIDE DEF e
      <3> QED
        BY <1>2 DEF AppendText, Shape, Fields, e
    <2>5. \A k \in 1..Len(r) : "type" \in DOMAIN r[k]
      <3> HIDE DEF e, r
      <3> QED
        BY <2>1, <2>2 DEF Shape
    <2> HIDE DEF e, r, g
    <2>6. f.pos # f.start
      BY <1>2 DEF Shape
    <2>7. Grown(f, g)
      BY <2>1, <2>2, <2>3, <2>5, <2>6 DEF Grown
    <2> QED
      BY <2>4, <2>7
  <1> QED
    BY <1>1, <1>2

LEMMA TextEnds == Inv /\ EndText => Inv'
  <1> SUFFICES ASSUME Inv, EndText
               PROVE  Inv'
    OBVIOUS
  <1> DEFINE h == AppendText(p)  g == [h EXCEPT !.mode = "end"]
  <1>1. status = "parsing" /\ p.mode = "text" /\ Continue(g) /\ c = Eof
    BY DEF EndText, At
  <1>2. /\ Good(p) /\ Len(p.input) \in Nat
        /\ Len(stack) > 1 => Callee(p) /\ Len(p.input) > 0
    BY <1>1, Working
  <1>3. Grown(p, h)
    BY <1>2, Appends DEF Good, Frame
  <1>4. /\ DOMAIN g = Fields /\ g.pos = h.pos /\ g.input = h.input /\ g.root = h.root
        /\ g.start = h.start /\ g.calls = h.calls /\ g.mode = "end"
    <2> HIDE DEF h
    <2> QED
      BY <1>3 DEF Grown, Fields
  <1> HIDE DEF h, g
  <1>5. Len(stack) > 1 => p.root # <<>>
    <2> SUFFICES ASSUME Len(stack) > 1, p.root = <<>>
                 PROVE  FALSE
      OBVIOUS
    <2>1. p.pos = 0
      BY <1>2 DEF Callee
    <2>2. p.input[1] = "{"
      BY <1>2 DEF Callee
    <2>3. c = p.input[0 + 1] /\ 0 + 1 = 1
      BY <1>2, <2>1 DEF c
    <2> QED
      BY <1>1, <2>2, <2>3 DEF Eof
  <1>6. Len(p.root) \in Nat /\ (p.root # <<>> => Len(p.root) > 0)
    BY <1>2, SeqLen DEF Good, Shape
  <1>7. Len(stack) > 1 => Callee(g)
    <2> SUFFICES ASSUME Len(stack) > 1
                 PROVE  Callee(g)
      OBVIOUS
    <2>1. p.root # <<>> /\ Len(p.root) > 0 /\ p.root[1].type = "list"
      BY <1>2, <1>5, <1>6 DEF Callee
    <2>2. g.root[1] = p.root[1] /\ Len(g.root) > 0
      BY <1>3, <1>4, <1>6, <2>1 DEF Grown
    <2>3. g.root # <<>>
      BY <1>3, <1>4, <2>2, SeqLen DEF Grown
    <2> QED
      BY <2>1, <2>2, <2>3 DEF Callee
  <1>8. Good(g)
    BY <1>1, <1>2, <1>3, <1>4 DEF Good, Shape, Frame, Ahead, Grown
  <1>9. g.input = p.input
    BY <1>3, <1>4 DEF Grown
  <1> QED
    BY <1>1, <1>2, <1>7, <1>8, <1>9, Continues

LEMMA DelimEnters == Inv /\ LeftDelim => Inv'
  <1> SUFFICES ASSUME Inv, LeftDelim
               PROVE  Inv'
    OBVIOUS
  <1> DEFINE h == AppendText(p)
             e == [type |-> "list", nodes |-> <<>>]
             r == Append(h.root, e)
             g == Drop(Step([h EXCEPT !.root = Append(@, e)], 1), "inside")
  <1>1. status = "parsing" /\ p.mode = "text" /\ Continue(g) /\ c = "{" /\ c # Eof
    BY DEF LeftDelim, At, Eof
  <1>2. /\ Good(p) /\ Len(p.input) \in Nat /\ p.pos + 1 <= Len(p.input)
        /\ Len(stack) > 1 => Callee(p)
    BY <1>1, Working
  <1>3. Grown(p, h)
    BY <1>2, Appends DEF Good, Frame
  <1>4. /\ DOMAIN g = Fields /\ g.pos = h.pos + 1 /\ g.input = h.input /\ g.root = r
        /\ g.start = h.pos + 1 /\ g.calls = h.calls /\ g.mode = "inside"
    <2> HIDE DEF h, e
    <2> QED
      BY <1>3 DEF Grown, Fields, Drop, Step
  <1>5. /\ IsSeq(r) /\ Len(r) = Len(h.root) + 1 /\ r # <<>> /\ r[Len(h.root) + 1] = e
        /\ \A k \in 1..Len(h.root) : r[k] = h.root[k]
    <2> HIDE DEF h, e
    <2> QED
      BY <1>3, Pushed DEF Grown
  <1>6. e.type = "list" /\ "type" \in DOMAIN e
    OBVIOUS
  <1> HIDE DEF h, g, r, e
  <1>7. Len(h.root) \in Nat /\ Len(p.root) \in Nat /\ (p.root # <<>> => Len(p.root) > 0)
        /\ (Len(h.root) = 0 => h.root = <<>>)
    BY <1>2, <1>3, SeqLen DEF Good, Shape, Grown
  <1>8. Len(stack) > 1 => Callee(g)
    <2> SUFFICES ASSUME Len(stack) > 1
                 PROVE  Callee(g)
      OBVIOUS
    <2>1. CASE p.root = <<>>
      <3>0. p.pos = 0
        BY <1>2, <2>1 DEF Callee
      <3>1. p.pos = p.start
        BY <1>2, <3>0 DEF Good, Frame, Shape
      <3>2. h.root = <<>> /\ Len(h.root) = 0
        BY <1>3, <2>1, <3>1, EmptySeq DEF Grown
      <3>3. r[1] = e
        BY <1>5, <3>2
      <3> QED
        BY <1>4, <1>5, <1>6, <3>3 DEF Callee
    <2>2. CASE p.root # <<>>
      <3>1. p.root[1].type = "list" /\ 1 \in 1..Len(p.root) /\ 1 \in 1..Len(h.root)
        BY <1>2, <1>3, <1>7, <2>2 DEF Callee, Grown
      <3>2. r[1] = p.root[1]
        BY <1>3, <1>5, <3>1 DEF Grown
      <3> QED
        BY <1>4, <1>5, <3>1, <3>2 DEF Callee
    <2> QED
      BY <2>1, <2>2
  <1>9. Good(g)
    <2>1. \A k \in 1..Len(r) : "type" \in DOMAIN r[k]
      BY <1>3, <1>5, <1>6, <1>7 DEF Grown
    <2>2. Shape(g)
      BY <1>2, <1>3, <1>4, <1>5, <2>1 DEF Good, Shape, Grown
    <2>3. r[Len(r)].type = "list"
      BY <1>5, <1>6
    <2>4. Frame(g)
      BY <1>2, <1>3, <1>4, <1>5, <2>3 DEF Good, Shape, Frame, Grown
    <2>5. Ahead(g)
      BY <1>2, <1>3, <1>4 DEF Good, Shape, Ahead, Grown
    <2> QED
      BY <2>2, <2>4, <2>5 DEF Good
  <1>10. g.input = p.input
    BY <1>3, <1>4 DEF Grown
  <1> QED
    BY <1>1, <1>2, <1>8, <1>9, <1>10, Continues
--------------------------------------------------------------------------------
(* What an action calls for.                                                   *)
LEMMA Awaits ==
  ASSUME Inv, status = "parsing", Inside(p), NEW n \in Nat, p.pos + n <= Len(p.input),
         NEW g, Continue(g), DOMAIN g = Fields, g.input = p.input, g.root = p.root,
         g.pos = p.pos + n, g.start = p.pos + n, g.mode = "calls",
         g.calls \in Seq(Str), Pending(g)
  PROVE  Inv'
  <1>1. Good(p) /\ Len(p.input) \in Nat
    BY Working
  <1>2. RootLike(p, g)
    BY <1>1, RootSame DEF Good
  <1>3. Moved(p, g)
    BY <1>1, <1>2 DEF Moved, Good, Shape, Frame, Inside
  <1> QED
    BY <1>3, Goes

LEMMA CallingIs ==
  ASSUME NEW f, DOMAIN f = Fields, NEW make, NEW calls
  PROVE  LET g == Calling(f, make, calls)
         IN  /\ DOMAIN g = Fields /\ g.input = f.input /\ g.root = f.root /\ g.pos = f.pos
             /\ g.start = f.pos /\ g.mode = "calls" /\ g.make = make /\ g.calls = calls
  BY DEF Calling, Drop, Fields

LEMMA BracketsAre ==
  ASSUME Inv, status = "parsing", p.mode = "array", p.pos + 1 <= Len(p.input)
  PROVE  LET t == Brackets
         IN  (Has(t, ",") \/ IsDictKey(t)) =>
                 /\ t \in Str /\ Len(t) + 3 <= Len(p.input)
                 /\ Has(t, ",") => Has(p.input, ",")
  <1> DEFINE t == SubSeq(p.input, p.start + 2, p.pos)
  <1>1. Good(p) /\ Len(p.input) \in Nat
    BY Working
  <1>2. /\ p.input \in Str /\ p.pos \in Nat /\ p.start \in Nat
        /\ p.start >= 1 /\ p.start < p.pos
    BY <1>1 DEF Good, Shape, Frame, Ahead
  <1>3. /\ t \in Str
        /\ Len(t) = IF p.start + 2 <= p.pos THEN p.pos - (p.start + 2) + 1 ELSE 0
    BY <1>1, <1>2, Part
  <1>4. Has(t, ",") => Has(p.input, ",")
    <2> DEFINE m == p.start + 2
    <2>1. m \in Int /\ p.pos \in Int /\ 1 <= m /\ p.pos <= Len(p.input)
      BY <1>1, <1>2
    <2> HIDE DEF m
    <2>2. Has(SubSeq(p.input, m, p.pos), ",") => Has(p.input, ",")
      BY <1>2, <2>1, PartHas
    <2> QED
      BY <2>2 DEF m
  <1> HIDE DEF t
  <1>5. Len(t) + 3 <= Len(p.input)
    BY <1>1, <1>2, <1>3
  <1>6. CASE t = <<"*">>
    <2>1. Brackets = <<":">>
      BY <1>6 DEF Brackets, t
    <2>2. ~Has(<<":">>, ",")
      <3>1. DOMAIN <<":">> = {1} /\ <<":">>[1] # ","
        OBVIOUS
      <3> QED
        BY <3>1 DEF Has
    <2>3. ~IsDictKey(<<":">>)
      BY DEF IsDictKey
    <2> QED
      BY <2>1, <2>2, <2>3
  <1>7. CASE t # <<"*">>
    <2>1. Brackets = t
      BY <1>7 DEF Brackets, t
    <2> QED
      BY <1>3, <1>4, <1>5, <2>1
  <1> QED
    BY <1>6, <1>7

LEMMA KeyIs ==
  ASSUME NEW t \in Str, IsDictKey(t)
  PROVE  Key(t) \in Str /\ Len(Key(t)) = Len(t) - 1
  <1> DEFINE u == SubSeq(t, 2, Len(t) - 1)
  <1>1. Len(t) \in Nat /\ Len(t) >= 2
    BY LenProperties DEF Str, IsDictKey
  <1>2. u \in Str /\ Len(u) = IF 2 <= Len(t) - 1 THEN Len(t) - 1 - 2 + 1 ELSE 0
    BY <1>1, Part
  <1> HIDE DEF u
  <1>3. <<".">> \in Seq(Chars) /\ Len(<<".">>) = 1
    <2>1. "." \in Chars
      BY ParserAssumption
    <2> QED
      BY <2>1
  <1>4. <<".">> \o u \in Seq(Chars) /\ Len(<<".">> \o u) = 1 + Len(u)
    BY <1>2, <1>3, ConcatProperties DEF Str
  <1>5. Key(t) = <<".">> \o u
    BY DEF Key, u
  <1>6. Len(Key(t)) = Len(t) - 1
    BY <1>1, <1>2, <1>4, <1>5
  <1> QED
    BY <1>4, <1>5, <1>6 DEF Str

LEMMA ArrayEnds == Inv /\ EndArray => Inv'
  <1> SUFFICES ASSUME Inv, EndArray
               PROVE  Inv'
    OBVIOUS
  <1> DEFINE t == Brackets  f == Step(p, 1)
  <1>1. status = "parsing" /\ Inside(p) /\ p.mode = "array" /\ c = "]" /\ c # Eof
    BY DEF EndArray, At, Inside, Eof
  <1>2. Good(p) /\ Len(p.input) \in Nat /\ p.pos + 1 <= Len(p.input)
    BY <1>1, Working
  <1>3. (Has(t, ",") \/ IsDictKey(t)) => /\ t \in Str /\ Len(t) + 3 <= Len(p.input)
                                         /\ Has(t, ",") => Has(p.input, ",")
    BY <1>1, <1>2, BracketsAre
  <1>4. DOMAIN f = Fields /\ f.pos = p.pos + 1 /\ f.input = p.input /\ f.root = p.root
    BY <1>2 DEF Step, Good, Shape, Fields
  <1>5. \/ Has(t, ",") /\ Continue(Calling(f, "union", <<t>>))
        \/ ~Has(t, ",") /\ IsDictKey(t) /\ Continue(Calling(f, "key", <<Key(t)>>))
        \/ \E nodes : Continue(Drop(AppendTo(f, nodes), "inside"))
        \/ Fail
    <2> HIDE DEF f
    <2>1. CASE Has(t, ",")
      BY <2>1 DEF EndArray, f
    <2>2. CASE ~Has(t, ",") /\ IsDictKey(t)
      BY <2>2 DEF EndArray, f
    <2>3. CASE ~Has(t, ",") /\ ~IsDictKey(t)
      BY <2>3 DEF EndArray, f
    <2> QED
      BY <2>1, <2>2, <2>3
  <1> HIDE DEF t
  <1>6. CASE Has(t, ",") /\ Continue(Calling(f, "union", <<t>>))
    <2> DEFINE g == Calling(f, "union", <<t>>)
    <2>1. /\ DOMAIN g = Fields /\ g.input = f.input /\ g.root = f.root /\ g.pos = f.pos
          /\ g.start = f.pos /\ g.mode = "calls" /\ g.make = "union" /\ g.calls = <<t>>
      <3> HIDE DEF f
      <3> QED
        BY <1>4, CallingIs
    <2>2. t \in Str /\ Len(t) + 3 <= Len(p.input) /\ Has(p.input, ",")
      <3>1. Has(t, ",")
        BY <1>6
      <3> QED
        BY <1>3, <3>1
    <2>5. <<t>> \in Seq(Str) /\ Len(<<t>>) = 1 /\ <<t>>[1] = t
      <3>1. t \in Str
        BY <2>2
      <3> HIDE DEF g
      <3> QED
        BY <3>1
    <2>3. Continue(g)
      BY <1>6
    <2> HIDE DEF f, g
    <2>4. Pending(g)
      <3>1. Has(t, ",")
        BY <1>6
      <3> QED
        BY <1>4, <2>1, <2>2, <2>5, <3>1 DEF Pending
    <2> QED
      BY <1>1, <1>2, <1>4, <2>1, <2>3, <2>4, <2>5, Awaits
  <1>7. CASE ~Has(t, ",") /\ IsDictKey(t) /\ Continue(Calling(f, "key", <<Key(t)>>))
    <2> DEFINE g == Calling(f, "key", <<Key(t)>>)
    <2>1. /\ DOMAIN g = Fields /\ g.input = f.input /\ g.root = f.root /\ g.pos = f.pos
          /\ g.start = f.pos /\ g.mode = "calls" /\ g.make = "key" /\ g.calls = <<Key(t)>>
      <3> HIDE DEF f
      <3> QED
        BY <1>4, CallingIs
    <2>2. t \in Str /\ Len(t) + 3 <= Len(p.input)
      <3>1. IsDictKey(t)
        BY <1>7
      <3> QED
        BY <1>3, <3>1
    <2>7. Key(t) \in Str /\ Len(Key(t)) = Len(t) - 1 /\ Len(t) \in Nat
      <3>1. IsDictKey(t)
        BY <1>7
      <3> QED
        BY <2>2, <3>1, KeyIs, LenProperties DEF Str
    <2>3. <<Key(t)>> \in Seq(Str) /\ Len(<<Key(t)>>) = 1 /\ <<Key(t)>>[1] = Key(t)
      BY <2>7
    <2>4. Continue(g)
      BY <1>7
    <2> HIDE DEF f, g
    <2>5. Len(Key(t)) + 4 <= Len(g.input)
      BY <1>2, <1>4, <2>1, <2>2, <2>7
    <2>6. Pending(g)
      BY <2>1, <2>3, <2>5 DEF Pending
    <2> QED
      BY <1>1, <1>2, <1>4, <2>1, <2>3, <2>4, <2>6, Awaits
  <1>8. CASE \E nodes : Continue(Drop(AppendTo(f, nodes), "inside"))
    BY <1>1, <1>2, <1>8, Ends
  <1> QED
    BY <1>5, <1>6, <1>7, <1>8, FailKeeps

(* The operands of a comparison are parts of its text.                         *)
LEMMA Operands ==
  ASSUME NEW t \in Str, IsComparison(t)
  PROVE  /\ Left(t) \in Str /\ Right(t) \in Str
         /\ Len(Left(t)) <= Len(t) /\ Len(Right(t)) <= Len(t)
  <1> DEFINE o == OpAt(t)  n == OpLen(t)  rest == SubSeq(t, o, Len(t))
  <1>1. Len(t) \in Nat
    BY LenProperties DEF Str
  <1>2. o \in 1..(Len(t) + 1)
    BY FirstIs DEF OpAt
  <1>3. rest \in Str
    BY <1>1, <1>2, Part
  <1>4. n \in Int
    <2> HIDE DEF rest
    <2>1. FirstOf(rest, Chars \ Comparing) \in 1..(Len(rest) + 1) /\ Len(rest) \in Nat
      BY <1>3, FirstIs, LenProperties DEF Str
    <2> QED
      BY <2>1 DEF OpLen, rest
  <1>5. n > 0
    BY DEF IsComparison
  <1>6. /\ SubSeq(t, 1, o - 1) \in Str
        /\ Len(SubSeq(t, 1, o - 1)) = IF 1 <= o - 1 THEN o - 1 - 1 + 1 ELSE 0
    <2> DEFINE m == o - 1
    <2>1. m \in Int /\ m <= Len(t) /\ 1 \in Int
      BY <1>1, <1>2
    <2> HIDE DEF m
    <2>2. SubSeq(t, 1, m) \in Str /\ Len(SubSeq(t, 1, m)) = IF 1 <= m THEN m - 1 + 1 ELSE 0
      BY <2>1, Part
    <2> QED
      BY <2>2 DEF m
  <1>7. /\ SubSeq(t, o + n, Len(t)) \in Str
        /\ Len(SubSeq(t, o + n, Len(t))) = IF o + n <= Len(t) THEN Len(t) - (o + n) + 1 ELSE 0
    <2> DEFINE m == o + n
    <2>1. m \in Int /\ 1 <= m /\ Len(t) \in Int
      BY <1>1, <1>2, <1>4, <1>5
    <2> HIDE DEF m
    <2>2. /\ SubSeq(t, m, Len(t)) \in Str
          /\ Len(SubSeq(t, m, Len(t))) = IF m <= Len(t) THEN Len(t) - m + 1 ELSE 0
      BY <1>1, <2>1, Part
    <2> QED
      BY <2>2 DEF m
  <1>8. Left(t) = SubSeq(t, 1, o - 1) /\ Right(t) = SubSeq(t, o + n, Len(t))
    BY DEF Left, Right
  <1> HIDE DEF o, n
  <1> QED
    BY <1>1, <1>2, <1>4, <1>5, <1>6, <1>7, <1>8

LEMMA FilterEnds == Inv /\ EndFilter => Inv'
  <1> SUFFICES ASSUME Inv, EndFilter
               PROVE  Inv'
    OBVIOUS
  <1> DEFINE t == SubSeq(p.input, p.start + 1, p.pos)  f == Step(p, 2)
             Proceeds ==
                 /\ p.pos + 2 <= Len(p.input)
                 /\ \E calls, op : /\ \/ IsComparison(t) /\ calls = <<Left(t), Right(t)>>
                                      \/ calls = <<t>>
                                   /\ Continue([Calling(f, "filter", calls) EXCEPT !.op = op])
  <1>1. status = "parsing" /\ Inside(p) /\ p.mode = "filter"
    BY DEF EndFilter, At, Inside
  <1>2. Good(p) /\ Len(p.input) \in Nat
    BY <1>1, Working
  <1>3. /\ p.input \in Str /\ p.pos \in Nat /\ p.start \in Nat
        /\ p.start >= 4 /\ p.start <= p.pos /\ p.pos <= Len(p.input)
    BY <1>1, <1>2 DEF Good, Shape, Frame, Ahead
  <1>4. t \in Str /\ Len(t) = IF p.start + 1 <= p.pos THEN p.pos - (p.start + 1) + 1 ELSE 0
    BY <1>2, <1>3, Part
  <1>5. DOMAIN f = Fields /\ f.pos = p.pos + 2 /\ f.input = p.input /\ f.root = p.root
    BY <1>2 DEF Step, Good, Shape, Fields
  <1>6. Fail \/ Proceeds
    <2>1. CASE ~HasPrefix(<<")", "]">>)
      <3> HIDE DEF f, t, Proceeds
      <3> QED
        BY <2>1 DEF EndFilter
    <2>2. CASE HasPrefix(<<")", "]">>)
      <3>1. p.pos + 2 <= Len(p.input)
        BY <2>2 DEF HasPrefix
      <3>2. CASE IsComparison(t)
        <4>1. Continue([Calling(f, "filter", <<Left(t), Right(t)>>) EXCEPT !.op = Op(t)])
          BY <2>2, <3>2 DEF EndFilter
        <4> HIDE DEF f, t
        <4> QED
          BY <3>1, <3>2, <4>1
      <3>3. CASE ~IsComparison(t)
        <4>1. Continue([Calling(f, "filter", <<t>>) EXCEPT !.op = <<"exists">>])
          BY <2>2, <3>3 DEF EndFilter
        <4> HIDE DEF f, t
        <4> QED
          BY <3>1, <4>1
      <3> QED
        BY <3>2, <3>3
    <2> QED
      BY <2>1, <2>2
  <1> HIDE DEF f, t
  <1>7. CASE Proceeds
    <2>1. p.pos + 2 <= Len(p.input)
      BY <1>7
    <2>2. PICK calls, op : /\ \/ IsComparison(t) /\ calls = <<Left(t), Right(t)>>
                              \/ calls = <<t>>
                           /\ Continue([Calling(f, "filter", calls) EXCEPT !.op = op])
      BY <1>7
    <2> DEFINE h == Calling(f, "filter", calls)  g == [h EXCEPT !.op = op]
    <2>3. /\ DOMAIN h = Fields /\ h.input = f.input /\ h.root = f.root /\ h.pos = f.pos
          /\ h.start = f.pos /\ h.mode = "calls" /\ h.make = "filter" /\ h.calls = calls
      BY <1>5, CallingIs
    <2>4. /\ DOMAIN g = Fields /\ g.input = f.input /\ g.root = f.root /\ g.pos = f.pos
          /\ g.start = f.pos /\ g.mode = "calls" /\ g.make = "filter" /\ g.calls = calls
      <3> HIDE DEF h
      <3> QED
        BY <2>3 DEF Fields
    <2>5. Len(t) + 4 <= Len(p.input) /\ Len(t) \in Nat
      BY <1>2, <1>3, <1>4, <2>1
    <2>6. /\ calls \in Seq(Str) /\ Len(calls) \in 1..2
          /\ \A k \in 1..Len(calls) : Len(calls[k]) + 4 <= Len(p.input)
      <3>1. CASE IsComparison(t) /\ calls = <<Left(t), Right(t)>>
        <4>1. /\ Left(t) \in Str /\ Right(t) \in Str
              /\ Len(Left(t)) <= Len(t) /\ Len(Right(t)) <= Len(t)
              /\ Len(Left(t)) \in Nat /\ Len(Right(t)) \in Nat
          BY <1>4, <3>1, Operands, LenProperties DEF Str
        <4>2. Len(Left(t)) + 4 <= Len(p.input) /\ Len(Right(t)) + 4 <= Len(p.input)
          BY <1>2, <2>5, <4>1
        <4> QED
          BY <3>1, <4>1, <4>2
      <3>2. CASE calls = <<t>>
        BY <1>4, <2>5, <3>2
      <3> QED
        BY <2>2, <3>1, <3>2
    <2>7. Continue(g)
      BY <2>2
    <2> HIDE DEF g, h
    <2>8. Pending(g)
      BY <1>5, <2>4, <2>6 DEF Pending
    <2> QED
      BY <1>1, <1>5, <2>1, <2>4, <2>6, <2>7, <2>8, Awaits
  <1> HIDE DEF Proceeds
  <1> QED
    BY <1>6, <1>7, FailKeeps
--------------------------------------------------------------------------------
(* Calls and returns.                                                          *)
LEMMA ActionIs ==
  ASSUME NEW t \in Str
  PROVE  /\ Action(t) \in Str /\ Len(Action(t)) = Len(t) + 2 /\ Action(t)[1] = "{"
         /\ Has(Action(t), ",") => Has(t, ",")
  <1>1. "{" \in Chars /\ "}" \in Chars
    BY ParserAssumption
  <1> DEFINE e == <<"{">> \o t \o <<"}">>
  <1>2. Action(t) = e
    BY DEF Action
  <1>3. /\ e \in Str /\ Len(e) = Len(t) + 2 /\ e[1] = "{"
        /\ \A x : Has(e, x) => x = "{" \/ x = "}" \/ Has(t, x)
    BY <1>1, Enclosed
  <1> HIDE DEF e
  <1>4. Has(e, ",") => Has(t, ",")
    BY <1>3
  <1> QED
    BY <1>2, <1>3, <1>4

LEMMA MemberIs ==
  ASSUME NEW t \in Str
  PROVE  /\ Member(t) \in Str /\ Len(Member(t)) <= Len(t) + 2
         /\ Has(Member(t), ",") => Has(t, ",")
  <1>1. "[" \in Chars /\ "]" \in Chars
    BY ParserAssumption
  <1> DEFINE u == Trim(t)
  <1>2. u \in Str /\ Len(u) <= Len(t) /\ (Has(u, ",") => Has(t, ","))
    BY TrimIs
  <1> DEFINE e == <<"[">> \o u \o <<"]">>
  <1>3. Member(t) = e
    BY DEF Member
  <1> HIDE DEF u
  <1>4. /\ e \in Str /\ Len(e) = Len(u) + 2
        /\ \A x : Has(e, x) => x = "[" \/ x = "]" \/ Has(u, x)
    BY <1>1, <1>2, Enclosed
  <1> HIDE DEF e
  <1>5. Has(e, ",") => Has(t, ",")
    BY <1>2, <1>4
  <1>6. Len(t) \in Nat /\ Len(u) \in Nat
    BY <1>2, LenProperties DEF Str
  <1>7. Len(e) <= Len(t) + 2
    <2>1. Len(e) = Len(u) + 2
      BY <1>4
    <2>2. Len(u) <= Len(t)
      BY <1>2
    <2> QED
      BY <1>6, <2>1, <2>2
  <1> QED
    BY <1>3, <1>4, <1>5, <1>7

(* The text of a call weighs less than its caller's, and what remains to be    *)
(* called for still does.                                                      *)
LEMMA CallShrinks ==
  ASSUME NEW f, Shape(f), f.calls # <<>>, Pending(f)
  PROVE  /\ NextText(f) \in Str
         /\ Weight(Action(NextText(f))) < Weight(f.input)
         /\ Others(f) \in Seq(Str)
         /\ Others(f) # <<>> => Pending([f EXCEPT !.calls = Others(f)])
  <1> DEFINE u == f.calls[1]
             g == [f EXCEPT !.calls = Others(f)]
  <1>1. /\ f.calls \in Seq(Str) /\ f.input \in Str /\ DOMAIN f = Fields
        /\ Len(f.calls) \in Nat /\ Len(f.calls) > 0 /\ Len(f.input) \in Nat
    BY LenProperties, EmptySeq DEF Shape, Str
  <1>2. u \in Str /\ Len(u) \in Nat
    <2>1. u \in Str
      BY <1>1, ElementOfSeq
    <2> QED
      BY <2>1, LenProperties DEF Str
  <1>3. g.calls = Others(f) /\ g.make = f.make /\ g.input = f.input
    <2> DEFINE o == Others(f)
    <2> HIDE DEF o
    <2>1. LET h == [f EXCEPT !.calls = o]
          IN  h.calls = o /\ h.make = f.make /\ h.input = f.input
      BY <1>1 DEF Fields
    <2> QED
      BY <2>1 DEF o
  <1> HIDE DEF g
  <1>4. CASE f.make = "union"
    <2> DEFINE b == Before(u, ",")
    <2>1. /\ b \in Str /\ ~Has(b, ",") /\ Len(b) <= Len(u) /\ (Has(u, ",") => Len(b) < Len(u))
      BY <1>2, BeforeIs
    <2>2. /\ Has(f.input, ",")
          /\ Len(u) + (IF Has(u, ",") THEN 3 ELSE 4) <= Len(f.input)
      BY <1>4 DEF Pending
    <2>3. NextText(f) = Member(b)
      BY <1>4 DEF NextText
    <2> HIDE DEF b, u
    <2>4. Member(b) \in Str /\ Len(Member(b)) <= Len(b) + 2 /\ ~Has(Member(b), ",")
      BY <2>1, MemberIs
    <2>5. Len(b) \in Nat /\ Len(Member(b)) \in Nat
      BY <2>1, <2>4, LenProperties DEF Str
    <2> DEFINE m == Member(b)  a == Action(m)
    <2>6. Len(a) = Len(m) + 2 /\ ~Has(a, ",")
      BY <2>4, ActionIs
    <2> HIDE DEF m, a
    <2>7. Len(b) + 4 <= Len(f.input)
      <3>1. CASE Has(u, ",")
        <4>1. Len(u) + 3 <= Len(f.input) /\ Len(b) < Len(u)
          BY <2>1, <2>2, <3>1
        <4> QED
          BY <1>1, <1>2, <2>5, <4>1
      <3>2. CASE ~Has(u, ",")
        <4>1. Len(u) + 4 <= Len(f.input) /\ Len(b) <= Len(u)
          BY <2>1, <2>2, <3>2
        <4> QED
          BY <1>1, <1>2, <2>5, <4>1
      <3> QED
        BY <3>1, <3>2
    <2>8. Weight(a) < Weight(f.input)
      <3>1. Len(m) <= Len(b) + 2 /\ Len(m) \in Nat
        BY <2>4, <2>5 DEF m
      <3>2. Weight(a) = Len(a) + 0 /\ Weight(f.input) = Len(f.input) + 1
        BY <2>2, <2>6 DEF Weight
      <3>3. Len(a) + 0 < Len(f.input) + 1
        <4>1. Len(a) = Len(m) + 2
          BY <2>6
        <4>2. Len(f.input) \in Nat /\ Len(b) \in Nat
          BY <1>1, <2>5
        <4> QED
          BY <2>7, <3>1, <4>1, <4>2
      <3> QED
        BY <3>2, <3>3
    <2>9. Others(f) = IF Has(u, ",") THEN <<After(u, ",")>> ELSE <<>>
      BY <1>4 DEF Others, u
    <2>10. CASE Has(u, ",")
      <3> DEFINE r == After(u, ",")
      <3>1. r \in Str /\ Len(r) < Len(u)
        BY <1>2, <2>10, AfterIs
      <3>2. Others(f) = <<r>>
        BY <2>9, <2>10
      <3> HIDE DEF r
      <3>3. <<r>> \in Seq(Str) /\ Len(<<r>>) = 1 /\ <<r>>[1] = r
        BY <3>1
      <3>4. Len(r) \in Nat /\ Len(r) + 4 <= Len(f.input)
        <4>1. Len(r) \in Nat
          BY <3>1, LenProperties DEF Str
        <4>2. Len(u) + 3 <= Len(f.input)
          BY <2>2, <2>10
        <4> QED
          BY <1>1, <1>2, <3>1, <4>1, <4>2
      <3>5. Len(r) + (IF Has(r, ",") THEN 3 ELSE 4) <= Len(f.input)
        <4>1. Len(r) + 3 <= Len(f.input) /\ Len(r) + 4 <= Len(f.input)
          BY <1>1, <3>4
        <4> QED
          BY <4>1
      <3>6. Pending(g)
        BY <1>3, <1>4, <2>2, <3>2, <3>3, <3>5 DEF Pending
      <3> QED
        BY <2>3, <2>4, <2>8, <3>2, <3>3, <3>6 DEF a, m, g
    <2>11. CASE ~Has(u, ",")
      <3>1. Others(f) = <<>> /\ <<>> \in Seq(Str)
        BY <2>9, <2>11, EmptySeq
      <3> QED
        BY <2>3, <2>4, <2>8, <3>1 DEF a, m
    <2> QED
      BY <2>10, <2>11
  <1>5. CASE f.make # "union"
    <2>1. \A k \in 1..Len(f.calls) : Len(f.calls[k]) + 4 <= Len(f.input)
      BY <1>5 DEF Pending
    <2>2. NextText(f) = u /\ Others(f) = Tail(f.calls)
      BY <1>5 DEF NextText, Others
    <2>3. Len(u) + 4 <= Len(f.input)
      BY <1>1, <2>1
    <2> HIDE DEF u
    <2> DEFINE a == Action(u)
    <2>4. Len(a) = Len(u) + 2
      BY <1>2, ActionIs
    <2> HIDE DEF a
    <2>5. Weight(a) < Weight(f.input)
      <3>1. Weight(a) = Len(a) + 1 \/ Weight(a) = Len(a) + 0
        BY Zenon DEF Weight
      <3>2. Weight(f.input) = Len(f.input) + 1 \/ Weight(f.input) = Len(f.input) + 0
        BY Zenon DEF Weight
      <3>3. Len(f.input) \in Nat /\ Len(u) \in Nat
        BY <1>1, <1>2
      <3> QED
        BY <2>3, <2>4, <3>1, <3>2, <3>3
    <2> DEFINE r == Tail(f.calls)
    <2>6. /\ r \in Seq(Str) /\ Len(r) = Len(f.calls) - 1
          /\ \A k \in 1..Len(r) : r[k] = f.calls[k + 1]
      BY <1>1, HeadTailProperties
    <2> HIDE DEF r
    <2>7. \A k \in 1..Len(r) : Len(r[k]) + 4 <= Len(f.input)
      BY <1>1, <2>1, <2>6
    <2>8. Pending(g)
      BY <1>3, <1>5, <2>2, <2>7 DEF Pending, r
    <2> QED
      BY <1>2, <2>2, <2>5, <2>6, <2>8 DEF a, r, g
  <1> QED
    BY <1>4, <1>5

LEMMA CallKeeps == Inv /\ Call => Inv'
  <1> SUFFICES ASSUME Inv, Call
               PROVE  Inv'
    OBVIOUS
  <1> DEFINE N == Len(stack)
             g == [p EXCEPT !.calls = Others(p)]
             h == NewParser(Action(NextText(p)))
  <1>1. /\ status = "parsing" /\ p.mode = "calls" /\ p.calls # <<>> /\ Inside(p)
        /\ status' = status
    BY DEF Call, At, Inside
  <1>2. Good(p) /\ N \in Nat /\ N > 0 /\ (N > 1 => Callee(p) /\ Len(p.input) > 0)
    BY <1>1, Working
  <1>3. /\ NextText(p) \in Str
        /\ Weight(Action(NextText(p))) < Weight(p.input)
        /\ Others(p) \in Seq(Str)
        /\ Others(p) # <<>> => Pending(g)
    BY <1>1, <1>2, CallShrinks DEF Good, Ahead
  <1>4. /\ DOMAIN g = Fields /\ g.pos = p.pos /\ g.start = p.start /\ g.input = p.input
        /\ g.root = p.root /\ g.mode = p.mode /\ g.calls = Others(p)
    <2> DEFINE o == Others(p)
    <2> HIDE DEF o
    <2>1. LET e == [p EXCEPT !.calls = o]
          IN  /\ DOMAIN e = Fields /\ e.pos = p.pos /\ e.start = p.start /\ e.input = p.input
              /\ e.root = p.root /\ e.mode = p.mode /\ e.calls = o
      BY <1>2 DEF Good, Shape, Fields
    <2> QED
      BY <2>1 DEF o
  <1>5. /\ IsSeq(stack') /\ Len(stack') = N + 1 /\ stack'[N + 1] = h /\ stack'[N] = g
        /\ \A k \in 1..N : k # N => stack'[k] = stack[k]
    <2> DEFINE q == Put(stack, N, g)
    <2>1. stack' = Append(q, h)
      BY DEF Call, Put, p
    <2>2. IsSeq(q) /\ Len(q) = N /\ q[N] = g /\ \A k \in 1..N : k # N => q[k] = stack[k]
      <3>1. IsSeq(stack) /\ N \in 1..Len(stack)
        BY <1>2 DEF Inv
      <3>2. /\ IsSeq(q) /\ Len(q) = Len(stack) /\ q[N] = g
            /\ \A k \in 1..Len(stack) : k # N => q[k] = stack[k]
        <4> HIDE DEF g, N
        <4> QED
          BY <3>1, Replaced
      <3> HIDE DEF g, q
      <3> QED
        BY <3>2
    <2> HIDE DEF q, g, h
    <2>3. LET t == Append(q, h)
          IN  /\ IsSeq(t) /\ Len(t) = N + 1 /\ t[N + 1] = h
              /\ \A k \in 1..N : t[k] = q[k]
      BY <2>2, Pushed
    <2> QED
      BY <1>2, <2>1, <2>2, <2>3
  <1> HIDE DEF g
  <1>6. Good(g) /\ (Callee(p) => Callee(g))
    <2>1. RootLike(p, g)
      BY <1>2, <1>4, RootSame DEF Good
    <2>2. Len(p.input) \in Nat
      BY <1>2, LenProperties DEF Good, Shape, Str
    <2>3. Moved(p, g)
      BY <1>1, <1>2, <1>3, <1>4, <2>1, <2>2 DEF Moved, Good, Shape, Frame, Inside
    <2> QED
      BY <1>1, <1>2, <2>3, Moves
  <1> DEFINE a == Action(NextText(p))
  <1>7. a \in Str /\ Len(a) > 0 /\ a[1] = "{" /\ Len(a) \in Nat
    <2>1. a \in Str /\ Len(a) = Len(NextText(p)) + 2 /\ a[1] = "{"
      BY <1>3, ActionIs
    <2>2. Len(NextText(p)) \in Nat
      BY <1>3, LenProperties DEF Str
    <2> HIDE DEF a
    <2>3. Len(a) > 0 /\ Len(a) \in Nat
      <3>1. Len(a) = Len(NextText(p)) + 2
        BY <2>1
      <3> QED
        BY <2>2, <3>1
    <2> QED
      BY <2>1, <2>3
  <1>8. Good(h) /\ Callee(h) /\ h.input = a
    <2> HIDE DEF a
    <2>1. h = NewParser(a)
      BY DEF a
    <2>2. /\ DOMAIN h = Fields /\ h.input = a /\ h.pos = 0 /\ h.start = 0 /\ h.root = <<>>
          /\ h.mode = "text" /\ h.calls = <<>>
      BY <2>1 DEF NewParser, Fields
    <2> HIDE DEF h
    <2>3. IsSeq(h.root) /\ Len(h.root) = 0 /\ h.calls \in Seq(Str)
      BY <2>2, EmptySeq DEF IsSeq
    <2>4. Shape(h)
      <3>1. h.input \in Str
        BY <1>7, <2>2
      <3> QED
        BY <2>2, <2>3, <3>1 DEF Shape
    <2>5. Frame(h)
      <3>1. Len(h.input) \in Nat
        BY <1>7, <2>2
      <3> QED
        BY <2>2, <3>1 DEF Frame
    <2>6. Ahead(h)
      BY <2>2 DEF Ahead
    <2>7. Callee(h)
      BY <1>7, <2>2 DEF Callee
    <2> QED
      BY <2>2, <2>4, <2>5, <2>6, <2>7 DEF Good
  <1> HIDE DEF a, h, N
  <1>9. Weight(h.input) < Weight(g.input)
    BY <1>3, <1>4, <1>8 DEF a
  <1>10. \A k \in 1..(N + 1) : Good(stack'[k])
    BY <1>2, <1>5, <1>6, <1>8 DEF Inv, N
  <1>11. \A k \in 2..(N + 1) : Callee(stack'[k]) /\ Len(stack'[k].input) > 0
    <2> SUFFICES ASSUME NEW k \in 2..(N + 1)
                 PROVE  Callee(stack'[k]) /\ Len(stack'[k].input) > 0
      OBVIOUS
    <2>1. CASE k = N + 1
      BY <1>5, <1>7, <1>8, <2>1
    <2>2. CASE k = N
      BY <1>2, <1>4, <1>5, <1>6, <2>2
    <2>3. CASE k < N
      BY <1>2, <1>5, <2>3 DEF Inv, N
    <2> QED
      BY <1>2, <2>1, <2>2, <2>3
  <1>12. \A k \in 1..N : stack'[k].mode = "calls"
    BY <1>1, <1>2, <1>4, <1>5 DEF Inv, N
  <1>13. \A k \in 1..N : Weight(stack'[k + 1].input) < Weight(stack'[k].input)
    <2> SUFFICES ASSUME NEW k \in 1..N
                 PROVE  Weight(stack'[k + 1].input) < Weight(stack'[k].input)
      OBVIOUS
    <2>1. CASE k = N
      BY <1>5, <1>9, <2>1
    <2>2. CASE k # N
      <3>1. k \in 1..(N - 1) /\ k + 1 \in 1..N /\ stack[N] = p
        BY <1>2, <2>2 DEF p, N
      <3>2. stack'[k].input = stack[k].input /\ stack'[k + 1].input = stack[k + 1].input
        BY <1>2, <1>4, <1>5, <2>2, <3>1
      <3> QED
        BY <3>1, <3>2 DEF Inv, Shrinks, N
    <2> QED
      BY <2>1, <2>2
  <1>14. stack' # <<>> /\ Len(stack') - 1 = N
    BY <1>2, <1>5, SeqLen
  <1> QED
    BY <1>1, <1>2, <1>5, <1>10, <1>11, <1>12, <1>13, <1>14 DEF Inv, Shrinks

LEMMA ReturnKeeps == Inv /\ Return => Inv'
  <1> SUFFICES ASSUME Inv, Return
               PROVE  Inv'
    OBVIOUS
  <1> DEFINE N == Len(stack)  M == N - 1  M2 == N - 2
             f == stack[M]
             g == [f EXCEPT !.got = Append(@, p.root[1].nodes)]
  <1>1. status = "parsing" /\ status' = status /\ N > 1 /\ N \in Nat
    BY SeqLen DEF Return, At, Inv
  <1>2. M \in 1..N /\ M \in Nat /\ M2 \in 0..N /\ M = M2 + 1 /\ M \in 1..(N - 1) /\ N \in 2..N
    BY <1>1
  <1>3. Good(f) /\ f.mode = "calls" /\ Inside(f)
    BY <1>2 DEF Inv, Inside
  <1>4. M >= 2 => Callee(f) /\ Len(f.input) > 0
    BY <1>2 DEF Inv
  <1>5. /\ DOMAIN g = Fields /\ g.pos = f.pos /\ g.start = f.start /\ g.input = f.input
        /\ g.root = f.root /\ g.mode = f.mode /\ g.calls = f.calls /\ g.make = f.make
    <2> HIDE DEF f
    <2> QED
      BY <1>3 DEF Good, Shape, Fields
  <1>6. /\ IsSeq(stack') /\ Len(stack') = M /\ stack'[M] = g
        /\ \A k \in 1..M2 : stack'[k] = stack[k]
    <2> DEFINE q == SubSeq(stack, 1, M2)
    <2>1. stack' = Append(q, g)
      BY DEF Return
    <2>2. IsSeq(q) /\ Len(q) = M2 /\ \A k \in 1..M2 : q[k] = stack[k]
      <3>1. IsSeq(stack) /\ M2 \in 0..Len(stack)
        BY <1>2 DEF Inv
      <3> HIDE DEF M2
      <3> QED
        BY <3>1, Cut
    <2> HIDE DEF q, g
    <2>3. LET t == Append(q, g)
          IN  /\ IsSeq(t) /\ Len(t) = Len(q) + 1 /\ t[Len(q) + 1] = g
              /\ \A k \in 1..Len(q) : t[k] = q[k]
      BY <2>2, Pushed
    <2> HIDE DEF M, M2
    <2> QED
      BY <1>2, <2>1, <2>2, <2>3
  <1> HIDE DEF g, f
  <1>7. Good(g) /\ (Callee(f) => Callee(g))
    <2>1. RootLike(f, g)
      BY <1>3, <1>5, RootSame DEF Good
    <2>2. Len(f.input) \in Nat
      BY <1>3, LenProperties DEF Good, Shape, Str
    <2>3. Pending(f) => Pending(g)
      BY <1>5 DEF Pending
    <2>4. Moved(f, g)
      BY <1>3, <1>5, <2>1, <2>2, <2>3 DEF Moved, Good, Shape, Frame, Ahead, Inside
    <2> QED
      BY <1>3, <2>4, Moves
  <1>8. \A k \in 1..M : stack'[k] = IF k = M THEN g ELSE stack[k]
    <2> HIDE DEF M, M2
    <2> QED
      BY <1>2, <1>6
  <1>9. \A k \in 1..M : stack'[k].input = stack[k].input
    BY <1>5, <1>8 DEF f
  <1> HIDE DEF M2
  <1>10. \A k \in 1..M : Good(stack'[k])
    <2>1. \A k \in 1..M : Good(stack[k])
      BY <1>1 DEF Inv
    <2> HIDE DEF M, N
    <2> QED
      BY <1>7, <1>8, <2>1
  <1>11. \A k \in 2..M : Callee(stack'[k]) /\ Len(stack'[k].input) > 0
    <2>1. \A k \in 2..M : Callee(stack[k]) /\ Len(stack[k].input) > 0
      BY <1>1 DEF Inv
    <2> HIDE DEF N, M
    <2> QED
      BY <1>2, <1>4, <1>7, <1>8, <1>9, <2>1
  <1>12. \A k \in 1..(M - 1) : stack'[k].mode = "calls"
    <2>1. \A k \in 1..(M - 1) : stack[k].mode = "calls"
      BY <1>1 DEF Inv
    <2> HIDE DEF N, M
    <2> QED
      BY <1>2, <1>8, <2>1
  <1>13. \A k \in 1..(M - 1) : Weight(stack'[k + 1].input) < Weight(stack'[k].input)
    <2>1. \A k \in 1..(M - 1) : Weight(stack[k + 1].input) < Weight(stack[k].input)
      BY <1>1 DEF Inv, Shrinks
    <2> HIDE DEF N, M
    <2>2. ASSUME NEW k \in 1..(M - 1)
          PROVE  stack'[k].input = stack[k].input /\ stack'[k + 1].input = stack[k + 1].input
      BY <1>2, <1>9
    <2> QED
      BY <2>1, <2>2
  <1> HIDE DEF N, M
  <1>14. stack' # <<>>
    BY <1>2, <1>6, SeqLen
  <1> QED
    BY <1>1, <1>6, <1>10, <1>11, <1>12, <1>13, <1>14 DEF Inv, Shrinks
--------------------------------------------------------------------------------
LEMMA Begun == Init => Inv
  <1> SUFFICES ASSUME Init
               PROVE  Inv
    OBVIOUS
  <1> DEFINE h == NewParser(text)
  <1>1. text \in Str /\ Len(text) \in Nat
    BY ParserAssumption, LenProperties DEF Init, Str
  <1>2. stack = <<h>> /\ status = "parsing"
    BY DEF Init
  <1>3. /\ DOMAIN h = Fields /\ h.input = text /\ h.pos = 0 /\ h.start = 0 /\ h.root = <<>>
        /\ h.mode = "text" /\ h.calls = <<>>
    BY DEF NewParser, Fields
  <1> HIDE DEF h
  <1>4. IsSeq(h.root) /\ Len(h.root) = 0 /\ h.calls \in Seq(Str)
    BY <1>3, EmptySeq DEF IsSeq
  <1>5. Shape(h)
    BY <1>1, <1>3, <1>4 DEF Shape
  <1>6. Frame(h)
    BY <1>1, <1>3 DEF Frame
  <1>7. Ahead(h)
    BY <1>3 DEF Ahead
  <1>8. IsSeq(stack) /\ Len(stack) = 1 /\ stack[1] = h /\ stack # <<>>
    <2>1. <<h>> \in Seq({h}) /\ Len(<<h>>) = 1 /\ <<h>>[1] = h
      OBVIOUS
    <2> QED
      BY <1>2, <2>1, SeqLen DEF IsSeq
  <1> QED
    BY <1>2, <1>5, <1>6, <1>7, <1>8 DEF Inv, Shrinks, Good

LEMMA Unchanging == Inv /\ UNCHANGED vars => Inv'
  <1> SUFFICES ASSUME Inv, UNCHANGED vars
               PROVE  Inv'
    OBVIOUS
  <1>1. stack' = stack /\ status' = status
    BY DEF vars
  <1> QED
    BY <1>1 DEF Inv, Shrinks

LEMMA Kept == Inv /\ [Next]_vars => Inv'
  <1>1. Inv /\ Next => Inv'
    BY DelimEnters, TextPasses, TextEnds, DelimLeaves, FailSteps, DropSteps, RecursiveKeeps,
       BeginSteps, ScanSteps, EmitSteps, QuoteEnds, ArrayEnds, FilterBegins, FilterScans,
       FilterEnds, CallKeeps, ReturnKeeps, AcceptKeeps DEF Next
  <1> QED
    BY <1>1, Unchanging

THEOREM Invariance == Spec => []Inv
  <1>1. Init => Inv
    BY Begun
  <1>2. Inv /\ [Next]_vars => Inv'
    BY Kept
  <1> QED
    BY <1>1, <1>2, PTL DEF Spec

(* Whatever is written in a template, the cursor of every parser at work stays *)
(* in its text, nothing is left over behind it between nodes, every node has a *)
(* list to go to, and what a called parser returns is a list, as parseAction   *)
(* takes its first node to be without a look (parser.go:76).                   *)
THEOREM TypeCorrect == Spec => []TypeOK
  <1>1. Inv => TypeOK
    <2> SUFFICES ASSUME Inv
                 PROVE  TypeOK
      OBVIOUS
    <2>1. DOMAIN stack = 1..Len(stack)
      BY SeqLen DEF Inv
    <2> QED
      BY <2>1 DEF Inv, TypeOK, Good
  <1> QED
    BY <1>1, Invariance, PTL

(* Whatever is written in a template, a parser that parseAction makes works on *)
(* less than the one that called it, so calls nest no deeper than it is long.  *)
THEOREM NestingShrinks == Spec => []Shrinks
  <1>1. Inv => Shrinks
    BY DEF Inv
  <1> QED
    BY <1>1, Invariance, PTL
================================================================================
