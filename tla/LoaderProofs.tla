------------------------------ MODULE LoaderProofs ------------------------------
(* Theorems about Loader, for any files, directories and lists of paths, and   *)
(* whatever other programs remove meanwhile.                                   *)
EXTENDS Loader, FiniteSetTheorems, SequenceTheorems, WellFoundedInduction, TLAPS

(* A file is open only while a stream is read, and then it is that stream's:   *)
(* OneFileOpen without the counting, which is inductive.                       *)
Open == /\ pc # "read" => fds = {}
        /\ pc = "read" => fds = {} \/ \E p : fds = {p}

LEMMA FailCloses == Fail => Open'
  BY DEF Fail, Open

LEMMA Reading == Open /\ (ReadDocument \/ EndOfFile) => Open'
  <1> SUFFICES ASSUME Open, ReadDocument \/ EndOfFile
               PROVE  Open'
    OBVIOUS
  <1>1. CASE ReadDocument
    <2>1. Fail \/ UNCHANGED <<pc, fds>>
      BY <1>1 DEF ReadDocument
    <2> QED
      BY <2>1, FailCloses DEF Open
  <1>2. CASE EndOfFile
    BY <1>2 DEF EndOfFile, Open
  <1> QED
    BY <1>1, <1>2

LEMMA Walking == Open /\ (VisitDir \/ OpenFile \/ EndWalk) => Open'
  <1> SUFFICES ASSUME Open, VisitDir \/ OpenFile \/ EndWalk
               PROVE  Open'
    OBVIOUS
  <1>1. pc = "walk" /\ fds = {}
    BY DEF VisitDir, OpenFile, EndWalk, Open
  <1>2. CASE VisitDir
    <2>1. Fail \/ UNCHANGED <<pc, fds>>
      BY <1>2 DEF VisitDir
    <2> QED
      BY <2>1, FailCloses DEF Open
  <1>3. CASE OpenFile
    <2>1. Fail \/ (pc' = "read" /\ fds' = {Head(pending)})
      BY <1>1, <1>3 DEF OpenFile, Decode
    <2> QED
      BY <2>1, FailCloses DEF Open
  <1>4. CASE EndWalk
    BY <1>1, <1>4 DEF EndWalk, Open
  <1> QED
    BY <1>2, <1>3, <1>4

LEMMA Arguing == Open /\ (ReadStdin \/ Stat \/ Return) => Open'
  <1> SUFFICES ASSUME Open, ReadStdin \/ Stat \/ Return
               PROVE  Open'
    OBVIOUS
  <1>1. pc = "args" /\ fds = {}
    BY DEF ReadStdin, Stat, Return, Open
  <1>2. Fail \/ fds' = fds
    BY DEF ReadStdin, Stat, Return
  <1> QED
    BY <1>1, <1>2, FailCloses DEF Open

LEMMA OpenKept == Open /\ [Next]_vars => Open'
  <1> SUFFICES ASSUME Open, [Next]_vars
               PROVE  Open'
    OBVIOUS
  <1>1. CASE Step
    BY <1>1, Reading, Walking, Arguing DEF Step
  <1>2. ASSUME NEW p \in Volatile, Unlink(p)
        PROVE  Open'
    BY <1>2 DEF Unlink, Open
  <1>3. CASE UNCHANGED vars
    BY <1>3 DEF vars, Open
  <1> QED
    BY <1>1, <1>2, <1>3 DEF Next

(* Whatever is loaded, and wherever loading stops, at most one file is open,   *)
(* and none once LoadObjectsFromFiles has returned (loader.go:83-91).          *)
THEOREM FilesAreClosed == Spec => []OneFileOpen
  <1>1. Init => Open
    BY DEF Init, Open
  <1>2. Open /\ [Next]_vars => Open'
    BY OpenKept
  <1>3. Open => OneFileOpen
    <2> SUFFICES ASSUME Open
                 PROVE  OneFileOpen
      OBVIOUS
    <2>1. CASE fds = {}
      BY <2>1, FS_EmptySet DEF OneFileOpen
    <2>2. ASSUME NEW p, fds = {p}, pc = "read"
          PROVE  OneFileOpen
      <3>1. Cardinality({p}) = 1
        BY FS_Singleton
      <3> QED
        BY <2>2, <3>1 DEF OneFileOpen
    <2> QED
      BY <2>1, <2>2 DEF Open
  <1> QED
    BY <1>1, <1>2, <1>3, PTL DEF Spec
--------------------------------------------------------------------------------
(* Induction over the natural numbers and over sequences, for sets.            *)
Smaller == {ss \in Nat \X Nat : ss[1] < ss[2]}

LEMMA Induct ==
  ASSUME NEW P, 0 \in P, \A x \in Nat : x \in P => x + 1 \in P
  PROVE  Nat \subseteq P
  <1> DEFINE I == Nat \ P
  <1> SUFFICES ASSUME I # {} PROVE FALSE
    OBVIOUS
  <1>1. IsWellFoundedOn(Smaller, Nat)
    BY NatLessThanWellFounded DEF OpToRel, Smaller
  <1>2. PICK x \in I : \A y \in I : ~ (<<y, x>> \in Smaller)
    <2> HIDE DEF I
    <2>1. I \subseteq Nat
      BY DEF I
    <2> QED
      BY <1>1, <2>1, WFMin
  <1>3. x \in Nat /\ x # 0 /\ x - 1 \in Nat
    OBVIOUS
  <1>4. x - 1 \in P
    <2>1. <<x - 1, x>> \in Nat \X Nat /\ x - 1 < x
      BY <1>3
    <2> QED
      BY <1>2, <1>3, <2>1 DEF Smaller
  <1>5. (x - 1) + 1 = x
    BY <1>3
  <1> QED
    BY <1>3, <1>4, <1>5

LEMMA SeqInduct ==
  ASSUME NEW S, NEW P, <<>> \in P,
         \A s \in Seq(S), x \in S : s \in P => Append(s, x) \in P
  PROVE  Seq(S) \subseteq P
  <1> DEFINE I == {z \in Nat : \A s \in Seq(S) : Len(s) = z => s \in P}
  <1>1. 0 \in I
    <2>1. \A s \in Seq(S) : Len(s) = 0 => s = <<>>
      BY EmptySeq
    <2> QED
      BY <2>1
  <1>2. ASSUME NEW z \in Nat, z \in I PROVE z + 1 \in I
    <2> SUFFICES ASSUME NEW s \in Seq(S), Len(s) = z + 1 PROVE s \in P
      OBVIOUS
    <2>1. s[z + 1] \in S /\ SubSeq(s, 1, z) \in Seq(S) /\ Len(SubSeq(s, 1, z)) = z
      <3>1. \A a \in 1..z : s[a] \in S
        BY ElementOfSeq
      <3>2. s[z + 1] \in S
        BY ElementOfSeq
      <3>3. Len(SubSeq(s, 1, z)) = IF 1 <= z THEN z - 1 + 1 ELSE 0
        BY <3>1, SubSeqProperties
      <3>4. SubSeq(s, 1, z) \in Seq(S)
        BY <3>1, SubSeqProperties
      <3> QED
        BY <3>2, <3>3, <3>4
    <2>2. s = Append(SubSeq(s, 1, z), s[z + 1])
      <3>1. s \in Seq(S) /\ Len(s) # 0
        OBVIOUS
      <3>2. SubSeq(s, 1, z + 1) = SubSeq(s, 1, (z + 1) - 1) \o <<s[z + 1]>>
        BY SubSeqRecursiveSecond
      <3>3. SubSeq(s, 1, z + 1) = s /\ (z + 1) - 1 = z
        BY SubSeqFull
      <3>4. SubSeq(s, 1, z) \o <<s[z + 1]>> = Append(SubSeq(s, 1, z), s[z + 1])
        BY <2>1
      <3> QED
        BY <3>2, <3>3, <3>4
    <2> QED
      BY <1>2, <2>1, <2>2
  <1> HIDE DEF I
  <1>3. Nat \subseteq I
    BY <1>1, <1>2, Induct
  <1>4. \A s \in Seq(S) : Len(s) \in I /\ Len(s) \in Nat
    BY <1>3, LenProperties
  <1> QED
    BY <1>4 DEF I

(* FlattenSeq, piece by piece.                                                 *)
Upto(ss, z, f) == f = [i \in 1..z |-> IF i = 1 THEN ss[i] ELSE f[i - 1] \o ss[i]]

LEMMA UptoExists ==
  ASSUME NEW ss, NEW z \in Nat
  PROVE  \E f : Upto(ss, z, f)
  <1> DEFINE P == {m \in Nat : \E f : Upto(ss, m, f)}
  <1>1. 0 \in P
    <2>1. Upto(ss, 0, [i \in 1..0 |-> ss[i]])
      BY DEF Upto
    <2> QED
      BY <2>1
  <1>2. ASSUME NEW m \in Nat, m \in P PROVE m + 1 \in P
    <2>1. PICK f : Upto(ss, m, f)
      BY <1>2
    <2> DEFINE g == [i \in 1..(m + 1) |->
                        IF i = m + 1 THEN IF m = 0 THEN ss[i] ELSE f[m] \o ss[i] ELSE f[i]]
    <2>2. Upto(ss, m + 1, g)
      <3>1. \A i \in 1..m : f[i] = IF i = 1 THEN ss[i] ELSE f[i - 1] \o ss[i]
        BY <2>1 DEF Upto
      <3>2. \A i \in 1..m : g[i] = f[i]
        OBVIOUS
      <3>3. \A i \in 1..m : i # 1 => i - 1 \in 1..m
        OBVIOUS
      <3>4. \A i \in 1..m : g[i] = IF i = 1 THEN ss[i] ELSE g[i - 1] \o ss[i]
        <4> HIDE DEF g
        <4> QED
          BY <3>1, <3>2, <3>3
      <3>5. g[m + 1] = IF m + 1 = 1 THEN ss[m + 1] ELSE g[(m + 1) - 1] \o ss[m + 1]
        <4>1. m # 0 => m \in 1..m /\ (m + 1) - 1 = m /\ m + 1 # 1
          OBVIOUS
        <4>2. g[m + 1] = IF m = 0 THEN ss[m + 1] ELSE f[m] \o ss[m + 1]
          OBVIOUS
        <4> HIDE DEF g
        <4> QED
          BY <3>2, <4>1, <4>2
      <3>6. \A i \in 1..(m + 1) : i \in 1..m \/ i = m + 1
        OBVIOUS
      <3>7. g = [i \in 1..(m + 1) |-> g[i]]
        OBVIOUS
      <3> HIDE DEF g
      <3>8. \A i \in 1..(m + 1) : g[i] = IF i = 1 THEN ss[i] ELSE g[i - 1] \o ss[i]
        BY <3>4, <3>5, <3>6
      <3>9. [i \in 1..(m + 1) |-> g[i]]
              = [i \in 1..(m + 1) |-> IF i = 1 THEN ss[i] ELSE g[i - 1] \o ss[i]]
        BY <3>8
      <3> QED
        BY <3>7, <3>9 DEF Upto
    <2> QED
      BY <2>2
  <1> HIDE DEF P
  <1>3. Nat \subseteq P
    BY <1>1, <1>2, Induct
  <1> QED
    BY <1>3 DEF P

LEMMA FlattenUpto ==
  ASSUME NEW ss, Len(ss) \in Nat, Len(ss) # 0
  PROVE  \E f : Upto(ss, Len(ss), f) /\ FlattenSeq(ss) = f[Len(ss)]
  <1> DEFINE f == CHOOSE g : g = [i \in 1..Len(ss) |-> IF i = 1 THEN ss[i] ELSE g[i - 1] \o ss[i]]
  <1>1. FlattenSeq(ss) = f[Len(ss)]
    BY DEF FlattenSeq
  <1>2. Upto(ss, Len(ss), f)
    BY UptoExists DEF Upto
  <1> QED
    BY <1>1, <1>2

LEMMA FlattenEmpty == FlattenSeq(<<>>) = <<>>
  BY EmptySeq DEF FlattenSeq

LEMMA UptoSame ==
  ASSUME NEW ss, NEW tt, NEW z \in Nat, NEW m \in 1..z, NEW f, NEW g,
         \A i \in 1..m : ss[i] = tt[i], Upto(ss, m, f), Upto(tt, z, g)
  PROVE  f[m] = g[m]
  <1> DEFINE P == {i \in Nat : i \in 1..m => f[i] = g[i]}
  <1>0. /\ \A i \in 1..m : f[i] = IF i = 1 THEN ss[i] ELSE f[i - 1] \o ss[i]
        /\ \A i \in 1..z : g[i] = IF i = 1 THEN tt[i] ELSE g[i - 1] \o tt[i]
    BY DEF Upto
  <1>1. 0 \in P
    OBVIOUS
  <1>2. ASSUME NEW i \in Nat, i \in P PROVE i + 1 \in P
    <2> SUFFICES ASSUME i + 1 \in 1..m PROVE f[i + 1] = g[i + 1]
      OBVIOUS
    <2>1. i + 1 \in 1..z /\ (i + 1) - 1 = i /\ (i + 1 # 1 => i \in 1..m)
      OBVIOUS
    <2>2. i + 1 # 1 => f[i] = g[i]
      BY <1>2, <2>1
    <2>3. f[i + 1] = IF i + 1 = 1 THEN ss[i + 1] ELSE f[i] \o ss[i + 1]
      BY <1>0, <2>1
    <2>4. g[i + 1] = IF i + 1 = 1 THEN tt[i + 1] ELSE g[i] \o tt[i + 1]
      BY <1>0, <2>1
    <2> QED
      BY <2>2, <2>3, <2>4
  <1> HIDE DEF P
  <1>3. Nat \subseteq P
    BY <1>1, <1>2, Induct
  <1>4. m \in P /\ m \in 1..m
    BY <1>3
  <1> QED
    BY <1>4 DEF P

LEMMA FlattenAppend ==
  ASSUME NEW S, NEW ss \in Seq(Seq(S)), NEW x \in Seq(S)
  PROVE  FlattenSeq(Append(ss, x)) = FlattenSeq(ss) \o x
  <1> DEFINE tt == Append(ss, x)
             z == Len(ss)
  <1>1. z \in Nat /\ Len(tt) = z + 1 /\ tt[z + 1] = x /\ \A i \in 1..z : tt[i] = ss[i]
    BY AppendProperties, LenProperties
  <1> HIDE DEF tt
  <1>2. PICK g : Upto(tt, z + 1, g) /\ FlattenSeq(tt) = g[z + 1]
    BY <1>1, FlattenUpto
  <1>3. g[z + 1] = IF z + 1 = 1 THEN tt[z + 1] ELSE g[(z + 1) - 1] \o tt[z + 1]
    <2>1. z + 1 \in 1..(z + 1)
      BY <1>1
    <2> HIDE DEF z
    <2> QED
      BY <1>2, <2>1 DEF Upto
  <1>4. CASE z = 0
    <2>1. ss = <<>> /\ g[z + 1] = x
      BY <1>1, <1>3, <1>4, EmptySeq
    <2>2. <<>> \o x = x
      BY ConcatEmptySeq
    <2> QED
      BY <1>2, <2>1, <2>2, FlattenEmpty DEF tt
  <1>5. CASE z # 0
    <2>1. PICK f : Upto(ss, z, f) /\ FlattenSeq(ss) = f[z]
      BY <1>1, <1>5, FlattenUpto
    <2>2. f[z] = g[z]
      <3>1. z + 1 \in Nat /\ z \in 1..(z + 1) /\ \A i \in 1..z : ss[i] = tt[i]
        BY <1>1, <1>5
      <3> HIDE DEF z
      <3> QED
        BY <1>1, <1>2, <2>1, <3>1, UptoSame
    <2>3. g[z + 1] = g[z] \o x
      BY <1>1, <1>3, <1>5
    <2> QED
      BY <1>2, <2>1, <2>2, <2>3 DEF tt
  <1> QED
    BY <1>4, <1>5

LEMMA FlattenType ==
  ASSUME NEW S, NEW ss \in Seq(Seq(S))
  PROVE  FlattenSeq(ss) \in Seq(S)
  <1> DEFINE P == {s \in Seq(Seq(S)) : FlattenSeq(s) \in Seq(S)}
  <1>1. <<>> \in P
    BY FlattenEmpty, EmptySeq
  <1>2. ASSUME NEW s \in Seq(Seq(S)), NEW x \in Seq(S), s \in P PROVE Append(s, x) \in P
    BY <1>2, FlattenAppend, AppendProperties, ConcatProperties
  <1> HIDE DEF P
  <1>3. Seq(Seq(S)) \subseteq P
    BY <1>1, <1>2, SeqInduct
  <1> QED
    BY <1>3 DEF P

LEMMA FlattenConcat ==
  ASSUME NEW S, NEW ss \in Seq(Seq(S)), NEW tt \in Seq(Seq(S))
  PROVE  FlattenSeq(ss \o tt) = FlattenSeq(ss) \o FlattenSeq(tt)
  <1> DEFINE P == {s \in Seq(Seq(S)) : FlattenSeq(ss \o s) = FlattenSeq(ss) \o FlattenSeq(s)}
  <1>1. <<>> \in P
    <2>1. ss \o <<>> = ss /\ <<>> \in Seq(Seq(S))
      BY ConcatEmptySeq, EmptySeq
    <2>2. FlattenSeq(ss) \o <<>> = FlattenSeq(ss)
      BY FlattenType, ConcatEmptySeq
    <2> QED
      BY <2>1, <2>2, FlattenEmpty
  <1>2. ASSUME NEW s \in Seq(Seq(S)), NEW x \in Seq(S), s \in P PROVE Append(s, x) \in P
    <2>1. ss \o Append(s, x) = Append(ss \o s, x)
      <3> DEFINE U == Seq(S)
                 e == <<x>>
      <3>1. x \in U /\ e \in Seq(U)
        OBVIOUS
      <3> HIDE DEF U
      <3>2. Append(s, x) = s \o e
        BY <3>1, AppendIsConcat DEF U
      <3>3. ss \o s \in Seq(U)
        BY ConcatProperties DEF U
      <3>4. Append(ss \o s, x) = (ss \o s) \o e
        <4> DEFINE v == ss \o s
        <4> HIDE DEF v
        <4>1. v \in Seq(U)
          BY <3>3 DEF v
        <4>2. Append(v, x) = v \o e
          BY <3>1, <4>1, AppendIsConcat
        <4> QED
          BY <4>2 DEF v
      <3> HIDE DEF e
      <3>5. e \in Seq(U)
        BY <3>1
      <3>6. (ss \o s) \o e = ss \o (s \o e)
        BY <3>5, ConcatAssociative, SMTT(15) DEF U
      <3> QED
        BY <3>2, <3>4, <3>6
    <2>2. ss \o s \in Seq(Seq(S)) /\ Append(s, x) \in Seq(Seq(S))
      BY ConcatProperties, AppendProperties
    <2>3. FlattenSeq(ss \o Append(s, x)) = FlattenSeq(ss \o s) \o x
      BY <2>1, <2>2, FlattenAppend
    <2>4. FlattenSeq(ss \o s) \o x = FlattenSeq(ss) \o (FlattenSeq(s) \o x)
      <3> DEFINE a == FlattenSeq(ss)
                 b == FlattenSeq(s)
      <3>1. a \in Seq(S)
        BY FlattenType
      <3>0. b \in Seq(S)
        BY FlattenType
      <3> HIDE DEF a, b
      <3>3. (a \o b) \o x = a \o (b \o x)
        BY <3>0, <3>1, ConcatAssociative, SMTT(15)
      <3>2. (FlattenSeq(ss) \o FlattenSeq(s)) \o x = FlattenSeq(ss) \o (FlattenSeq(s) \o x)
        BY <3>3 DEF a, b
      <3> QED
        BY <1>2, <3>2
    <2>5. FlattenSeq(s) \o x = FlattenSeq(Append(s, x))
      BY FlattenAppend
    <2> QED
      BY <2>2, <2>3, <2>4, <2>5
  <1> HIDE DEF P
  <1>3. Seq(Seq(S)) \subseteq P
    BY <1>1, <1>2, SeqInduct
  <1> QED
    BY <1>3 DEF P

(* What a function yields on the elements of a sequence, joined.               *)
Fun(F, S, T)  == F \in [S -> T]
Map(F, s)     == [a \in DOMAIN s |-> F[s[a]]]
FlatMap(F, s) == FlattenSeq(Map(F, s))

LEMMA SameLength ==
  ASSUME NEW x \in Nat, NEW y \in Nat, 1..x = 1..y
  PROVE  x = y
  <1>1. x <= y
    <2>1. x \in 1..x \/ x = 0
      OBVIOUS
    <2>2. x \in 1..y \/ x = 0
      BY <2>1
    <2> QED
      BY <2>2
  <1>2. y <= x
    <2>1. y \in 1..y \/ y = 0
      OBVIOUS
    <2>2. y \in 1..x \/ y = 0
      BY <2>1
    <2> QED
      BY <2>2
  <1> QED
    BY <1>1, <1>2

LEMMA MapType ==
  ASSUME NEW S, NEW T, NEW F, Fun(F, S, T), NEW s \in Seq(S)
  PROVE  /\ Map(F, s) \in Seq(T) /\ Len(Map(F, s)) = Len(s)
         /\ \A b \in 1..Len(s) : Map(F, s)[b] = F[s[b]]
  <1>1. Len(s) \in Nat /\ DOMAIN s = 1..Len(s) /\ \A a \in 1..Len(s) : s[a] \in S
    BY LenProperties, ElementOfSeq
  <1> DEFINE f == Map(F, s)
  <1>2. f \in [1..Len(s) -> T] /\ \A b \in 1..Len(s) : f[b] = F[s[b]]
    BY <1>1 DEF Map, Fun
  <1> HIDE DEF f
  <1>3. f \in Seq(T)
    BY <1>1, <1>2, SeqDef
  <1>4. Len(f) = Len(s)
    <2>1. Len(f) \in Nat /\ 1..Len(f) = DOMAIN f /\ DOMAIN f = 1..Len(s)
      BY <1>2, <1>3, LenProperties
    <2>2. 1..Len(f) = 1..Len(s)
      BY <2>1
    <2> QED
      BY <1>1, <2>1, <2>2, SameLength
  <1> QED
    BY <1>2, <1>3, <1>4 DEF f

LEMMA MapConcat ==
  ASSUME NEW S, NEW T, NEW F, Fun(F, S, T), NEW s \in Seq(S), NEW t \in Seq(S)
  PROVE  Map(F, s \o t) = Map(F, s) \o Map(F, t)
  <1> DEFINE u == s \o t
             f == Map(F, s)
             g == Map(F, t)
             h == Map(F, u)
  <1>1. /\ u \in Seq(S) /\ Len(u) = Len(s) + Len(t) /\ Len(s) \in Nat /\ Len(t) \in Nat
        /\ \A a \in 1..Len(s) + Len(t) : u[a] = IF a <= Len(s) THEN s[a] ELSE t[a - Len(s)]
    BY ConcatProperties, LenProperties
  <1>2. /\ f \in Seq(T) /\ Len(f) = Len(s) /\ \A b \in 1..Len(s) : f[b] = F[s[b]]
    BY MapType
  <1>3. /\ g \in Seq(T) /\ Len(g) = Len(t) /\ \A b \in 1..Len(t) : g[b] = F[t[b]]
    BY MapType
  <1> HIDE DEF u
  <1>4. /\ h \in Seq(T) /\ Len(h) = Len(u) /\ \A b \in 1..Len(u) : h[b] = F[u[b]]
    BY <1>1, MapType
  <1> HIDE DEF f, g, h
  <1>5. /\ f \o g \in Seq(T) /\ Len(f \o g) = Len(s) + Len(t)
        /\ \A a \in 1..Len(s) + Len(t) : (f \o g)[a] = IF a <= Len(s) THEN f[a] ELSE g[a - Len(s)]
    <2>1. f \in Seq(T) /\ g \in Seq(T)
      BY <1>2, <1>3
    <2>2. /\ f \o g \in Seq(T) /\ Len(f \o g) = Len(f) + Len(g)
          /\ \A a \in 1..Len(f) + Len(g) : (f \o g)[a] = IF a <= Len(f) THEN f[a] ELSE g[a - Len(f)]
      BY <2>1, ConcatProperties
    <2> QED
      BY <1>2, <1>3, <2>2
  <1>6. \A a \in 1..Len(s) + Len(t) : h[a] = (f \o g)[a]
    <2> SUFFICES ASSUME NEW a \in 1..Len(s) + Len(t) PROVE h[a] = (f \o g)[a]
      OBVIOUS
    <2>1. CASE a <= Len(s)
      BY <1>1, <1>2, <1>4, <1>5, <2>1
    <2>2. CASE ~(a <= Len(s))
      <3>1. a - Len(s) \in 1..Len(t)
        BY <1>1, <2>2
      <3> QED
        BY <1>1, <1>3, <1>4, <1>5, <2>2, <3>1
    <2> QED
      BY <2>1, <2>2
  <1>7. h = f \o g
    BY <1>1, <1>4, <1>5, <1>6, SeqEqual
  <1> QED
    BY <1>7 DEF f, g, h, u

LEMMA FlatMapFacts ==
  ASSUME NEW S, NEW T, NEW F, Fun(F, S, Seq(T))
  PROVE  /\ FlatMap(F, <<>>) = <<>>
         /\ \A x \in S : FlatMap(F, <<x>>) = F[x]
         /\ \A s \in Seq(S) : FlatMap(F, s) \in Seq(T)
         /\ \A s, t \in Seq(S) : FlatMap(F, s \o t) = FlatMap(F, s) \o FlatMap(F, t)
  <1>1. FlatMap(F, <<>>) = <<>>
    <2>1. Map(F, <<>>) = <<>>
      <3> DEFINE e == <<>>
                 f == Map(F, e)
                 U == Seq(T)
      <3>0. e \in Seq(S)
        BY EmptySeq
      <3>1. Len(e) = 0
        BY EmptySeq
      <3> HIDE DEF e, U
      <3>2. Fun(F, S, U)
        BY DEF U
      <3>3. f \in Seq(U) /\ Len(f) = 0
        <4>1. f \in Seq(U) /\ Len(f) = Len(e) /\ \A b \in 1..Len(e) : f[b] = F[e[b]]
          BY <3>0, <3>2, MapType
        <4> HIDE DEF f
        <4> QED
          BY <3>1, <4>1
      <3> HIDE DEF f
      <3>4. f = <<>>
        BY <3>3, EmptySeq
      <3> QED
        BY <3>4 DEF f, e
    <2> QED
      BY <2>1, FlattenEmpty DEF FlatMap
  <1>2. ASSUME NEW x \in S PROVE FlatMap(F, <<x>>) = F[x]
    <2> DEFINE f == Map(F, <<x>>)
    <2>2. f \in Seq(Seq(T)) /\ Len(f) = 1 /\ f[1] = F[x]
      <3> DEFINE e == <<x>>
                 U == Seq(T)
                 h == Map(F, e)
      <3>1. e \in Seq(S) /\ Len(e) = 1 /\ e[1] = x
        OBVIOUS
      <3> HIDE DEF e, U
      <3>2. Fun(F, S, U)
        BY DEF U
      <3>3. h \in Seq(U) /\ Len(h) = Len(e) /\ \A b \in 1..Len(e) : h[b] = F[e[b]]
        BY <3>1, <3>2, MapType
      <3> HIDE DEF h
      <3>4. h \in Seq(U) /\ Len(h) = 1 /\ h[1] = F[x]
        BY <3>1, <3>3
      <3> QED
        BY <3>4 DEF h, e, U
    <2> HIDE DEF f
    <2>3. F[x] \in Seq(T) /\ <<>> \in Seq(Seq(T)) /\ Len(<<>>) = 0
      <3>1. F[x] \in Seq(T)
        BY DEF Fun
      <3>2. <<>> \in Seq(Seq(T)) /\ Len(<<>>) = 0
        BY EmptySeq
      <3> QED
        BY <3>1, <3>2
    <2> DEFINE g == Append(<<>>, F[x])
    <2>4. g \in Seq(Seq(T)) /\ Len(g) = 1 /\ g[1] = F[x]
      <3>1. g \in Seq(Seq(T)) /\ Len(g) = Len(<<>>) + 1 /\ g[Len(<<>>) + 1] = F[x]
        BY <2>3, AppendProperties
      <3> QED
        BY <2>3, <3>1
    <2> HIDE DEF g
    <2>5. f = g
      BY <2>2, <2>4, SeqEqual
    <2>6. FlattenSeq(g) = <<>> \o F[x]
      BY <2>3, FlattenAppend, FlattenEmpty DEF g
    <2>7. <<>> \o F[x] = F[x]
      BY <2>3, ConcatEmptySeq
    <2> QED
      BY <2>5, <2>6, <2>7 DEF FlatMap, f
  <1>3. ASSUME NEW s \in Seq(S) PROVE FlatMap(F, s) \in Seq(T)
    <2> DEFINE f == Map(F, s)
    <2>1. f \in Seq(Seq(T))
      <3> DEFINE U == Seq(T)
      <3>1. Fun(F, S, U)
        OBVIOUS
      <3> HIDE DEF U
      <3>2. f \in Seq(U)
        BY <3>1, MapType
      <3> QED
        BY <3>2 DEF U
    <2> HIDE DEF f
    <2>2. FlattenSeq(f) \in Seq(T)
      BY <2>1, FlattenType
    <2> QED
      BY <2>2 DEF FlatMap, f
  <1>4. ASSUME NEW s \in Seq(S), NEW t \in Seq(S)
        PROVE  FlatMap(F, s \o t) = FlatMap(F, s) \o FlatMap(F, t)
    <2> DEFINE f == Map(F, s)
               g == Map(F, t)
    <2> DEFINE U == Seq(T)
    <2>0. Fun(F, S, U)
      OBVIOUS
    <2>1. f \in Seq(Seq(T)) /\ g \in Seq(Seq(T))
      <3> HIDE DEF U
      <3>1. f \in Seq(U)
        BY <2>0, MapType
      <3>2. g \in Seq(U)
        BY <2>0, MapType
      <3> QED
        BY <3>1, <3>2 DEF U
    <2>2. FlatMap(F, s \o t) = FlattenSeq(f \o g)
      <3> HIDE DEF U
      <3>1. Map(F, s \o t) = f \o g
        BY <2>0, MapConcat
      <3> QED
        BY <3>1 DEF FlatMap
    <2>3. FlattenSeq(f \o g) = FlattenSeq(f) \o FlattenSeq(g)
      <3> HIDE DEF f, g
      <3> QED
        BY <2>1, FlattenConcat
    <2> QED
      BY <2>2, <2>3 DEF FlatMap
  <1> QED
    BY <1>1, <1>2, <1>3, <1>4

LEMMA FlatMapType ==
  ASSUME NEW S, NEW T, NEW F, Fun(F, S, Seq(T)), NEW s \in Seq(S)
  PROVE  FlatMap(F, s) \in Seq(T)
  BY FlatMapFacts

LEMMA FlatMapOne ==
  ASSUME NEW S, NEW T, NEW F, Fun(F, S, Seq(T)), NEW x \in S
  PROVE  FlatMap(F, <<x>>) = F[x]
  BY FlatMapFacts

LEMMA FlatMapConcat ==
  ASSUME NEW S, NEW T, NEW F, Fun(F, S, Seq(T)), NEW s \in Seq(S), NEW t \in Seq(S)
  PROVE  FlatMap(F, s \o t) = FlatMap(F, s) \o FlatMap(F, t)
  BY FlatMapFacts

LEMMA FlatMapAppend ==
  ASSUME NEW S, NEW T, NEW F, Fun(F, S, Seq(T)), NEW q \in Seq(S), NEW x \in S
  PROVE  FlatMap(F, Append(q, x)) = FlatMap(F, q) \o F[x]
  <1> DEFINE e == <<x>>
  <1>1. Append(q, x) = q \o e
    BY AppendIsConcat
  <1>2. FlatMap(F, e) = F[x]
    BY FlatMapOne
  <1>3. e \in Seq(S)
    OBVIOUS
  <1> HIDE DEF e
  <1>4. FlatMap(F, q \o e) = FlatMap(F, q) \o FlatMap(F, e)
    BY <1>3, FlatMapConcat
  <1> QED
    BY <1>1, <1>2, <1>4

LEMMA FlatMapEmpty ==
  ASSUME NEW S, NEW T, NEW F, Fun(F, S, Seq(T))
  PROVE  FlatMap(F, <<>>) = <<>>
  BY FlatMapFacts

(* s is t with some occurrences of elements of G left out.                     *)
Sub(s, t, G) ==
    \E f \in [1..Len(s) -> 1..Len(t)] :
        /\ \A i, j \in 1..Len(s) : i < j => f[i] < f[j]
        /\ \A i \in 1..Len(s) : s[i] = t[f[i]]
        /\ \A j \in 1..Len(t) : t[j] \in G \/ \E i \in 1..Len(s) : f[i] = j

LEMMA SubSame ==
  ASSUME NEW S, NEW s \in Seq(S), NEW G PROVE Sub(s, s, G)
  <1> DEFINE f == [i \in 1..Len(s) |-> i]
  <1>1. f \in [1..Len(s) -> 1..Len(s)] /\ \A i \in 1..Len(s) : f[i] = i
    OBVIOUS
  <1>2. \A j \in 1..Len(s) : \E i \in 1..Len(s) : f[i] = j
    BY <1>1
  <1> HIDE DEF f
  <1> QED
    BY <1>1, <1>2 DEF Sub

LEMMA SubOut ==
  ASSUME NEW S, NEW x \in S, NEW G, x \in G PROVE Sub(<<>>, <<x>>, G)
  <1> DEFINE f == [i \in 1..0 |-> 1]
  <1>1. f \in [1..Len(<<>>) -> 1..Len(<<x>>)] /\ Len(<<>>) = 0
    OBVIOUS
  <1>2. \A j \in 1..Len(<<x>>) : <<x>>[j] = x
    OBVIOUS
  <1>3. \A i \in 1..Len(<<>>) : FALSE
    OBVIOUS
  <1> HIDE DEF f
  <1> QED
    BY <1>1, <1>2, <1>3 DEF Sub

LEMMA SubTrans ==
  ASSUME NEW S, NEW s \in Seq(S), NEW t \in Seq(S), NEW u \in Seq(S), NEW G,
         Sub(s, t, G), Sub(t, u, G)
  PROVE  Sub(s, u, G)
  <1>1. PICK f \in [1..Len(s) -> 1..Len(t)] :
            /\ \A i, j \in 1..Len(s) : i < j => f[i] < f[j]
            /\ \A i \in 1..Len(s) : s[i] = t[f[i]]
            /\ \A j \in 1..Len(t) : t[j] \in G \/ \E i \in 1..Len(s) : f[i] = j
    BY DEF Sub
  <1>2. PICK g \in [1..Len(t) -> 1..Len(u)] :
            /\ \A i, j \in 1..Len(t) : i < j => g[i] < g[j]
            /\ \A i \in 1..Len(t) : t[i] = u[g[i]]
            /\ \A j \in 1..Len(u) : u[j] \in G \/ \E i \in 1..Len(t) : g[i] = j
    BY DEF Sub
  <1> DEFINE h == [i \in 1..Len(s) |-> g[f[i]]]
  <1>3. h \in [1..Len(s) -> 1..Len(u)] /\ \A i \in 1..Len(s) : h[i] = g[f[i]]
    OBVIOUS
  <1> HIDE DEF h
  <1>4. ASSUME NEW i \in 1..Len(s), NEW j \in 1..Len(s), i < j PROVE h[i] < h[j]
    <2>1. f[i] \in 1..Len(t) /\ f[j] \in 1..Len(t) /\ f[i] < f[j]
      BY <1>1, <1>4
    <2>2. g[f[i]] < g[f[j]]
      BY <1>2, <2>1
    <2> QED
      BY <1>3, <2>2
  <1>5. \A i \in 1..Len(s) : s[i] = u[h[i]]
    BY <1>1, <1>2, <1>3
  <1>6. ASSUME NEW j \in 1..Len(u), u[j] \notin G PROVE \E i \in 1..Len(s) : h[i] = j
    <2>1. PICK a \in 1..Len(t) : g[a] = j
      BY <1>2, <1>6
    <2>2. t[a] = u[j]
      BY <1>2, <2>1
    <2>3. PICK i \in 1..Len(s) : f[i] = a
      BY <1>1, <1>6, <2>2
    <2> QED
      BY <1>3, <2>1, <2>3
  <1>7. \A j \in 1..Len(u) : u[j] \in G \/ \E i \in 1..Len(s) : h[i] = j
    BY <1>6
  <1>8. \A i, j \in 1..Len(s) : i < j => h[i] < h[j]
    BY <1>4
  <1> QED
    BY <1>3, <1>5, <1>7, <1>8 DEF Sub

LEMMA SubConcat ==
  ASSUME NEW S, NEW s \in Seq(S), NEW t \in Seq(S), NEW u \in Seq(S), NEW v \in Seq(S), NEW G,
         Sub(s, t, G), Sub(u, v, G)
  PROVE  Sub(s \o u, t \o v, G)
  <1>1. PICK f \in [1..Len(s) -> 1..Len(t)] :
            /\ \A i, j \in 1..Len(s) : i < j => f[i] < f[j]
            /\ \A i \in 1..Len(s) : s[i] = t[f[i]]
            /\ \A j \in 1..Len(t) : t[j] \in G \/ \E i \in 1..Len(s) : f[i] = j
    BY DEF Sub
  <1>2. PICK g \in [1..Len(u) -> 1..Len(v)] :
            /\ \A i, j \in 1..Len(u) : i < j => g[i] < g[j]
            /\ \A i \in 1..Len(u) : u[i] = v[g[i]]
            /\ \A j \in 1..Len(v) : v[j] \in G \/ \E i \in 1..Len(u) : g[i] = j
    BY DEF Sub
  <1> DEFINE a == s \o u
             b == t \o v
             h == [i \in 1..(Len(s) + Len(u)) |->
                      IF i <= Len(s) THEN f[i] ELSE Len(t) + g[i - Len(s)]]
  <1>3. Len(s) \in Nat /\ Len(t) \in Nat /\ Len(u) \in Nat /\ Len(v) \in Nat
    BY LenProperties
  <1>4. /\ Len(a) = Len(s) + Len(u)
        /\ \A i \in 1..Len(s) : a[i] = s[i]
        /\ \A i \in 1..Len(u) : a[Len(s) + i] = u[i]
    BY <1>3, ConcatProperties
  <1>5. /\ Len(b) = Len(t) + Len(v)
        /\ \A i \in 1..Len(t) : b[i] = t[i]
        /\ \A i \in 1..Len(v) : b[Len(t) + i] = v[i]
    BY <1>3, ConcatProperties
  <1> HIDE DEF a, b
  <1>6. \A i \in 1..Len(s) : f[i] \in 1..Len(t)
    OBVIOUS
  <1>7. \A i \in 1..Len(u) : g[i] \in 1..Len(v)
    OBVIOUS
  <1>8. \A i \in 1..(Len(s) + Len(u)) :
            (i <= Len(s) /\ i \in 1..Len(s)) \/ (i > Len(s) /\ i - Len(s) \in 1..Len(u))
    BY <1>3
  <1>9. \A i \in 1..Len(s) : h[i] = f[i]
    BY <1>3
  <1>10. ASSUME NEW i \in 1..Len(u) PROVE h[Len(s) + i] = Len(t) + g[i]
    <2>1. /\ Len(s) + i \in 1..(Len(s) + Len(u)) /\ ~(Len(s) + i <= Len(s))
          /\ (Len(s) + i) - Len(s) = i
      BY <1>3
    <2> QED
      BY <2>1
  <1>11. ASSUME NEW i \in 1..(Len(s) + Len(u)), i > Len(s)
         PROVE  h[i] = Len(t) + g[i - Len(s)]
    <2>1. ~(i <= Len(s))
      BY <1>3, <1>11
    <2> QED
      BY <2>1
  <1>12. h \in [1..Len(a) -> 1..Len(b)]
    BY <1>3, <1>4, <1>5, <1>6, <1>7, <1>8
  <1> HIDE DEF h
  <1>13. ASSUME NEW i \in 1..Len(a), NEW j \in 1..Len(a), i < j PROVE h[i] < h[j]
    <2>1. CASE j <= Len(s)
      <3>1. i \in 1..Len(s) /\ j \in 1..Len(s)
        BY <1>3, <1>4, <1>13, <2>1
      <3>2. f[i] < f[j]
        BY <1>1, <1>13, <3>1
      <3> QED
        BY <1>9, <3>1, <3>2
    <2>2. CASE i <= Len(s) /\ j > Len(s)
      <3>1. i \in 1..Len(s) /\ j - Len(s) \in 1..Len(u)
        BY <1>3, <1>4, <2>2
      <3>2. h[i] \in 1..Len(t)
        BY <1>6, <1>9, <3>1
      <3>3. h[j] = Len(t) + g[j - Len(s)] /\ g[j - Len(s)] \in 1..Len(v)
        BY <1>4, <1>7, <1>11, <2>2, <3>1
      <3> QED
        BY <1>3, <3>2, <3>3
    <2>3. CASE i > Len(s)
      <3>1. /\ i - Len(s) \in 1..Len(u) /\ j - Len(s) \in 1..Len(u)
            /\ i - Len(s) < j - Len(s) /\ j > Len(s)
        BY <1>3, <1>4, <1>13, <2>3
      <3>2. g[i - Len(s)] < g[j - Len(s)]
        BY <1>2, <3>1
      <3>3. h[i] = Len(t) + g[i - Len(s)] /\ h[j] = Len(t) + g[j - Len(s)]
        BY <1>4, <1>11, <2>3, <3>1
      <3>4. g[i - Len(s)] \in 1..Len(v) /\ g[j - Len(s)] \in 1..Len(v)
        BY <1>7, <3>1
      <3> QED
        BY <1>3, <3>2, <3>3, <3>4
    <2> QED
      BY <1>3, <1>4, <1>13, <2>1, <2>2, <2>3
  <1>14. ASSUME NEW i \in 1..Len(a) PROVE a[i] = b[h[i]]
    <2>1. CASE i <= Len(s)
      BY <1>1, <1>3, <1>4, <1>5, <1>6, <1>9, <2>1
    <2>2. CASE i > Len(s)
      <3>1. PICK x \in 1..Len(u) : i = Len(s) + x
        <4>1. i - Len(s) \in 1..Len(u) /\ i = Len(s) + (i - Len(s))
          BY <1>3, <1>4, <2>2
        <4> QED
          BY <4>1
      <3>2. a[i] = u[x] /\ h[i] = Len(t) + g[x]
        BY <1>4, <1>10, <3>1
      <3>3. b[Len(t) + g[x]] = v[g[x]]
        BY <1>5, <1>7
      <3> QED
        BY <1>2, <3>2, <3>3
    <2> QED
      BY <1>3, <1>4, <2>1, <2>2
  <1>15. ASSUME NEW j \in 1..Len(b), b[j] \notin G PROVE \E i \in 1..Len(a) : h[i] = j
    <2>1. CASE j <= Len(t)
      <3>1. j \in 1..Len(t) /\ t[j] \notin G
        BY <1>3, <1>5, <1>15, <2>1
      <3>2. PICK i \in 1..Len(s) : f[i] = j
        BY <1>1, <3>1
      <3>3. i \in 1..Len(a) /\ h[i] = j
        BY <1>3, <1>4, <1>9, <3>2
      <3> QED
        BY <3>3
    <2>2. CASE j > Len(t)
      <3>1. PICK y \in 1..Len(v) : j = Len(t) + y
        <4>1. j - Len(t) \in 1..Len(v) /\ j = Len(t) + (j - Len(t))
          BY <1>3, <1>5, <2>2
        <4> QED
          BY <4>1
      <3>2. v[y] \notin G
        BY <1>5, <1>15, <3>1
      <3>3. PICK i \in 1..Len(u) : g[i] = y
        BY <1>2, <3>2
      <3>4. Len(s) + i \in 1..Len(a)
        BY <1>3, <1>4
      <3> QED
        BY <1>10, <3>1, <3>3, <3>4
    <2> QED
      BY <1>3, <1>5, <2>1, <2>2
  <1> QED
    BY <1>12, <1>13, <1>14, <1>15 DEF Sub, a, b

(* What F yields on t, but for the positions of D.                             *)
Masked(F, t, D)  == [a \in DOMAIN t |-> IF a \in D THEN <<>> ELSE F[t[a]]]
Flatten(F, t, D) == FlattenSeq(Masked(F, t, D))

LEMMA MaskedType ==
  ASSUME NEW S, NEW T, NEW F, Fun(F, S, Seq(T)), NEW t \in Seq(S), NEW D
  PROVE  /\ Masked(F, t, D) \in Seq(Seq(T)) /\ Len(Masked(F, t, D)) = Len(t)
         /\ \A b \in 1..Len(t) : Masked(F, t, D)[b] = IF b \in D THEN <<>> ELSE F[t[b]]
  <1>1. Len(t) \in Nat /\ DOMAIN t = 1..Len(t) /\ \A a \in 1..Len(t) : t[a] \in S
    BY LenProperties, ElementOfSeq
  <1> DEFINE f == Masked(F, t, D)
             e == <<>>
             U == Seq(T)
  <1>2. e \in U
    OBVIOUS
  <1>3. Fun(F, S, U) /\ f = [a \in DOMAIN t |-> IF a \in D THEN e ELSE F[t[a]]]
    BY DEF Masked
  <1> HIDE DEF e, U, f
  <1>4. f \in [1..Len(t) -> U] /\ \A b \in 1..Len(t) : f[b] = IF b \in D THEN e ELSE F[t[b]]
    BY <1>1, <1>2, <1>3 DEF Fun
  <1>5. f \in Seq(U)
    BY <1>1, <1>4, SeqDef
  <1>6. Len(f) = Len(t)
    <2>1. Len(f) \in Nat /\ 1..Len(f) = DOMAIN f /\ DOMAIN f = 1..Len(t)
      BY <1>4, <1>5, LenProperties
    <2>2. 1..Len(f) = 1..Len(t)
      BY <2>1
    <2> QED
      BY <1>1, <2>1, <2>2, SameLength
  <1> QED
    BY <1>4, <1>5, <1>6 DEF f, e, U

LEMMA MaskedAppend ==
  ASSUME NEW S, NEW T, NEW F, Fun(F, S, Seq(T)), NEW t \in Seq(S), NEW x \in S,
         NEW D, NEW E, \A a \in 1..Len(t) : a \in D <=> a \in E
  PROVE  Flatten(F, Append(t, x), E)
           = Flatten(F, t, D) \o (IF Len(t) + 1 \in E THEN <<>> ELSE F[x])
  <1> DEFINE u == Append(t, x)
             f == Masked(F, t, D)
             y == IF Len(t) + 1 \in E THEN <<>> ELSE F[x]
             h == Masked(F, u, E)
             g == Append(f, y)
             U == Seq(T)
  <1>1. /\ u \in Seq(S) /\ Len(u) = Len(t) + 1 /\ Len(t) \in Nat /\ u[Len(t) + 1] = x
        /\ \A a \in 1..Len(t) : u[a] = t[a]
    BY AppendProperties, LenProperties
  <1> HIDE DEF u
  <1>2. /\ f \in Seq(U) /\ Len(f) = Len(t)
        /\ \A b \in 1..Len(t) : f[b] = IF b \in D THEN <<>> ELSE F[t[b]]
    BY MaskedType
  <1>3. /\ h \in Seq(U) /\ Len(h) = Len(u)
        /\ \A b \in 1..Len(u) : h[b] = IF b \in E THEN <<>> ELSE F[u[b]]
    BY <1>1, MaskedType
  <1>4. y \in U
    <2>1. F[x] \in Seq(T)
      BY DEF Fun
    <2>2. <<>> \in Seq(T)
      OBVIOUS
    <2> QED
      BY <2>1, <2>2
  <1>5. y = IF Len(t) + 1 \in E THEN <<>> ELSE F[x]
    OBVIOUS
  <1> HIDE DEF f, h, y
  <1>6. /\ g \in Seq(U) /\ Len(g) = Len(t) + 1 /\ g[Len(t) + 1] = y
        /\ \A b \in 1..Len(t) : g[b] = f[b]
    <2> HIDE DEF U
    <2>1. f \in Seq(U) /\ y \in U /\ Len(f) = Len(t)
      BY <1>2, <1>4
    <2>2. /\ Append(f, y) \in Seq(U) /\ Len(Append(f, y)) = Len(f) + 1
          /\ Append(f, y)[Len(f) + 1] = y
          /\ \A b \in 1..Len(f) : Append(f, y)[b] = f[b]
      BY <2>1, AppendProperties
    <2> QED
      BY <2>1, <2>2
  <1> HIDE DEF g, U
  <1>7. h = g
    <2>1. ASSUME NEW b \in 1..(Len(t) + 1) PROVE h[b] = g[b]
      <3>1. CASE b \in 1..Len(t)
        BY <1>1, <1>2, <1>3, <1>6, <3>1
      <3>2. CASE b = Len(t) + 1
        BY <1>1, <1>3, <1>5, <1>6, <3>2
      <3> QED
        BY <1>1, <3>1, <3>2
    <2>2. Len(h) = Len(g) /\ Len(h) = Len(t) + 1
      BY <1>1, <1>3, <1>6
    <2> QED
      BY <1>3, <1>6, <2>1, <2>2, SeqEqual
  <1>8. FlattenSeq(Append(f, y)) = FlattenSeq(f) \o y
    BY <1>2, <1>4, FlattenAppend DEF U
  <1> QED
    BY <1>7, <1>8 DEF f, h, y, u, g, Flatten

LEMMA FlattenMaskedType ==
  ASSUME NEW S, NEW T, NEW F, Fun(F, S, Seq(T)), NEW t \in Seq(S), NEW D
  PROVE  Flatten(F, t, D) \in Seq(T)
  <1>1. Masked(F, t, D) \in Seq(Seq(T))
    BY MaskedType
  <1> QED
    BY <1>1, FlattenType DEF Flatten

(* The last element of t is the last one of s, or was left out.                *)
LEMMA SubLast ==
  ASSUME NEW S, NEW t \in Seq(S), NEW x \in S, NEW s \in Seq(S), NEW G, Sub(s, Append(t, x), G)
  PROVE  \/ x \in G /\ Sub(s, t, G)
         \/ \E r \in Seq(S) : s = Append(r, x) /\ Sub(r, t, G)
  <1> DEFINE u == Append(t, x)
             z == Len(t) + 1
             m == Len(s)
  <1>1. /\ Len(u) = z /\ Len(t) \in Nat /\ u[z] = x /\ m \in Nat
        /\ \A a \in 1..Len(t) : u[a] = t[a]
    BY AppendProperties, LenProperties
  <1>2. PICK f \in [1..m -> 1..Len(u)] :
            /\ \A i, j \in 1..m : i < j => f[i] < f[j]
            /\ \A i \in 1..m : s[i] = u[f[i]]
            /\ \A j \in 1..Len(u) : u[j] \in G \/ \E i \in 1..m : f[i] = j
    BY DEF Sub
  <1> HIDE DEF u
  <1>3. CASE \E i \in 1..m : f[i] = z
    <2>1. PICK k \in 1..m : f[k] = z
      BY <1>3
    <2>2. k = m
      <3>1. m \in 1..m /\ f[m] \in 1..z
        BY <1>1
      <3>2. k < m => FALSE
        BY <1>1, <1>2, <2>1, <3>1
      <3> QED
        BY <1>1, <3>2
    <2> DEFINE r == SubSeq(s, 1, m - 1)
               g == [i \in 1..(m - 1) |-> f[i]]
    <2>3. /\ r \in Seq(S) /\ Len(r) = m - 1
          /\ \A i \in 1..(m - 1) : r[i] = s[i]
      <3> DEFINE l == m - 1
      <3>1. l \in Nat /\ \A i \in 1..l : s[i] \in S
        BY <1>1, <2>2, ElementOfSeq
      <3> HIDE DEF l
      <3>2. /\ SubSeq(s, 1, l) \in Seq(S)
            /\ Len(SubSeq(s, 1, l)) = IF 1 <= l THEN l - 1 + 1 ELSE 0
            /\ \A i \in 1..(l - 1 + 1) : SubSeq(s, 1, l)[i] = s[1 + i - 1]
        BY <3>1, SubSeqProperties
      <3>3. Len(SubSeq(s, 1, l)) = l /\ \A i \in 1..l : SubSeq(s, 1, l)[i] = s[i]
        BY <3>1, <3>2
      <3> QED
        BY <3>2, <3>3 DEF l
    <2>4. s = Append(r, x)
      <3>1. s[m] = x
        BY <1>1, <1>2, <2>1, <2>2
      <3>2. /\ Append(r, x) \in Seq(S) /\ Len(Append(r, x)) = m
            /\ Append(r, x)[m] = x
            /\ \A i \in 1..(m - 1) : Append(r, x)[i] = r[i]
        <4> HIDE DEF r
        <4>1. /\ Append(r, x) \in Seq(S) /\ Len(Append(r, x)) = Len(r) + 1
              /\ Append(r, x)[Len(r) + 1] = x
              /\ \A i \in 1..Len(r) : Append(r, x)[i] = r[i]
          BY <2>3, AppendProperties
        <4>2. Len(r) + 1 = m
          BY <1>1, <2>3
        <4> QED
          BY <2>3, <4>1, <4>2
      <3> HIDE DEF r
      <3>3. ASSUME NEW i \in 1..m PROVE s[i] = Append(r, x)[i]
        BY <1>1, <2>3, <3>1, <3>2
      <3> QED
        BY <3>2, <3>3, SeqEqual
    <2>5. /\ \A i \in 1..(m - 1) : i \in 1..m /\ i < m
          /\ \A i \in 1..m : i # m => i \in 1..(m - 1)
      BY <1>1
    <2>6. \A i \in 1..(m - 1) : f[i] \in 1..Len(t)
      <3> SUFFICES ASSUME NEW i \in 1..(m - 1) PROVE f[i] \in 1..Len(t)
        OBVIOUS
      <3>1. i \in 1..m /\ i < m
        BY <2>5
      <3>2. f[i] \in 1..z /\ f[i] < z
        BY <1>1, <1>2, <2>1, <2>2, <3>1
      <3> QED
        BY <1>1, <3>2
    <2>7. g \in [1..Len(r) -> 1..Len(t)] /\ \A i \in 1..(m - 1) : g[i] = f[i]
      BY <2>3, <2>6
    <2> HIDE DEF g, r
    <2>8. ASSUME NEW j \in 1..Len(t), t[j] \notin G PROVE \E i \in 1..Len(r) : g[i] = j
      <3>1. j \in 1..Len(u) /\ u[j] \notin G /\ j # z
        BY <1>1, <2>8
      <3>2. PICK i \in 1..m : f[i] = j
        BY <1>2, <3>1
      <3>3. i # m
        BY <2>1, <2>2, <3>1, <3>2
      <3> QED
        BY <2>3, <2>5, <2>7, <3>2, <3>3
    <2>9. \A i, j \in 1..Len(r) : i < j => g[i] < g[j]
      BY <1>2, <2>3, <2>5, <2>7
    <2>10. ASSUME NEW i \in 1..Len(r) PROVE r[i] = t[g[i]]
      <3>1. i \in 1..(m - 1) /\ i \in 1..m
        BY <2>3, <2>5
      <3>2. r[i] = u[f[i]]
        BY <1>2, <2>3, <3>1
      <3>3. f[i] \in 1..Len(t) /\ g[i] = f[i]
        BY <2>6, <2>7, <3>1
      <3>4. u[f[i]] = t[f[i]]
        BY <1>1, <3>3
      <3> QED
        BY <3>2, <3>3, <3>4
    <2>11. Sub(r, t, G)
      BY <2>7, <2>8, <2>9, <2>10 DEF Sub
    <2> QED
      BY <2>3, <2>4, <2>11
  <1>4. CASE ~ \E i \in 1..m : f[i] = z
    <2>1. x \in G
      <3>1. z \in 1..Len(u)
        BY <1>1
      <3> QED
        BY <1>1, <1>2, <1>4, <3>1
    <2>2. f \in [1..m -> 1..Len(t)]
      <3>1. \A i \in 1..m : f[i] \in 1..z /\ f[i] # z
        BY <1>1, <1>4
      <3>2. \A i \in 1..m : f[i] \in 1..Len(t)
        BY <1>1, <3>1
      <3> QED
        BY <3>2
    <2>3. \A j \in 1..Len(t) : j \in 1..Len(u) /\ u[j] = t[j]
      BY <1>1
    <2>4. \A j \in 1..Len(t) : t[j] \in G \/ \E i \in 1..m : f[i] = j
      BY <1>2, <2>3
    <2>5. \A i \in 1..m : s[i] = t[f[i]]
      BY <1>2, <2>2, <2>3
    <2>6. Sub(s, t, G)
      BY <1>2, <2>2, <2>4, <2>5 DEF Sub
    <2> QED
      BY <2>1, <2>6
  <1> QED
    BY <1>3, <1>4

(* Leaving elements out is masking positions.                                  *)
Yields(F, s, t, G) ==
    \E D \in SUBSET (1..Len(t)) : (\A a \in D : t[a] \in G) /\ FlatMap(F, s) = Flatten(F, t, D)

LEMMA SubYields ==
  ASSUME NEW S, NEW T, NEW F, Fun(F, S, Seq(T)), NEW G,
         NEW s \in Seq(S), NEW t \in Seq(S), Sub(s, t, G)
  PROVE  Yields(F, s, t, G)
  <1> DEFINE P == {u \in Seq(S) : \A r \in Seq(S) : Sub(r, u, G) => Yields(F, r, u, G)}
  <1>1. <<>> \in P
    <2> DEFINE e == <<>>
    <2>0. e \in Seq(S)
      OBVIOUS
    <2>1. Len(e) = 0 /\ FlatMap(F, e) = e
      BY FlatMapEmpty
    <2>2. Masked(F, e, {}) = e
      <3> DEFINE f == Masked(F, e, {})
      <3>1. f \in Seq(Seq(T)) /\ Len(f) = Len(e)
        <4> HIDE DEF e
        <4>1. /\ f \in Seq(Seq(T)) /\ Len(f) = Len(e)
              /\ \A b \in 1..Len(e) : f[b] = IF b \in {} THEN <<>> ELSE F[e[b]]
          BY <2>0, MaskedType
        <4> HIDE DEF f
        <4> QED
          BY <4>1
      <3> HIDE DEF f
      <3>2. f = <<>>
        BY <2>1, <3>1, EmptySeq
      <3> QED
        BY <3>2 DEF f
    <2>3. Flatten(F, e, {}) = e
      BY <2>2, FlattenEmpty DEF Flatten
    <2> HIDE DEF e
    <2>4. ASSUME NEW r \in Seq(S), Sub(r, e, G) PROVE Yields(F, r, e, G)
      <3>1. PICK f : f \in [1..Len(r) -> 1..Len(e)]
        BY <2>4 DEF Sub
      <3>2. Len(r) = 0
        <4>1. Len(r) \in Nat
          BY LenProperties
        <4>2. ASSUME NEW i \in 1..Len(r) PROVE FALSE
          BY <2>1, <3>1
        <4> QED
          BY <4>1, <4>2
      <3>3. r = e
        BY <3>2, EmptySeq DEF e
      <3>4. {} \in SUBSET (1..Len(e)) /\ \A a \in {} : e[a] \in G
        OBVIOUS
      <3> QED
        BY <2>1, <2>3, <3>3, <3>4 DEF Yields
    <2>5. e \in P
      BY <2>0, <2>4
    <2> QED
      BY <2>5 DEF e
  <1>2. ASSUME NEW u \in Seq(S), NEW x \in S, u \in P PROVE Append(u, x) \in P
    <2> DEFINE v == Append(u, x)
    <2>1. /\ v \in Seq(S) /\ Len(v) = Len(u) + 1 /\ v[Len(u) + 1] = x /\ Len(u) \in Nat
          /\ \A a \in 1..Len(u) : v[a] = u[a]
      BY AppendProperties, LenProperties
    <2>2. ASSUME NEW r \in Seq(S), Sub(r, v, G) PROVE Yields(F, r, v, G)
      <3>1. ASSUME NEW q \in Seq(S), r = Append(q, x), Sub(q, u, G) PROVE Yields(F, r, v, G)
        <4>1. PICK D \in SUBSET (1..Len(u)) :
                  (\A a \in D : u[a] \in G) /\ FlatMap(F, q) = Flatten(F, u, D)
          BY <1>2, <3>1 DEF Yields
        <4>2. Flatten(F, v, D) = Flatten(F, u, D) \o (IF Len(u) + 1 \in D THEN <<>> ELSE F[x])
          BY MaskedAppend
        <4>3. Len(u) + 1 \notin D
          BY <2>1
        <4>4. FlatMap(F, r) = FlatMap(F, q) \o F[x]
          BY <3>1, FlatMapAppend
        <4>5. FlatMap(F, r) = Flatten(F, v, D)
          BY <4>1, <4>2, <4>3, <4>4
        <4>6. D \in SUBSET (1..Len(v)) /\ \A a \in D : v[a] \in G
          <5> HIDE DEF v
          <5> QED
            BY <2>1, <4>1
        <4> QED
          BY <4>5, <4>6 DEF Yields
      <3>2. ASSUME x \in G, Sub(r, u, G) PROVE Yields(F, r, v, G)
        <4>1. PICK D \in SUBSET (1..Len(u)) :
                  (\A a \in D : u[a] \in G) /\ FlatMap(F, r) = Flatten(F, u, D)
          BY <1>2, <3>2 DEF Yields
        <4> DEFINE E == D \cup {Len(u) + 1}
        <4>2. \A a \in 1..Len(u) : a \in D <=> a \in E
          BY <2>1
        <4>3. Flatten(F, v, E) = Flatten(F, u, D) \o (IF Len(u) + 1 \in E THEN <<>> ELSE F[x])
          <5> HIDE DEF E
          <5> QED
            BY <4>2, MaskedAppend
        <4>4. Flatten(F, v, E) = Flatten(F, u, D)
          <5>1. Flatten(F, u, D) \in Seq(T)
            BY FlattenMaskedType
          <5>2. Flatten(F, u, D) \o <<>> = Flatten(F, u, D)
            BY <5>1, ConcatEmptySeq
          <5> QED
            BY <4>3, <5>2
        <4>5. E \in SUBSET (1..Len(v)) /\ \A a \in E : v[a] \in G
          <5> HIDE DEF v
          <5>1. \A a \in E : a \in 1..Len(v) /\ ((a \in 1..Len(u) /\ a \in D) \/ a = Len(u) + 1)
            BY <2>1
          <5>2. \A a \in E : v[a] \in G
            BY <2>1, <3>2, <4>1, <5>1
          <5>3. E \subseteq 1..Len(v)
            <6> HIDE DEF E
            <6> QED
              BY <5>1
          <5> QED
            BY <5>2, <5>3
        <4> QED
          BY <4>1, <4>4, <4>5 DEF Yields
      <3> QED
        BY <2>2, <3>1, <3>2, SubLast
    <2> QED
      BY <2>1, <2>2
  <1> HIDE DEF P
  <1>3. Seq(S) \subseteq P
    BY <1>1, <1>2, SeqInduct
  <1> QED
    BY <1>3 DEF P
--------------------------------------------------------------------------------
(* What the constants are to the lemmas: functions on paths.                   *)
Documents == Docs \cup {Bad}
YieldOf   == [p \in Paths |-> Yield(p)]
Kept(G)   == [p \in Paths |-> IF p \in G THEN <<>> ELSE <<p>>]
Leaves(s) == FlatMap(Walk, s)
Gives(s)  == FlatMap(YieldOf, s)

LEMMA WalkFun == Fun(Walk, Paths, Seq(Paths))
  BY LoaderAssumption DEF LoaderAssumption, Fun

LEMMA StreamType ==
  ASSUME NEW p \in Files \cup Links PROVE Stream(p) \in Seq(Documents)
  <1>1. CASE p \in Links
    <2>1. Bad \in Documents
      BY DEF Documents
    <2> HIDE DEF Documents
    <2>2. <<Bad>> \in Seq(Documents)
      BY <2>1
    <2> QED
      BY <1>1, <2>2 DEF Stream
  <1>2. CASE p \notin Links
    <2> DEFINE D == Docs
    <2>1. Contents[p] \in Seq(D)
      BY <1>2, LoaderAssumption DEF LoaderAssumption
    <2>2. D \subseteq Documents
      BY DEF Documents
    <2> HIDE DEF D
    <2>3. Contents[p] \in Seq(Documents)
      BY <2>1, <2>2
    <2> QED
      BY <1>2, <2>3 DEF Stream
  <1> QED
    BY <1>1, <1>2

LEMMA YieldFun == Fun(YieldOf, Paths, Seq(Documents))
  <1>1. ASSUME NEW p \in Paths PROVE Yield(p) \in Seq(Documents)
    <2>1. CASE p \in Dirs
      <3> HIDE DEF Documents
      <3>1. <<>> \in Seq(Documents)
        OBVIOUS
      <3> QED
        BY <2>1, <3>1 DEF Yield
    <2>2. CASE p \notin Dirs
      BY <2>2, StreamType DEF Yield, Paths
    <2> QED
      BY <2>1, <2>2
  <1> QED
    BY <1>1 DEF Fun, YieldOf

LEMMA KeptFun == ASSUME NEW G PROVE Fun(Kept(G), Paths, Seq(Paths))
  <1> DEFINE P == Paths
  <1>1. ASSUME NEW p \in P PROVE (IF p \in G THEN <<>> ELSE <<p>>) \in Seq(P)
    <2> HIDE DEF P
    <2>1. <<>> \in Seq(P) /\ <<p>> \in Seq(P)
      OBVIOUS
    <2> QED
      BY <2>1
  <1> QED
    BY <1>1 DEF Fun, Kept

LEMMA EntriesType == ASSUME NEW p PROVE Entries(p) \in Seq(Paths)
  <1> DEFINE P == Paths
  <1>1. <<>> \in Seq(P)
    <2> HIDE DEF P
    <2> QED OBVIOUS
  <1> QED
    BY <1>1, LoaderAssumption DEF LoaderAssumption, Entries

LEMMA UnderLeaves == ASSUME NEW p PROVE Under(p) = Leaves(Entries(p)) /\ Under(p) \in Seq(Paths)
  <1>1. Under(p) = Leaves(Entries(p))
    BY DEF Under, Leaves, FlatMap, Map
  <1>2. Leaves(Entries(p)) \in Seq(Paths)
    BY EntriesType, WalkFun, FlatMapType DEF Leaves
  <1> QED
    BY <1>1, <1>2

LEMMA LeavesFacts ==
  ASSUME NEW s \in Seq(Paths), NEW t \in Seq(Paths)
  PROVE  Leaves(s) \in Seq(Paths) /\ Leaves(s \o t) = Leaves(s) \o Leaves(t)
  <1>1. Leaves(s) \in Seq(Paths)
    BY WalkFun, FlatMapType DEF Leaves
  <1>2. Leaves(s \o t) = Leaves(s) \o Leaves(t)
    BY WalkFun, FlatMapConcat DEF Leaves
  <1> QED
    BY <1>1, <1>2

LEMMA GivesFacts ==
  ASSUME NEW s \in Seq(Paths), NEW t \in Seq(Paths)
  PROVE  Gives(s) \in Seq(Documents) /\ Gives(s \o t) = Gives(s) \o Gives(t)
  <1>1. Gives(s) \in Seq(Documents)
    BY YieldFun, FlatMapType DEF Gives
  <1>2. Gives(s \o t) = Gives(s) \o Gives(t)
    BY YieldFun, FlatMapConcat DEF Gives
  <1> QED
    BY <1>1, <1>2

LEMMA OneLeaf ==
  ASSUME NEW p \in Paths
  PROVE  /\ Leaves(<<p>>) = Walk[p] /\ Gives(<<p>>) = Yield(p)
         /\ Walk[p] = <<p>> \o Under(p) /\ Walk[p] \in Seq(Paths) /\ Yield(p) \in Seq(Documents)
  <1>1. Leaves(<<p>>) = Walk[p]
    BY WalkFun, FlatMapOne DEF Leaves
  <1>2. Gives(<<p>>) = YieldOf[p]
    BY YieldFun, FlatMapOne DEF Gives
  <1>3. YieldOf[p] = Yield(p)
    BY DEF YieldOf
  <1>4. YieldOf[p] \in Seq(Documents)
    BY YieldFun DEF Fun
  <1>5. Walk[p] = <<p>> \o Under(p) /\ Walk[p] \in Seq(Paths)
    BY LoaderAssumption DEF LoaderAssumption
  <1> QED
    BY <1>1, <1>2, <1>3, <1>4, <1>5

LEMMA NoLeaf == Leaves(<<>>) = <<>> /\ Gives(<<>>) = <<>>
  BY WalkFun, YieldFun, FlatMapEmpty DEF Leaves, Gives

LEMMA FileAlone ==
  ASSUME NEW p \in Paths, p \notin Dirs PROVE Under(p) = <<>> /\ Walk[p] = <<p>>
  <1>1. Under(p) = <<>>
    BY NoLeaf, UnderLeaves DEF Entries
  <1>2. <<p>> \in Seq(Paths)
    OBVIOUS
  <1>3. <<p>> \o <<>> = <<p>>
    BY <1>2, ConcatEmptySeq
  <1> QED
    BY <1>1, <1>3, OneLeaf

(* Removing files and links from a listing only leaves them out of the walk.   *)
LEMMA KeptWalk ==
  ASSUME NEW G \in SUBSET Volatile, NEW s \in Seq(Paths)
  PROVE  FlatMap(Kept(G), s) \in Seq(Paths) /\ Sub(Leaves(FlatMap(Kept(G), s)), Leaves(s), G)
  <1> DEFINE K(t) == FlatMap(Kept(G), t)
             P == {t \in Seq(Paths) : Sub(Leaves(K(t)), Leaves(t), G)}
  <1>0. ASSUME NEW t \in Seq(Paths), NEW u \in Seq(Paths)
        PROVE  K(t) \in Seq(Paths) /\ K(t \o u) = K(t) \o K(u)
    <2> DEFINE f == Kept(G)
    <2>1. Fun(f, Paths, Seq(Paths))
      BY KeptFun
    <2> HIDE DEF f
    <2>2. FlatMap(f, t) \in Seq(Paths)
      BY <2>1, FlatMapType
    <2>3. FlatMap(f, t \o u) = FlatMap(f, t) \o FlatMap(f, u)
      BY <2>1, FlatMapConcat
    <2> QED
      BY <2>2, <2>3 DEF f
  <1>1. <<>> \in P
    <2> DEFINE e == <<>>
    <2>1. e \in Seq(Paths) /\ Leaves(e) = e /\ K(e) = e
      BY NoLeaf, KeptFun, FlatMapEmpty
    <2> HIDE DEF e, K
    <2>2. Sub(e, e, G)
      BY <2>1, SubSame
    <2>3. e \in P
      BY <2>1, <2>2
    <2> QED
      BY <2>3 DEF e
  <1>2. ASSUME NEW t \in Seq(Paths), NEW x \in Paths, t \in P PROVE Append(t, x) \in P
    <2> DEFINE e == <<x>>
               o == <<>>
    <2>1. e \in Seq(Paths) /\ Append(t, x) = t \o e /\ o \in Seq(Paths)
      BY AppendIsConcat
    <2>2. Leaves(e) = Walk[x] /\ Leaves(e) \in Seq(Paths)
      BY OneLeaf
    <2>3. K(e) = IF x \in G THEN o ELSE e
      <3> DEFINE f == Kept(G)
      <3>1. Fun(f, Paths, Seq(Paths))
        BY KeptFun
      <3>2. f[x] = IF x \in G THEN o ELSE e
        BY DEF Kept
      <3> HIDE DEF f, o
      <3>3. FlatMap(f, <<x>>) = f[x]
        BY <3>1, FlatMapOne
      <3> QED
        BY <3>2, <3>3 DEF f
    <2>4. Leaves(o) = o
      BY NoLeaf
    <2>5. x \in G => Walk[x] = e /\ Sub(o, e, G)
      <3>1. x \in G => x \notin Dirs
        BY LoaderAssumption DEF LoaderAssumption
      <3> QED
        BY <3>1, FileAlone, SubOut
    <2> HIDE DEF e, o, K
    <2>6. Sub(Leaves(K(e)), Leaves(e), G)
      <3>1. CASE x \in G
        BY <2>2, <2>3, <2>4, <2>5, <3>1
      <3>2. CASE x \notin G
        BY <2>2, <2>3, <3>2, SubSame
      <3> QED
        BY <3>1, <3>2
    <2>7. Leaves(K(t \o e)) = Leaves(K(t)) \o Leaves(K(e)) /\ Leaves(t \o e) = Leaves(t) \o Leaves(e)
      <3>1. K(t) \in Seq(Paths) /\ K(e) \in Seq(Paths) /\ K(t \o e) = K(t) \o K(e)
        BY <1>0, <2>1
      <3>2. Leaves(K(t) \o K(e)) = Leaves(K(t)) \o Leaves(K(e))
        BY <3>1, LeavesFacts
      <3>3. Leaves(t \o e) = Leaves(t) \o Leaves(e)
        BY <2>1, LeavesFacts
      <3> QED
        BY <3>1, <3>2, <3>3
    <2>8. /\ Leaves(K(t)) \in Seq(Paths) /\ Leaves(K(e)) \in Seq(Paths)
          /\ Leaves(t) \in Seq(Paths) /\ Leaves(e) \in Seq(Paths)
      BY <1>0, <2>1, LeavesFacts
    <2>9. Sub(Leaves(K(t)), Leaves(t), G)
      BY <1>2
    <2>10. Sub(Leaves(K(t \o e)), Leaves(t \o e), G)
      BY <2>6, <2>7, <2>8, <2>9, SubConcat
    <2>11. t \o e \in Seq(Paths)
      BY <2>1, ConcatProperties
    <2> QED
      BY <2>1, <2>10, <2>11
  <1> HIDE DEF P
  <1>3. Seq(Paths) \subseteq P
    BY <1>1, <1>2, SeqInduct
  <1> QED
    BY <1>0, <1>3 DEF P

LEMMA RemainingKept ==
  ASSUME NEW s \in Seq(Paths), NEW G, \A a \in DOMAIN s : s[a] \in gone <=> s[a] \in G
  PROVE  Remaining(s) = FlatMap(Kept(G), s)
  <1>1. \A a \in DOMAIN s : s[a] \in Paths
    BY ElementOfSeq, LenProperties
  <1>2. \A a \in DOMAIN s : Kept(G)[s[a]] = IF s[a] \in gone THEN <<>> ELSE <<s[a]>>
    BY <1>1 DEF Kept
  <1>3. Map(Kept(G), s) = [a \in DOMAIN s |-> IF s[a] \in gone THEN <<>> ELSE <<s[a]>>]
    <2> DEFINE K == Kept(G)
    <2> HIDE DEF K
    <2> QED
      BY <1>2 DEF Map, K
  <1> QED
    BY <1>3 DEF Remaining, FlatMap

(* What the argument as[k] has contributed once it is loaded, and while pend   *)
(* of it is left to walk, when the paths of G may have been missed.            *)
StdinShare(as, k) == IF \E j \in 1..(k - 1) : as[j] = Stdin THEN <<>> ELSE Contents[Stdin]

Loaded(as, G, k, d) ==
    IF as[k] = Stdin THEN d = StdinShare(as, k)
    ELSE \E seen \in Seq(Paths) :
             Sub(seen, Under(as[k]), G) /\ d = Yield(as[k]) \o Gives(seen)

InWalk(as, G, pend, k, d) ==
    IF as[k] = Stdin THEN pend = <<>> /\ d = StdinShare(as, k)
    ELSE \/ pend = <<as[k]>> /\ d = <<>>
         \/ \E seen \in Seq(Paths) :
                Sub(seen \o Leaves(pend), Under(as[k]), G) /\ d = Yield(as[k]) \o Gives(seen)

LEMMA ArgumentPath ==
  ASSUME NEW as \in Arguments, NEW k \in 1..Len(as)
  PROVE  as[k] # Stdin => as[k] \in Paths
  <1>1. as \in Seq(Paths \cup {Stdin})
    BY LoaderAssumption DEF LoaderAssumption
  <1> DEFINE P == Paths \cup {Stdin}
  <1>2. as[k] \in P
    <2> HIDE DEF P
    <2>1. as \in Seq(P)
      BY <1>1 DEF P
    <2> QED
      BY <2>1, ElementOfSeq
  <1> QED
    BY <1>2

LEMMA ConcatAt ==
  ASSUME NEW S, NEW s \in Seq(S), NEW t \in Seq(S)
  PROVE  /\ s \o t \in Seq(S) /\ Len(s \o t) = Len(s) + Len(t)
         /\ Len(s) \in Nat /\ Len(t) \in Nat
         /\ \A i \in 1..Len(s) : (s \o t)[i] = s[i]
         /\ \A i \in 1..Len(t) : (s \o t)[Len(s) + i] = t[i]
  <1>1. Len(s) \in Nat /\ Len(t) \in Nat
    BY LenProperties
  <1>2. /\ s \o t \in Seq(S) /\ Len(s \o t) = Len(s) + Len(t)
        /\ \A i \in 1..Len(s) + Len(t) :
               (s \o t)[i] = IF i <= Len(s) THEN s[i] ELSE t[i - Len(s)]
    BY ConcatProperties
  <1>3. \A i \in 1..Len(s) : i \in 1..Len(s) + Len(t) /\ i <= Len(s)
    BY <1>1
  <1>4. \A i \in 1..Len(t) : /\ Len(s) + i \in 1..Len(s) + Len(t)
                             /\ ~(Len(s) + i <= Len(s)) /\ (Len(s) + i) - Len(s) = i
    BY <1>1
  <1>5. \A i \in 1..Len(s) : (s \o t)[i] = s[i]
    BY <1>2, <1>3
  <1>6. ASSUME NEW i \in 1..Len(t) PROVE (s \o t)[Len(s) + i] = t[i]
    <2>1. (s \o t)[Len(s) + i] = t[(Len(s) + i) - Len(s)]
      BY <1>2, <1>4
    <2> QED
      BY <1>4, <2>1
  <1> QED
    BY <1>1, <1>2, <1>5, <1>6

LEMMA ConsAt ==
  ASSUME NEW S, NEW x \in S, NEW u \in Seq(S)
  PROVE  /\ <<x>> \o u \in Seq(S) /\ Len(<<x>> \o u) = Len(u) + 1 /\ Len(u) \in Nat
         /\ (<<x>> \o u)[1] = x
         /\ \A i \in 1..Len(u) : (<<x>> \o u)[i + 1] = u[i]
  <1> DEFINE e == <<x>>
  <1>1. e \in Seq(S)
    OBVIOUS
  <1>2. Len(e) = 1 /\ e[1] = x
    OBVIOUS
  <1> HIDE DEF e
  <1>3. /\ e \o u \in Seq(S) /\ Len(e \o u) = Len(e) + Len(u)
        /\ Len(e) \in Nat /\ Len(u) \in Nat
        /\ \A i \in 1..Len(e) : (e \o u)[i] = e[i]
        /\ \A i \in 1..Len(u) : (e \o u)[Len(e) + i] = u[i]
    BY <1>1, ConcatAt
  <1> DEFINE v == e \o u
  <1> HIDE DEF v
  <1>4. /\ v \in Seq(S) /\ Len(v) = 1 + Len(u) /\ v[1] = x /\ Len(u) \in Nat
        /\ \A i \in 1..Len(u) : v[1 + i] = u[i]
    BY <1>2, <1>3 DEF v
  <1>5. /\ v \in Seq(S) /\ Len(v) = Len(u) + 1 /\ v[1] = x /\ Len(u) \in Nat
        /\ \A i \in 1..Len(u) : v[i + 1] = u[i]
    <2>1. \A i \in 1..Len(u) : i + 1 = 1 + i
      BY <1>4
    <2>2. Len(u) + 1 = 1 + Len(u)
      BY <1>4
    <2>3. \A i \in 1..Len(u) : v[i + 1] = u[i]
      BY <1>4, <2>1
    <2> QED
      BY <1>4, <2>2, <2>3
  <1> QED
    BY <1>5 DEF v, e

LEMMA FirstOf ==
  ASSUME NEW S, NEW pend \in Seq(S), pend # <<>>
  PROVE  /\ Head(pend) \in S /\ Tail(pend) \in Seq(S) /\ pend = <<Head(pend)>> \o Tail(pend)
         /\ <<Head(pend)>> \in Seq(S)
  <1>1. Head(pend) \in S /\ Tail(pend) \in Seq(S)
    BY HeadTailProperties
  <1> DEFINE e == <<Head(pend)>>
             u == Tail(pend)
             v == e \o u
  <1>2. /\ v \in Seq(S) /\ Len(v) = Len(u) + 1 /\ v[1] = Head(pend)
        /\ \A i \in 1..Len(u) : v[i + 1] = u[i]
    BY <1>1, ConsAt
  <1>3. Len(pend) \in Nat /\ Len(pend) # 0 /\ Head(pend) = pend[1]
    BY EmptySeq, LenProperties
  <1>4. Len(u) = Len(pend) - 1 /\ \A i \in 1..Len(u) : u[i] = pend[i + 1]
    BY HeadTailProperties
  <1>5. e \in Seq(S)
    BY <1>1
  <1> HIDE DEF e, u, v
  <1>6. Len(v) = Len(pend)
    BY <1>2, <1>3, <1>4
  <1>7. ASSUME NEW i \in 1..Len(pend) PROVE pend[i] = v[i]
    <2>1. CASE i = 1
      BY <1>2, <1>3, <2>1
    <2>2. CASE i # 1
      <3>1. i - 1 \in 1..Len(u) /\ (i - 1) + 1 = i
        BY <1>3, <1>4, <2>2
      <3>2. v[(i - 1) + 1] = u[i - 1]
        BY <1>2, <3>1
      <3>3. u[i - 1] = pend[(i - 1) + 1]
        BY <1>4, <3>1
      <3> QED
        BY <3>1, <3>2, <3>3
    <2> QED
      BY <2>1, <2>2
  <1>8. pend = v
    BY <1>2, <1>6, <1>7, SeqEqual
  <1> QED
    BY <1>1, <1>5, <1>8 DEF e, u, v

LEMMA SubGrows ==
  ASSUME NEW s, NEW t, NEW G, NEW H, G \subseteq H, Sub(s, t, G) PROVE Sub(s, t, H)
  BY DEF Sub

LEMMA Vanishing ==
  ASSUME NEW as, NEW k, NEW d, NEW pend, NEW G, NEW H, G \subseteq H
  PROVE  /\ Loaded(as, G, k, d) => Loaded(as, H, k, d)
         /\ InWalk(as, G, pend, k, d) => InWalk(as, H, pend, k, d)
  BY SubGrows DEF Loaded, InWalk

LEMMA WalkEnds ==
  ASSUME NEW as, NEW k, NEW d, NEW G, InWalk(as, G, <<>>, k, d)
  PROVE  Loaded(as, G, k, d)
  <1>1. CASE as[k] = Stdin
    BY <1>1 DEF InWalk, Loaded
  <1>2. CASE as[k] # Stdin
    <2>1. <<>> # <<as[k]>>
      OBVIOUS
    <2>2. PICK seen \in Seq(Paths) :
              Sub(seen \o Leaves(<<>>), Under(as[k]), G) /\ d = Yield(as[k]) \o Gives(seen)
      BY <1>2, <2>1 DEF InWalk
    <2>3. seen \o Leaves(<<>>) = seen
      BY NoLeaf, ConcatEmptySeq
    <2> QED
      BY <1>2, <2>2, <2>3 DEF Loaded
  <1> QED
    BY <1>1, <1>2

(* What is left to walk is in the walk of the argument.                        *)
LEMMA StillInWalk ==
  ASSUME NEW as \in Arguments, NEW k \in 1..Len(as), NEW d, NEW G,
         NEW pend \in Seq(Paths), pend # <<>>, InWalk(as, G, pend, k, d)
  PROVE  as[k] # Stdin /\ \E a \in DOMAIN Walk[as[k]] : Walk[as[k]][a] = Head(pend)
  <1>1. as[k] # Stdin
    BY DEF InWalk
  <1>2. as[k] \in Paths
    BY <1>1, ArgumentPath
  <1> DEFINE p == as[k]
             w == Walk[p]
  <1>3. w \in Seq(Paths) /\ w = <<p>> \o Under(p) /\ Under(p) \in Seq(Paths)
    BY <1>2, OneLeaf, UnderLeaves
  <1>5. /\ DOMAIN w = 1..(1 + Len(Under(p))) /\ Len(Under(p)) \in Nat /\ w[1] = p
        /\ \A i \in 1..Len(Under(p)) : w[i + 1] = Under(p)[i]
    <2> DEFINE u == Under(p)
               v == <<p>> \o u
    <2> HIDE DEF w, u
    <2>0. u \in Seq(Paths)
      BY <1>3 DEF u
    <2>1. w = v
      BY <1>3 DEF u
    <2>2. /\ v \in Seq(Paths) /\ Len(v) = Len(u) + 1 /\ Len(u) \in Nat
          /\ v[1] = p /\ \A i \in 1..Len(u) : v[i + 1] = u[i]
      <3>1. p \in Paths
        BY <1>2
      <3> HIDE DEF p
      <3> QED
        BY <2>0, <3>1, ConsAt
    <2> HIDE DEF v
    <2>3. DOMAIN v = 1..Len(v) /\ Len(u) + 1 = 1 + Len(u)
      BY <2>2, LenProperties
    <2> QED
      BY <2>1, <2>2, <2>3 DEF u
  <1>6. CASE pend = <<p>>
    <2>0. Head(<<p>>) = p
      OBVIOUS
    <2>1. Head(pend) = p /\ 1 \in DOMAIN w
      <3> HIDE DEF p, w
      <3> QED
        BY <1>5, <1>6, <2>0
    <2> QED
      BY <1>1, <1>5, <2>1
  <1>7. CASE pend # <<p>>
    <2>1. PICK seen \in Seq(Paths) : Sub(seen \o Leaves(pend), Under(p), G)
      BY <1>1, <1>7 DEF InWalk
    <2> DEFINE s == seen \o Leaves(pend)
               h == Head(pend)
               t == Tail(pend)
    <2>2. /\ h \in Paths /\ t \in Seq(Paths) /\ pend = <<h>> \o t /\ <<h>> \in Seq(Paths)
      BY FirstOf
    <2>3. Leaves(pend) = Walk[h] \o Leaves(t) /\ Leaves(t) \in Seq(Paths)
      <3> HIDE DEF h, t
      <3>1. Leaves(<<h>> \o t) = Leaves(<<h>>) \o Leaves(t)
        BY <2>2, LeavesFacts
      <3> QED
        BY <2>2, <3>1, LeavesFacts, OneLeaf
    <2>4. Walk[h] = <<h>> \o Under(h) /\ Under(h) \in Seq(Paths)
      BY <2>2, OneLeaf, UnderLeaves
    <2>5. \E i \in 1..Len(s) : s[i] = h
      <3> DEFINE q == Walk[h]
                 v == Leaves(t)
                 y == q \o v
      <3>1. q \in Seq(Paths) /\ v \in Seq(Paths)
        BY <2>2, <2>3, OneLeaf
      <3>2. Len(q) >= 1 /\ q[1] = h
        <4> DEFINE z == <<h>> \o Under(h)
        <4>1. Len(z) = Len(Under(h)) + 1 /\ Len(Under(h)) \in Nat /\ z[1] = h
          <5> HIDE DEF h
          <5> QED
            BY <2>2, <2>4, ConsAt
        <4>2. q = z
          BY <2>4
        <4> HIDE DEF z, q
        <4> QED
          BY <4>1, <4>2
      <3> HIDE DEF q, v, h, t
      <3>3. y \in Seq(Paths) /\ Len(y) \in Nat /\ Len(y) >= 1 /\ y[1] = h
        <4>1. /\ y \in Seq(Paths) /\ Len(y) = Len(q) + Len(v) /\ Len(q) \in Nat /\ Len(v) \in Nat
              /\ \A i \in 1..Len(q) : y[i] = q[i]
          BY <3>1, ConcatAt
        <4> HIDE DEF y
        <4> QED
          BY <3>2, <4>1
      <3> HIDE DEF y
      <3>4. /\ Len(seen \o y) = Len(seen) + Len(y) /\ Len(seen) \in Nat
            /\ \A i \in 1..Len(y) : (seen \o y)[Len(seen) + i] = y[i]
        BY <3>3, ConcatAt
      <3>5. Len(seen) + 1 \in 1..Len(seen \o y) /\ (seen \o y)[Len(seen) + 1] = h
        BY <3>3, <3>4
      <3>6. s = seen \o y
        BY <2>3 DEF y, q, v
      <3> QED
        BY <3>5, <3>6
    <2>6. PICK i \in 1..Len(s) : s[i] = h
      BY <2>5
    <2> HIDE DEF s, h, t, w
    <2>7. PICK b \in 1..Len(Under(p)) : s[i] = Under(p)[b]
      BY <2>1 DEF Sub, s
    <2>8. b + 1 \in DOMAIN w /\ w[b + 1] = h
      <3> DEFINE u == Under(p)
      <3> HIDE DEF u
      <3>1. DOMAIN w = 1..(1 + Len(u)) /\ Len(u) \in Nat /\ \A j \in 1..Len(u) : w[j + 1] = u[j]
        BY <1>5 DEF u
      <3>2. b \in 1..Len(u) /\ u[b] = h
        BY <2>6, <2>7 DEF u
      <3> QED
        BY <3>1, <3>2
    <2> QED
      BY <1>1, <2>8 DEF h, w
  <1> QED
    BY <1>6, <1>7

LEMMA SoleOf ==
  ASSUME NEW S, NEW x \in S
  PROVE  Head(<<x>>) = x /\ Tail(<<x>>) = <<>> /\ <<x>> # <<>> /\ <<>> \in Seq(S) /\ <<x>> \in Seq(S)
  OBVIOUS

(* Visiting a directory and opening a file keep what is left to walk exact.    *)
LEMMA VisitStep ==
  ASSUME NEW as \in Arguments, NEW k \in 1..Len(as), NEW d, NEW G \in SUBSET Volatile,
         NEW pend \in Seq(Paths), pend # <<>>, InWalk(as, G, pend, k, d), Head(pend) \in Dirs
  PROVE  /\ FlatMap(Kept(G), Listing[Head(pend)]) \o Tail(pend) \in Seq(Paths)
         /\ InWalk(as, G, FlatMap(Kept(G), Listing[Head(pend)]) \o Tail(pend), k, d)
  <1> DEFINE p == as[k]
             h == Head(pend)
             t == Tail(pend)
             r == FlatMap(Kept(G), Listing[h])
             o == <<>>
  <1>1. p # Stdin /\ p \in Paths
    BY StillInWalk, ArgumentPath
  <1>2. /\ h \in Paths /\ t \in Seq(Paths) /\ pend = <<h>> \o t /\ <<h>> \in Seq(Paths)
    BY FirstOf
  <1>3. /\ Under(h) = Leaves(Listing[h]) /\ Under(h) \in Seq(Paths) /\ Listing[h] \in Seq(Paths)
        /\ Yield(h) = o
    BY UnderLeaves, EntriesType DEF Entries, Yield
  <1>4. r \in Seq(Paths) /\ Sub(Leaves(r), Under(h), G)
    BY <1>3, KeptWalk
  <1>5. o \in Seq(Paths) /\ Leaves(o) = o /\ Gives(o) = o
    BY NoLeaf
  <1>6. p = h => Yield(p) = o
    BY <1>3
  <1>7. pend = <<p>> => p = h /\ t = o
    BY SoleOf
  <1>8. /\ Leaves(r) \in Seq(Paths) /\ Leaves(t) \in Seq(Paths) /\ Leaves(r \o t) = Leaves(r) \o Leaves(t)
        /\ r \o t \in Seq(Paths)
    <2> HIDE DEF r, t
    <2> QED
      BY <1>2, <1>4, LeavesFacts, ConcatProperties
  <1> SUFFICES InWalk(as, G, r \o t, k, d)
    BY <1>8
  <1>9. CASE pend = <<p>> /\ d = o
    <2>1. r \o t = r
      <3> HIDE DEF r
      <3> QED
        BY <1>4, <1>7, <1>9, ConcatEmptySeq
    <2>2. o \o Leaves(r) = Leaves(r) /\ o \o o = o
      <3> DEFINE q == Leaves(r)
      <3> HIDE DEF q
      <3>1. q \in Seq(Paths)
        BY <1>8 DEF q
      <3> QED
        BY <1>5, <3>1, ConcatEmptySeq
    <2> HIDE DEF o, r, t, h
    <2>3. Sub(o \o Leaves(r \o t), Under(p), G) /\ d = Yield(p) \o Gives(o)
      BY <1>4, <1>5, <1>6, <1>7, <1>9, <2>1, <2>2
    <2> QED
      BY <1>1, <1>5, <1>8, <2>3 DEF InWalk
  <1>10. CASE ~(pend = <<p>> /\ d = o)
    <2>1. PICK seen \in Seq(Paths) :
              Sub(seen \o Leaves(pend), Under(p), G) /\ d = Yield(p) \o Gives(seen)
      BY <1>1, <1>10 DEF InWalk
    <2> DEFINE e == <<h>>
               u == Under(h)
               lt == Leaves(t)
               lr == Leaves(r)
               sn == seen \o e
               w == Under(p)
    <2>2. e \in Seq(Paths) /\ u \in Seq(Paths) /\ lt \in Seq(Paths) /\ lr \in Seq(Paths) /\ w \in Seq(Paths)
      BY <1>2, <1>3, <1>8, UnderLeaves
    <2>3. Leaves(pend) = (e \o u) \o lt
      <3>1. Leaves(e) = e \o u
        BY <1>2, OneLeaf
      <3>2. Leaves(e \o t) = Leaves(e) \o Leaves(t)
        <4> HIDE DEF t, e
        <4> QED
          BY <1>2, <2>2, LeavesFacts
      <3> QED
        BY <1>2, <3>1, <3>2
    <2>4. Gives(sn) = Gives(seen)
      <3>1. Gives(e) = o
        BY <1>2, <1>3, OneLeaf
      <3>2. Gives(seen \o e) = Gives(seen) \o Gives(e)
        <4> HIDE DEF e
        <4> QED
          BY <2>2, GivesFacts
      <3>3. Gives(seen) \o <<>> = Gives(seen)
        <4>1. Gives(seen) \in Seq(Documents)
          BY GivesFacts
        <4> QED
          BY <4>1, ConcatEmptySeq
      <3> QED
        BY <3>1, <3>2, <3>3
    <2>5. Leaves(r \o t) = lr \o lt
      BY <1>8
    <2>6. Sub(lr, u, G) /\ Sub(seen \o Leaves(pend), w, G)
      BY <1>4, <2>1
    <2> HIDE DEF e, u, lt, lr, w, h, t, r, o
    <2>7. sn \in Seq(Paths) /\ Sub(sn, sn, G) /\ Sub(lt, lt, G)
      BY <2>2, SubSame, ConcatProperties
    <2>8. Sub(lr \o lt, u \o lt, G) /\ lr \o lt \in Seq(Paths) /\ u \o lt \in Seq(Paths)
      BY <2>2, <2>6, <2>7, SubConcat, ConcatProperties
    <2>9. seen \o Leaves(pend) = sn \o (u \o lt)
      <3>1. (e \o u) \o lt = e \o (u \o lt)
        <4>1. e \in Seq(Paths)
          BY <2>2
        <4>2. u \in Seq(Paths)
          BY <2>2
        <4>3. lt \in Seq(Paths)
          BY <2>2
        <4> QED
          BY <4>1, <4>2, <4>3, ConcatAssociative
      <3>2. seen \o (e \o (u \o lt)) = (seen \o e) \o (u \o lt)
        <4> DEFINE v == u \o lt
        <4>1. e \in Seq(Paths)
          BY <2>2
        <4>2. v \in Seq(Paths)
          BY <2>8
        <4> HIDE DEF v
        <4>3. seen \o (e \o v) = (seen \o e) \o v
          BY <4>1, <4>2, ConcatAssociative
        <4> QED
          BY <4>3 DEF v
      <3> QED
        BY <2>3, <3>1, <3>2
    <2> HIDE DEF sn
    <2>10. Sub(sn \o (lr \o lt), w, G)
      <3>1. Sub(sn \o (lr \o lt), sn \o (u \o lt), G)
        BY <2>7, <2>8, SubConcat
      <3>2. sn \o (lr \o lt) \in Seq(Paths) /\ sn \o (u \o lt) \in Seq(Paths)
        BY <2>7, <2>8, ConcatProperties
      <3> QED
        BY <2>2, <2>6, <2>9, <3>1, <3>2, SubTrans
    <2>11. Sub(sn \o Leaves(r \o t), Under(p), G) /\ d = Yield(p) \o Gives(sn)
      BY <2>1, <2>4, <2>5, <2>10 DEF w
    <2> QED
      BY <1>1, <2>7, <2>11 DEF InWalk
  <1> QED
    BY <1>9, <1>10

LEMMA OpenStep ==
  ASSUME NEW as \in Arguments, NEW k \in 1..Len(as), NEW d, NEW G,
         NEW pend \in Seq(Paths), pend # <<>>, InWalk(as, G, pend, k, d), Head(pend) \notin Dirs
  PROVE  InWalk(as, G, Tail(pend), k, d \o Stream(Head(pend)))
  <1> DEFINE p == as[k]
             h == Head(pend)
             t == Tail(pend)
             y == Stream(h)
             o == <<>>
  <1>1. p # Stdin /\ p \in Paths
    BY StillInWalk, ArgumentPath
  <1>2. /\ h \in Paths /\ t \in Seq(Paths) /\ pend = <<h>> \o t /\ <<h>> \in Seq(Paths)
    BY FirstOf
  <1>3. Under(h) = o /\ Walk[h] = <<h>>
    BY <1>2, FileAlone
  <1>4. y = Yield(h) /\ y \in Seq(Documents)
    <2>1. y = Yield(h)
      BY DEF Yield
    <2> QED
      BY <1>2, <2>1, OneLeaf
  <1>5. o \in Seq(Paths) /\ Leaves(o) = o /\ Gives(o) = o
    BY NoLeaf
  <1>7. pend = <<p>> => p = h /\ t = o
    BY SoleOf
  <1>9. CASE pend = <<p>> /\ d = o
    <2>1. o \o y = y /\ y \o o = y /\ o \o o = o
      <3> HIDE DEF y
      <3>1. o \o o = o
        BY <1>5, ConcatEmptySeq
      <3> QED
        BY <1>4, <3>1, ConcatEmptySeq
    <2>2. Sub(o, o, G)
      <3> HIDE DEF o
      <3> QED
        BY <1>5, SubSame
    <2> HIDE DEF o, t, h, y
    <2>3. Sub(o \o Leaves(t), Under(p), G) /\ d \o y = Yield(p) \o Gives(o)
      BY <1>3, <1>4, <1>5, <1>7, <1>9, <2>1, <2>2
    <2> QED
      BY <1>1, <1>5, <2>3 DEF InWalk, t, h, y
  <1>10. CASE ~(pend = <<p>> /\ d = o)
    <2>1. PICK seen \in Seq(Paths) :
              Sub(seen \o Leaves(pend), Under(p), G) /\ d = Yield(p) \o Gives(seen)
      BY <1>1, <1>10 DEF InWalk
    <2> DEFINE e == <<h>>
               lt == Leaves(t)
               sn == seen \o e
               yp == Yield(p)
               gs == Gives(seen)
    <2>2. e \in Seq(Paths) /\ lt \in Seq(Paths) /\ sn \in Seq(Paths)
      <3>1. lt \in Seq(Paths)
        BY <1>2, LeavesFacts
      <3> HIDE DEF e, lt
      <3>2. e \in Seq(Paths)
        BY <1>2 DEF e
      <3> QED
        BY <3>1, <3>2, ConcatProperties
    <2>3. Leaves(pend) = e \o lt
      <3>1. Leaves(e) = e
        BY <1>2, <1>3, OneLeaf
      <3>2. Leaves(e \o t) = Leaves(e) \o Leaves(t)
        <4> HIDE DEF t, e
        <4> QED
          BY <1>2, <2>2, LeavesFacts
      <3> QED
        BY <1>2, <3>1, <3>2
    <2>4. Gives(sn) = gs \o y /\ gs \in Seq(Documents) /\ yp \in Seq(Documents)
      <3>1. Gives(e) = y
        BY <1>2, <1>4, OneLeaf
      <3>2. Gives(seen \o e) = Gives(seen) \o Gives(e) /\ Gives(seen) \in Seq(Documents)
        <4> HIDE DEF e
        <4> QED
          BY <2>2, GivesFacts
      <3>3. yp \in Seq(Documents)
        BY <1>1, OneLeaf
      <3> QED
        BY <3>1, <3>2, <3>3
    <2> HIDE DEF e, lt, h, t, y, o, gs, yp
    <2>5. seen \o Leaves(pend) = sn \o lt
      <3>1. e \in Seq(Paths)
        BY <2>2
      <3>2. lt \in Seq(Paths)
        BY <2>2
      <3>3. (seen \o e) \o lt = seen \o (e \o lt)
        BY <3>1, <3>2, ConcatAssociative
      <3> QED
        BY <2>3, <3>3
    <2>6. d \o y = yp \o Gives(sn)
      <3>1. (yp \o gs) \o y = yp \o (gs \o y)
        BY <1>4, <2>4, ConcatAssociative
      <3> QED
        BY <2>1, <2>4, <3>1 DEF yp, gs
    <2> HIDE DEF sn
    <2>7. Sub(sn \o Leaves(t), Under(p), G) /\ d \o y = Yield(p) \o Gives(sn)
      BY <2>1, <2>5, <2>6 DEF lt, yp
    <2> QED
      BY <1>1, <2>2, <2>7 DEF InWalk, t, y, h
  <1> QED
    BY <1>9, <1>10
--------------------------------------------------------------------------------
(* Types.                                                                      *)
LEMMA FailType == TypeOK /\ Fail => TypeOK'
  BY DEF TypeOK, Fail, Stopped

LEMMA ArgsType == TypeOK /\ (ReadStdin \/ Stat \/ Return) => TypeOK'
  <1> SUFFICES ASSUME TypeOK, ReadStdin \/ Stat \/ Return PROVE TypeOK'
    OBVIOUS
  <1>0. args \in Arguments /\ Len(args) \in Nat /\ n \in 1..(Len(args) + 1)
    <2>1. args \in Seq(Paths \cup {Stdin})
      BY LoaderAssumption DEF LoaderAssumption, TypeOK
    <2> QED
      BY <2>1, LenProperties DEF TypeOK
  <1>1. CASE ReadStdin
    <2>1. n + 1 \in 1..(Len(args) + 1)
      BY <1>0, <1>1 DEF ReadStdin
    <2>2. stdin \in Seq(Docs \cup {Bad}) /\ <<>> \in Seq(Docs) /\ <<>> \in Seq(Docs \ {Bad})
      <3> DEFINE D == Docs
                 E == Docs \cup {Bad}
                 F == Docs \ {Bad}
      <3>1. stdin \in Seq(D) /\ D \subseteq E
        BY DEF TypeOK
      <3> HIDE DEF D, E, F
      <3>2. stdin \in Seq(E) /\ <<>> \in Seq(D) /\ <<>> \in Seq(F)
        BY <3>1
      <3> QED
        BY <3>2 DEF D, E, F
    <2> QED
      BY <1>0, <1>1, <2>1, <2>2 DEF ReadStdin, Decode, TypeOK
  <1>2. CASE Stat
    <2>1. CASE Fail
      BY <2>1, FailType
    <2>2. CASE ~Fail
      <3>1. n + 1 \in 1..(Len(args) + 1) /\ n \in 1..Len(args) /\ args[n] # Stdin
        BY <1>0, <1>2 DEF Stat
      <3>2. args[n] \in Paths
        BY <1>0, <3>1, ArgumentPath
      <3>3. <<args[n]>> \in Seq(Paths)
        BY <3>2
      <3> QED
        BY <1>0, <1>2, <2>2, <3>1, <3>3 DEF Stat, TypeOK
    <2> QED
      BY <2>1, <2>2
  <1>3. CASE Return
    BY <1>3 DEF Return, TypeOK, Stopped
  <1> QED
    BY <1>1, <1>2, <1>3

LEMMA VisitType == TypeOK /\ VisitDir => TypeOK'
  <1> SUFFICES ASSUME TypeOK, VisitDir PROVE TypeOK'
    OBVIOUS
  <1>1. CASE Fail
    BY <1>1, FailType
  <1>2. CASE ~Fail
    <2>1. pending \in Seq(Paths) /\ pending # <<>> /\ Head(pending) \in Dirs
      BY DEF VisitDir, TypeOK
    <2> DEFINE l == Listing[Head(pending)]
               r == Remaining(l)
               t == Tail(pending)
    <2>2. l \in Seq(Paths)
      BY <2>1, LoaderAssumption DEF LoaderAssumption
    <2>3. r \in Seq(Paths)
      <3>1. FlatMap(Kept(gone), l) \in Seq(Paths)
        <4> HIDE DEF l
        <4> QED
          BY <2>2, KeptFun, FlatMapType
      <3> QED
        BY <2>2, <3>1, RemainingKept
    <2>4. t \in Seq(Paths)
      BY <2>1, FirstOf
    <2>5. r \o t \in Seq(Paths)
      <3> HIDE DEF r, t
      <3> QED
        BY <2>3, <2>4, ConcatProperties
    <2> QED
      BY <1>2, <2>5 DEF VisitDir, TypeOK
  <1> QED
    BY <1>1, <1>2

LEMMA OpenType == TypeOK /\ OpenFile => TypeOK'
  <1> SUFFICES ASSUME TypeOK, OpenFile PROVE TypeOK'
    OBVIOUS
  <1>1. CASE Fail
    BY <1>1, FailType
  <1>2. CASE ~Fail
    <2>1. pending \in Seq(Paths) /\ pending # <<>> /\ Head(pending) \notin Dirs
      BY DEF OpenFile, TypeOK
    <2>2. Head(pending) \in Paths /\ Tail(pending) \in Seq(Paths)
      BY <2>1, FirstOf
    <2>3. Head(pending) \in Files \cup Links
      BY <2>1, <2>2 DEF Paths
    <2>4. Stream(Head(pending)) \in Seq(Docs \cup {Bad})
      BY <2>3, StreamType DEF Documents
    <2>5. <<>> \in Seq(Docs \ {Bad})
      <3> DEFINE F == Docs \ {Bad}
      <3> HIDE DEF F
      <3>1. <<>> \in Seq(F)
        OBVIOUS
      <3> QED
        BY <3>1 DEF F
    <2> QED
      BY <1>2, <2>2, <2>3, <2>4, <2>5 DEF OpenFile, Decode, TypeOK
  <1> QED
    BY <1>1, <1>2

LEMMA EndType == TypeOK /\ (ReadDocument \/ EndOfFile \/ EndWalk) => TypeOK'
  <1> SUFFICES ASSUME TypeOK, ReadDocument \/ EndOfFile \/ EndWalk PROVE TypeOK'
    OBVIOUS
  <1> DEFINE E == Docs \cup {Bad}
             F == Docs \ {Bad}
  <1>0. unread \in Seq(E) /\ decoded \in Seq(F) /\ objects \in Seq(F)
    BY DEF TypeOK
  <1>1. CASE ReadDocument
    <2>1. CASE Fail
      BY <2>1, FailType
    <2>2. CASE ~Fail
      <3>1. Head(unread) # Bad /\ unread # <<>>
        BY <1>1, <2>2 DEF ReadDocument
      <3>2. Head(unread) \in E /\ Tail(unread) \in Seq(E)
        <4> HIDE DEF E
        <4> QED
          BY <1>0, <3>1, FirstOf
      <3>3. Head(unread) \in F
        BY <3>1, <3>2
      <3>4. Append(decoded, Head(unread)) \in Seq(F)
        <4> DEFINE x == Head(unread)
        <4> HIDE DEF F, x
        <4>1. x \in F
          BY <3>3 DEF x
        <4>2. Append(decoded, x) \in Seq(F)
          BY <1>0, <4>1, AppendProperties
        <4> QED
          BY <4>2 DEF x
      <3> QED
        BY <1>1, <2>2, <3>2, <3>4 DEF ReadDocument, TypeOK
    <2> QED
      BY <2>1, <2>2
  <1>2. CASE EndOfFile
    <2>1. objects \o decoded \in Seq(F)
      <3> HIDE DEF F
      <3> QED
        BY <1>0, ConcatProperties
    <2> QED
      BY <1>2, <2>1 DEF EndOfFile, TypeOK
  <1>3. CASE EndWalk
    BY <1>3 DEF EndWalk, TypeOK
  <1> QED
    BY <1>1, <1>2, <1>3

LEMMA TypeKept == TypeOK /\ [Next]_vars => TypeOK'
  <1> SUFFICES ASSUME TypeOK, [Next]_vars PROVE TypeOK'
    OBVIOUS
  <1>1. CASE Step
    BY <1>1, ArgsType, VisitType, OpenType, EndType DEF Step
  <1>2. ASSUME NEW p \in Volatile, Unlink(p) PROVE TypeOK'
    BY <1>2 DEF Unlink, TypeOK
  <1>3. CASE UNCHANGED vars
    BY <1>3 DEF vars, TypeOK
  <1> QED
    BY <1>1, <1>2, <1>3 DEF Next

LEMMA TypeInit == Init => TypeOK
  <1> SUFFICES ASSUME Init PROVE TypeOK
    OBVIOUS
  <1>1. args \in Arguments /\ Len(args) \in Nat
    <2>1. args \in Seq(Paths \cup {Stdin})
      BY LoaderAssumption DEF LoaderAssumption, Init
    <2> QED
      BY <2>1, LenProperties DEF Init
  <1>2. 1 \in 1..(Len(args) + 1)
    BY <1>1
  <1>3. ASSUME NEW S PROVE <<>> \in Seq(S)
    OBVIOUS
  <1>4. Contents[Stdin] \in Seq(Docs)
    BY LoaderAssumption DEF LoaderAssumption
  <1>5. /\ <<>> \in Seq(Paths) /\ <<>> \in Seq(Docs \cup {Bad}) /\ <<>> \in Seq(Docs \ {Bad})
    BY <1>3
  <1> QED
    BY <1>1, <1>2, <1>4, <1>5 DEF Init, TypeOK

(* The paths, documents and objects stay what their names say, whatever the    *)
(* listings hold and whatever is removed (loader.go:30-112).                   *)
THEOREM TypeCorrect == Spec => []TypeOK
  BY TypeInit, TypeKept, PTL DEF Spec

(* What has been collected once m arguments are loaded, and while the m-th is. *)
Before(as, G, m, got) ==
    \E share \in Seq(Seq(Documents)) :
        /\ Len(share) = m
        /\ \A k \in 1..m : Loaded(as, G, k, share[k])
        /\ got = FlattenSeq(share)

During(as, G, pend, m, got) ==
    \E done \in Seq(Documents), d \in Seq(Documents) :
        /\ Before(as, G, m - 1, done)
        /\ InWalk(as, G, pend, m, d)
        /\ got = done \o d

LEMMA Growing ==
  ASSUME NEW as, NEW m, NEW got, NEW pend, NEW G, NEW H, G \subseteq H
  PROVE  /\ Before(as, G, m, got) => Before(as, H, m, got)
         /\ During(as, G, pend, m, got) => During(as, H, pend, m, got)
  <1>1. ASSUME NEW x, NEW y, Before(as, G, x, y) PROVE Before(as, H, x, y)
    <2>1. PICK share \in Seq(Seq(Documents)) :
              /\ Len(share) = x
              /\ \A k \in 1..x : Loaded(as, G, k, share[k])
              /\ y = FlattenSeq(share)
      BY <1>1 DEF Before
    <2>2. \A k \in 1..x : Loaded(as, H, k, share[k])
      BY <2>1, Vanishing
    <2> QED
      BY <2>1, <2>2 DEF Before
  <1>2. ASSUME During(as, G, pend, m, got) PROVE During(as, H, pend, m, got)
    <2>1. PICK done \in Seq(Documents), d \in Seq(Documents) :
              Before(as, G, m - 1, done) /\ InWalk(as, G, pend, m, d) /\ got = done \o d
      BY <1>2 DEF During
    <2>2. InWalk(as, H, pend, m, d)
      BY <2>1, Vanishing
    <2> QED
      BY <1>1, <2>1, <2>2 DEF During
  <1> QED
    BY <1>1, <1>2

LEMMA NothingYet == ASSUME NEW as, NEW G PROVE Before(as, G, 0, <<>>)
  <1> DEFINE U == Seq(Documents)
             o == <<>>
  <1>1. o \in Seq(U) /\ Len(o) = 0 /\ FlattenSeq(o) = o
    <2> HIDE DEF U
    <2> QED
      BY FlattenEmpty
  <1>2. \A k \in 1..0 : FALSE
    OBVIOUS
  <1> HIDE DEF o
  <1>3. Before(as, G, 0, o)
    BY <1>1, <1>2 DEF Before
  <1> QED
    BY <1>3 DEF o

LEMMA BeforeType ==
  ASSUME NEW as, NEW G, NEW m, NEW got, Before(as, G, m, got) PROVE got \in Seq(Documents)
  BY FlattenType DEF Before

LEMMA ArgumentDone ==
  ASSUME NEW as, NEW G, NEW m \in Nat, m >= 1, NEW got, During(as, G, <<>>, m, got)
  PROVE  Before(as, G, m, got)
  <1>1. PICK done \in Seq(Documents), d \in Seq(Documents) :
            Before(as, G, m - 1, done) /\ InWalk(as, G, <<>>, m, d) /\ got = done \o d
    BY DEF During
  <1>2. PICK share \in Seq(Seq(Documents)) :
            /\ Len(share) = m - 1
            /\ \A k \in 1..(m - 1) : Loaded(as, G, k, share[k])
            /\ done = FlattenSeq(share)
    BY <1>1 DEF Before
  <1>3. Loaded(as, G, m, d)
    BY <1>1, WalkEnds
  <1> DEFINE U == Seq(Documents)
             v == Append(share, d)
  <1>4. v \in Seq(U) /\ Len(v) = m /\ v[m] = d /\ \A k \in 1..(m - 1) : v[k] = share[k]
    <2> HIDE DEF U
    <2>1. share \in Seq(U) /\ d \in U
      BY DEF U
    <2>2. /\ v \in Seq(U) /\ Len(v) = Len(share) + 1 /\ v[Len(share) + 1] = d
          /\ \A k \in 1..Len(share) : v[k] = share[k]
      BY <2>1, AppendProperties
    <2>3. Len(share) = m - 1 /\ (m - 1) + 1 = m
      BY <1>2
    <2> HIDE DEF v
    <2> QED
      BY <2>2, <2>3
  <1>5. FlattenSeq(v) = got
    BY <1>1, <1>2, FlattenAppend
  <1> HIDE DEF v
  <1>6. ASSUME NEW k \in 1..m PROVE Loaded(as, G, k, v[k])
    <2>1. CASE k = m
      BY <1>3, <1>4, <2>1
    <2>2. CASE k # m
      <3>1. k \in 1..(m - 1)
        BY <2>2
      <3> QED
        BY <1>2, <1>4, <3>1
    <2> QED
      BY <2>1, <2>2
  <1> QED
    BY <1>4, <1>5, <1>6 DEF Before

LEMMA WalkStarts ==
  ASSUME NEW as, NEW G, NEW m \in Nat, m >= 1, NEW got, Before(as, G, m - 1, got), as[m] # Stdin
  PROVE  During(as, G, <<as[m]>>, m, got)
  <1> DEFINE o == <<>>
  <1>1. got \in Seq(Documents)
    BY BeforeType
  <1>2. got \o o = got /\ o \in Seq(Documents)
    <2> DEFINE D == Documents
    <2> HIDE DEF D
    <2>1. got \in Seq(D)
      BY <1>1 DEF D
    <2> QED
      BY <2>1, ConcatEmptySeq DEF D
  <1>3. InWalk(as, G, <<as[m]>>, m, o)
    BY DEF InWalk
  <1> HIDE DEF o
  <1> QED
    BY <1>1, <1>2, <1>3 DEF During

LEMMA StdinStarts ==
  ASSUME NEW as, NEW G, NEW m \in Nat, m >= 1, NEW got, Before(as, G, m - 1, got), as[m] = Stdin
  PROVE  During(as, G, <<>>, m, got \o StdinShare(as, m))
  <1> DEFINE y == StdinShare(as, m)
  <1>1. got \in Seq(Documents)
    BY BeforeType
  <1>2. y \in Seq(Documents)
    <2> DEFINE D == Docs
               E == Documents
    <2>1. Contents[Stdin] \in Seq(D) /\ D \subseteq E
      BY LoaderAssumption DEF LoaderAssumption, Documents
    <2> HIDE DEF D, E
    <2>2. Contents[Stdin] \in Seq(E) /\ <<>> \in Seq(E)
      BY <2>1
    <2> QED
      BY <2>2 DEF StdinShare, E
  <1>3. InWalk(as, G, <<>>, m, y)
    BY DEF InWalk
  <1> HIDE DEF y
  <1>4. During(as, G, <<>>, m, got \o y)
    BY <1>1, <1>2, <1>3 DEF During
  <1> QED
    BY <1>4 DEF y

LEMMA DirectoryVisited ==
  ASSUME NEW as \in Arguments, NEW m \in 1..Len(as), NEW G \in SUBSET Volatile, NEW got,
         NEW pend \in Seq(Paths), pend # <<>>, During(as, G, pend, m, got), Head(pend) \in Dirs
  PROVE  During(as, G, FlatMap(Kept(G), Listing[Head(pend)]) \o Tail(pend), m, got)
  <1>1. PICK done \in Seq(Documents), d \in Seq(Documents) :
            Before(as, G, m - 1, done) /\ InWalk(as, G, pend, m, d) /\ got = done \o d
    BY DEF During
  <1>2. InWalk(as, G, FlatMap(Kept(G), Listing[Head(pend)]) \o Tail(pend), m, d)
    BY <1>1, VisitStep
  <1> QED
    BY <1>1, <1>2 DEF During

LEMMA FileOpened ==
  ASSUME NEW as \in Arguments, NEW m \in 1..Len(as), NEW G, NEW got,
         NEW pend \in Seq(Paths), pend # <<>>, During(as, G, pend, m, got), Head(pend) \notin Dirs
  PROVE  During(as, G, Tail(pend), m, got \o Stream(Head(pend)))
  <1> DEFINE y == Stream(Head(pend))
  <1>1. PICK done \in Seq(Documents), d \in Seq(Documents) :
            Before(as, G, m - 1, done) /\ InWalk(as, G, pend, m, d) /\ got = done \o d
    BY DEF During
  <1>2. InWalk(as, G, Tail(pend), m, d \o y)
    BY <1>1, OpenStep
  <1>3. y \in Seq(Documents)
    <2>1. Head(pend) \in Paths
      BY FirstOf
    <2> QED
      BY <2>1, StreamType DEF Paths
  <1> HIDE DEF y
  <1>4. d \o y \in Seq(Documents)
    BY <1>3, ConcatProperties
  <1>5. got \o y = done \o (d \o y)
    BY <1>1, <1>3, ConcatAssociative
  <1>6. During(as, G, Tail(pend), m, got \o y)
    BY <1>1, <1>2, <1>4, <1>5 DEF During
  <1> QED
    BY <1>6 DEF y

(* Where the loader is in its arguments.                                       *)
Progress ==
    /\ pc \in {"args", "ok"} => Before(args, missed, n - 1, objects) /\ pending = <<>>
    /\ pc \in {"walk", "read"} => n >= 2
    /\ pc = "walk" => During(args, missed, pending, n - 1, objects)
    /\ pc = "read" => During(args, missed, pending, n - 1, objects \o (decoded \o unread))
    /\ pc = "ok" => n = Len(args) + 1
    /\ stdin = StdinShare(args, n)

LEMMA StdinKept ==
  ASSUME NEW as, NEW k \in Nat
  PROVE  StdinShare(as, k + 1) = IF as[k] = Stdin /\ k >= 1 THEN <<>> ELSE StdinShare(as, k)
  <1>1. \A j : j \in 1..((k + 1) - 1) <=> (j \in 1..(k - 1) \/ (j = k /\ k >= 1))
    OBVIOUS
  <1> QED
    BY <1>1 DEF StdinShare

LEMMA ArgsLength == TypeOK => args \in Arguments /\ Len(args) \in Nat /\ n \in 1..(Len(args) + 1)
  <1> SUFFICES ASSUME TypeOK PROVE Len(args) \in Nat
    BY DEF TypeOK
  <1>1. args \in Seq(Paths \cup {Stdin})
    BY LoaderAssumption DEF LoaderAssumption, TypeOK
  <1> QED
    BY <1>1, LenProperties

LEMMA FailProgress == TypeOK /\ Progress /\ Fail => Progress'
  BY DEF Fail, Progress

LEMMA ArgsProgress == TypeOK /\ Progress /\ (ReadStdin \/ Stat \/ Return) => Progress'
  <1> SUFFICES ASSUME TypeOK, Progress, ReadStdin \/ Stat \/ Return PROVE Progress'
    OBVIOUS
  <1>0. args \in Arguments /\ Len(args) \in Nat /\ n \in 1..(Len(args) + 1)
    BY ArgsLength
  <1>1. /\ pc = "args" /\ Before(args, missed, n - 1, objects) /\ pending = <<>>
        /\ stdin = StdinShare(args, n)
    BY DEF Progress, ReadStdin, Stat, Return
  <1>2. n \in Nat /\ n >= 1 /\ (n + 1) - 1 = n /\ n + 1 >= 2
    BY <1>0
  <1>3. CASE ReadStdin
    <2>1. /\ args[n] = Stdin /\ n' = n + 1 /\ pc' = "read" /\ unread' = stdin /\ decoded' = <<>>
          /\ stdin' = <<>> /\ args' = args /\ missed' = missed /\ objects' = objects /\ pending' = pending
      BY <1>3 DEF ReadStdin, Decode
    <2>2. During(args, missed, <<>>, n, objects \o stdin)
      BY <1>1, <1>2, <2>1, StdinStarts
    <2>3. <<>> \o stdin = stdin
      <3>1. stdin \in Seq(Docs)
        BY DEF TypeOK
      <3> QED
        BY <3>1, ConcatEmptySeq
    <2>4. decoded' \o unread' = stdin
      BY <2>1, <2>3
    <2>5. StdinShare(args, n + 1) = <<>>
      BY <1>2, <2>1, StdinKept
    <2> QED
      BY <1>1, <1>2, <2>1, <2>2, <2>4, <2>5 DEF Progress
  <1>4. CASE Stat
    <2>1. CASE Fail
      BY <2>1, FailProgress
    <2>2. CASE ~Fail
      <3>1. /\ args[n] # Stdin /\ n' = n + 1 /\ pc' = "walk" /\ pending' = <<args[n]>>
            /\ stdin' = stdin /\ args' = args /\ missed' = missed /\ objects' = objects
        BY <1>4, <2>2 DEF Stat
      <3>2. During(args, missed, <<args[n]>>, n, objects)
        BY <1>1, <1>2, <3>1, WalkStarts
      <3>3. StdinShare(args, n + 1) = StdinShare(args, n)
        BY <1>2, <3>1, StdinKept
      <3> QED
        BY <1>1, <1>2, <3>1, <3>2, <3>3 DEF Progress
    <2> QED
      BY <2>1, <2>2
  <1>5. CASE Return
    <2>1. n = Len(args) + 1
      BY <1>0, <1>5 DEF Return
    <2> QED
      BY <1>1, <1>5, <2>1 DEF Return, Progress
  <1> QED
    BY <1>3, <1>4, <1>5

LEMMA WalkProgress == TypeOK /\ Progress /\ (VisitDir \/ OpenFile \/ EndWalk) => Progress'
  <1> SUFFICES ASSUME TypeOK, Progress, VisitDir \/ OpenFile \/ EndWalk PROVE Progress'
    OBVIOUS
  <1>0. args \in Arguments /\ Len(args) \in Nat /\ n \in 1..(Len(args) + 1)
    BY ArgsLength
  <1>1. /\ pc = "walk" /\ During(args, missed, pending, n - 1, objects) /\ n >= 2
        /\ stdin = StdinShare(args, n)
    BY DEF Progress, VisitDir, OpenFile, EndWalk
  <1>2. n - 1 \in 1..Len(args) /\ n - 1 \in Nat /\ n - 1 >= 1
    BY <1>0, <1>1
  <1>3. pending \in Seq(Paths) /\ missed \in SUBSET Volatile /\ missed \subseteq gone
        /\ objects \in Seq(Docs \ {Bad})
    BY DEF TypeOK
  <1>4. CASE Fail
    BY <1>4, FailProgress
  <1>5. CASE VisitDir /\ ~Fail
    <2>1. /\ pending # <<>> /\ Head(pending) \in Dirs
          /\ pending' = Remaining(Listing[Head(pending)]) \o Tail(pending)
          /\ UNCHANGED <<pc, args, n, stdin, objects>>
          /\ missed' = missed \cup (Range(Listing[Head(pending)]) \cap gone)
      BY <1>5 DEF VisitDir
    <2> DEFINE l == Listing[Head(pending)]
               M == missed \cup (Range(l) \cap gone)
    <2>2. l \in Seq(Paths) /\ M \in SUBSET Volatile /\ missed \subseteq M /\ M \subseteq gone
      BY <1>3, <2>1, LoaderAssumption DEF LoaderAssumption, TypeOK
    <2> HIDE DEF l, M
    <2>3. Remaining(l) = FlatMap(Kept(M), l)
      <3>1. \A a \in DOMAIN l : l[a] \in gone <=> l[a] \in M
        BY <2>2 DEF M, Range
      <3> QED
        BY <2>2, <3>1, RemainingKept
    <2>4. During(args, M, pending, n - 1, objects)
      BY <1>1, <2>2, Growing
    <2>5. During(args, M, FlatMap(Kept(M), l) \o Tail(pending), n - 1, objects)
      BY <1>0, <1>1, <1>2, <1>3, <2>1, <2>2, <2>4, DirectoryVisited DEF l
    <2> QED
      BY <1>1, <2>1, <2>3, <2>5 DEF Progress, l, M
  <1>6. CASE OpenFile /\ ~Fail
    <2>1. /\ pending # <<>> /\ Head(pending) \notin Dirs
          /\ pending' = Tail(pending) /\ pc' = "read"
          /\ unread' = Stream(Head(pending)) /\ decoded' = <<>>
          /\ UNCHANGED <<args, n, stdin, objects, missed>>
      BY <1>6 DEF OpenFile, Decode
    <2>2. During(args, missed, Tail(pending), n - 1, objects \o Stream(Head(pending)))
      BY <1>0, <1>1, <1>2, <1>3, <2>1, FileOpened
    <2>3. <<>> \o Stream(Head(pending)) = Stream(Head(pending))
      <3>1. Head(pending) \in Paths
        BY <1>3, <2>1, FirstOf
      <3>2. Stream(Head(pending)) \in Seq(Documents)
        BY <2>1, <3>1, StreamType DEF Paths
      <3> QED
        BY <3>2, ConcatEmptySeq
    <2>4. decoded' \o unread' = Stream(Head(pending))
      BY <2>1, <2>3
    <2> QED
      BY <1>1, <2>1, <2>2, <2>4 DEF Progress
  <1>7. CASE EndWalk
    <2>1. pending = <<>> /\ pc' = "args" /\ UNCHANGED <<args, n, pending, stdin, objects, missed>>
      BY <1>7 DEF EndWalk
    <2>2. Before(args, missed, n - 1, objects)
      BY <1>1, <1>2, <2>1, ArgumentDone
    <2> QED
      BY <1>1, <2>1, <2>2 DEF Progress
  <1> QED
    BY <1>4, <1>5, <1>6, <1>7

LEMMA ReadProgress == TypeOK /\ Progress /\ (ReadDocument \/ EndOfFile) => Progress'
  <1> SUFFICES ASSUME TypeOK, Progress, ReadDocument \/ EndOfFile PROVE Progress'
    OBVIOUS
  <1>1. /\ pc = "read" /\ During(args, missed, pending, n - 1, objects \o (decoded \o unread)) /\ n >= 2
        /\ stdin = StdinShare(args, n)
    BY DEF Progress, ReadDocument, EndOfFile
  <1> DEFINE E == Docs \cup {Bad}
             F == Docs \ {Bad}
  <1>2. unread \in Seq(E) /\ decoded \in Seq(F) /\ F \subseteq E
    BY DEF TypeOK
  <1>3. decoded \in Seq(E)
    <2> HIDE DEF E, F
    <2> QED
      BY <1>2
  <1>4. CASE Fail
    BY <1>4, FailProgress
  <1>5. CASE ReadDocument /\ ~Fail
    <2>1. /\ unread # <<>> /\ decoded' = Append(decoded, Head(unread)) /\ unread' = Tail(unread)
          /\ UNCHANGED <<pc, args, n, pending, stdin, objects, missed>>
      BY <1>5 DEF ReadDocument
    <2>2. decoded' \o unread' = decoded \o unread
      <3> DEFINE x == Head(unread)
                 e == <<x>>
                 t == Tail(unread)
      <3> HIDE DEF E, F
      <3>1. x \in E /\ t \in Seq(E) /\ unread = e \o t /\ e \in Seq(E)
        BY <1>2, <2>1, FirstOf
      <3>2. Append(decoded, x) = decoded \o e
        <4> HIDE DEF x
        <4> QED
          BY <1>3, <3>1, AppendIsConcat
      <3> HIDE DEF x, e, t
      <3>3. e \in Seq(E)
        BY <3>1
      <3>4. t \in Seq(E)
        BY <3>1
      <3>5. (decoded \o e) \o t = decoded \o (e \o t)
        BY <1>3, <3>3, <3>4, ConcatAssociative
      <3> QED
        BY <2>1, <3>1, <3>2, <3>5 DEF x, t
    <2> QED
      BY <1>1, <2>1, <2>2 DEF Progress
  <1>6. CASE EndOfFile
    <2>1. /\ unread = <<>> /\ objects' = objects \o decoded /\ pc' = "walk"
          /\ UNCHANGED <<args, n, pending, stdin, missed>>
      BY <1>6 DEF EndOfFile
    <2>2. decoded \o unread = decoded
      <3> HIDE DEF E
      <3> QED
        BY <1>3, <2>1, ConcatEmptySeq
    <2> QED
      BY <1>1, <2>1, <2>2 DEF Progress
  <1> QED
    BY <1>4, <1>5, <1>6

LEMMA ProgressKept == TypeOK /\ Progress /\ [Next]_vars => Progress'
  <1> SUFFICES ASSUME TypeOK, Progress, [Next]_vars PROVE Progress'
    OBVIOUS
  <1>1. CASE Step
    BY <1>1, ArgsProgress, WalkProgress, ReadProgress DEF Step
  <1>2. ASSUME NEW p \in Volatile, Unlink(p) PROVE Progress'
    <2>1. UNCHANGED <<pc, args, n, pending, unread, decoded, stdin, objects, missed>>
      BY <1>2 DEF Unlink
    <2> QED
      BY <2>1 DEF Progress
  <1>3. CASE UNCHANGED vars
    BY <1>3 DEF vars, Progress
  <1> QED
    BY <1>1, <1>2, <1>3 DEF Next

LEMMA ProgressInit == Init => Progress
  <1> SUFFICES ASSUME Init PROVE Progress
    OBVIOUS
  <1>1. StdinShare(args, 1) = Contents[Stdin]
    <2>1. \A j : j \notin 1..(1 - 1)
      OBVIOUS
    <2> QED
      BY <2>1 DEF StdinShare
  <1>2. Before(args, missed, 1 - 1, <<>>)
    BY NothingYet
  <1> QED
    BY <1>1, <1>2 DEF Init, Progress

(* Where what is being read comes from, and why loading failed.                *)
Source(as, k, whole) ==
    IF as[k] = Stdin THEN whole = Contents[Stdin]
    ELSE \E a \in DOMAIN Walk[as[k]] : whole = Yield(Walk[as[k]][a])

From(as, k, docs) ==
    \E whole : /\ Source(as, k, whole)
               /\ \A b \in DOMAIN docs : \E c \in DOMAIN whole : whole[c] = docs[b]

Blamed ==
    /\ pc = "read" => From(args, n - 1, unread)
    /\ pc = "error" => Hopeless

LEMMA StillHopeless ==
  ASSUME Hopeless, gone \subseteq gone', args' = args PROVE Hopeless'
  <1>1. ASSUME NEW p, Troubled(p) PROVE Troubled(p)'
    BY <1>1 DEF Troubled
  <1> QED
    BY <1>1 DEF Hopeless

LEMMA Fails == ASSUME Hopeless, Fail PROVE Blamed'
  <1>1. Hopeless'
    BY StillHopeless DEF Fail
  <1> QED
    BY <1>1 DEF Blamed, Fail

LEMMA UndecodableFrom ==
  ASSUME NEW docs, Undecodable(docs), args \in Arguments, NEW k \in 1..Len(args), From(args, k, docs)
  PROVE  Hopeless
  <1>0. k \in DOMAIN args
    <2>1. args \in Seq(Paths \cup {Stdin})
      BY LoaderAssumption DEF LoaderAssumption
    <2> QED
      BY <2>1, LenProperties
  <1>1. PICK whole : /\ Source(args, k, whole)
                     /\ \A b \in DOMAIN docs : \E c \in DOMAIN whole : whole[c] = docs[b]
    BY DEF From
  <1>2. Undecodable(whole)
    BY <1>1 DEF Undecodable
  <1>3. CASE args[k] = Stdin
    BY <1>0, <1>1, <1>2, <1>3 DEF Source, Hopeless
  <1>4. CASE args[k] # Stdin
    <2>1. PICK a \in DOMAIN Walk[args[k]] : whole = Yield(Walk[args[k]][a])
      BY <1>1, <1>4 DEF Source
    <2>2. Troubled(Walk[args[k]][a])
      BY <1>2, <2>1 DEF Troubled
    <2> QED
      BY <1>0, <1>4, <2>1, <2>2 DEF Hopeless
  <1> QED
    BY <1>3, <1>4

LEMMA ArgsBlamed == TypeOK /\ Progress /\ Blamed /\ (ReadStdin \/ Stat \/ Return) => Blamed'
  <1> SUFFICES ASSUME TypeOK, Progress, Blamed, ReadStdin \/ Stat \/ Return PROVE Blamed'
    OBVIOUS
  <1>0. args \in Arguments /\ Len(args) \in Nat /\ n \in 1..(Len(args) + 1)
    BY ArgsLength
  <1>1. CASE ReadStdin
    <2>1. /\ args[n] = Stdin /\ n' = n + 1 /\ pc' = "read" /\ unread' = stdin /\ args' = args
          /\ stdin = StdinShare(args, n)
      BY <1>1 DEF ReadStdin, Decode, Progress
    <2>2. Source(args, n, Contents[Stdin])
      BY <2>1 DEF Source
    <2>3. \A b \in DOMAIN stdin : \E c \in DOMAIN Contents[Stdin] : Contents[Stdin][c] = stdin[b]
      <3>1. CASE stdin = Contents[Stdin]
        BY <3>1
      <3>2. CASE stdin = <<>>
        <4>1. \A b \in DOMAIN <<>> : FALSE
          OBVIOUS
        <4> QED
          BY <3>2, <4>1
      <3> QED
        BY <2>1, <3>1, <3>2 DEF StdinShare
    <2>4. From(args, n, stdin)
      BY <2>2, <2>3 DEF From
    <2>5. (n + 1) - 1 = n
      BY <1>0
    <2> QED
      BY <2>1, <2>4, <2>5 DEF Blamed
  <1>2. CASE Stat
    <2>1. CASE Fail
      <3>1. n \in 1..Len(args) /\ args[n] # Stdin /\ args[n] \in gone
        <4>1. pc = "args" /\ pc' = "error" /\ n <= Len(args) /\ args[n] # Stdin
          BY <1>2, <2>1 DEF Stat, Fail
        <4> QED
          BY <1>0, <1>2, <4>1 DEF Stat
      <3>2. args[n] \in Paths /\ n \in DOMAIN args
        <4>1. args \in Seq(Paths \cup {Stdin})
          BY <1>0, LoaderAssumption DEF LoaderAssumption
        <4>2. n \in DOMAIN args
          BY <3>1, <4>1, LenProperties
        <4> QED
          BY <1>0, <3>1, <4>2, ArgumentPath
      <3>3. 1 \in DOMAIN Walk[args[n]] /\ Walk[args[n]][1] = args[n]
        <4> DEFINE p == args[n]
                   u == Under(p)
                   v == <<p>> \o u
        <4>1. p \in Paths /\ u \in Seq(Paths)
          BY <3>2, UnderLeaves
        <4>2. Walk[p] = v
          BY <3>2, OneLeaf
        <4> HIDE DEF p, u
        <4>3. v \in Seq(Paths) /\ Len(v) = Len(u) + 1 /\ Len(u) \in Nat /\ v[1] = p
          BY <4>1, ConsAt
        <4> HIDE DEF v
        <4>4. 1 \in DOMAIN v
          BY <4>3, LenProperties
        <4> QED
          BY <4>2, <4>3, <4>4 DEF p
      <3>4. Hopeless
        BY <3>1, <3>2, <3>3 DEF Hopeless, Troubled
      <3> QED
        BY <2>1, <3>4, Fails
    <2>2. CASE ~Fail
      BY <1>2, <2>2 DEF Stat, Blamed
    <2> QED
      BY <2>1, <2>2
  <1>3. CASE Return
    BY <1>3 DEF Return, Blamed
  <1> QED
    BY <1>1, <1>2, <1>3

LEMMA WalkBlamed == TypeOK /\ Progress /\ Blamed /\ (VisitDir \/ OpenFile \/ EndWalk) => Blamed'
  <1> SUFFICES ASSUME TypeOK, Progress, Blamed, VisitDir \/ OpenFile \/ EndWalk PROVE Blamed'
    OBVIOUS
  <1>0. args \in Arguments /\ Len(args) \in Nat /\ n \in 1..(Len(args) + 1)
    BY ArgsLength
  <1>1. /\ pc = "walk" /\ During(args, missed, pending, n - 1, objects) /\ n >= 2
    BY DEF Progress, VisitDir, OpenFile, EndWalk
  <1>2. n - 1 \in 1..Len(args)
    BY <1>0, <1>1
  <1>3. CASE EndWalk
    BY <1>3 DEF EndWalk, Blamed
  <1>4. CASE VisitDir \/ OpenFile
    <2>1. pending # <<>> /\ pending \in Seq(Paths)
      BY <1>4 DEF VisitDir, OpenFile, TypeOK
    <2>2. PICK d : InWalk(args, missed, pending, n - 1, d)
      BY <1>1 DEF During
    <2>3. /\ args[n - 1] # Stdin
          /\ \E a \in DOMAIN Walk[args[n - 1]] : Walk[args[n - 1]][a] = Head(pending)
      BY <1>0, <1>2, <2>1, <2>2, StillInWalk
    <2>4. n - 1 \in DOMAIN args
      <3>1. args \in Seq(Paths \cup {Stdin})
        BY <1>0, LoaderAssumption DEF LoaderAssumption
      <3> QED
        BY <1>2, <3>1, LenProperties
    <2>5. CASE ~Found(Head(pending)) /\ Fail
      <3>1. Troubled(Head(pending))
        BY <2>5 DEF Troubled, Found
      <3>2. Hopeless
        BY <2>3, <2>4, <3>1 DEF Hopeless
      <3> QED
        BY <2>5, <3>2, Fails
    <2>6. CASE OpenFile /\ pc' = "read" /\ unread' = Stream(Head(pending)) /\ UNCHANGED <<args, n>>
      <3>1. Stream(Head(pending)) = Yield(Head(pending))
        BY <2>6 DEF OpenFile, Yield
      <3>2. Source(args, n - 1, Stream(Head(pending)))
        BY <2>3, <3>1 DEF Source
      <3>3. From(args, n - 1, Stream(Head(pending)))
        BY <3>2 DEF From
      <3> QED
        BY <2>6, <3>3 DEF Blamed
    <2>7. CASE VisitDir /\ UNCHANGED pc
      BY <1>1, <2>7 DEF Blamed
    <2> QED
      BY <1>4, <2>5, <2>6, <2>7 DEF VisitDir, OpenFile, Decode
  <1> QED
    BY <1>3, <1>4

LEMMA ReadBlamed == TypeOK /\ Progress /\ Blamed /\ (ReadDocument \/ EndOfFile) => Blamed'
  <1> SUFFICES ASSUME TypeOK, Progress, Blamed, ReadDocument \/ EndOfFile PROVE Blamed'
    OBVIOUS
  <1>0. args \in Arguments /\ Len(args) \in Nat /\ n \in 1..(Len(args) + 1)
    BY ArgsLength
  <1>1. n - 1 \in 1..Len(args) /\ From(args, n - 1, unread)
    <2>1. pc = "read"
      BY DEF ReadDocument, EndOfFile
    <2> QED
      BY <1>0, <2>1 DEF Progress, Blamed
  <1> DEFINE E == Docs \cup {Bad}
  <1>2. CASE EndOfFile
    BY <1>2 DEF EndOfFile, Blamed
  <1>3. CASE ReadDocument
    <2>1. unread \in Seq(E) /\ unread # <<>>
      BY <1>3 DEF ReadDocument, TypeOK
    <2>2. CASE Head(unread) = Bad /\ Fail
      <3>1. 1 \in DOMAIN unread /\ unread[1] = Head(unread)
        <4> HIDE DEF E
        <4>1. Len(unread) \in Nat /\ Len(unread) # 0 /\ DOMAIN unread = 1..Len(unread)
          BY <2>1, EmptySeq, LenProperties
        <4> QED
          BY <2>1, <4>1
      <3>2. Undecodable(unread)
        BY <2>2, <3>1 DEF Undecodable
      <3> QED
        BY <1>0, <1>1, <2>2, <3>2, UndecodableFrom, Fails
    <2>3. CASE unread' = Tail(unread) /\ UNCHANGED <<pc, args, n>>
      <3>1. \A b \in DOMAIN Tail(unread) : \E c \in DOMAIN unread : unread[c] = Tail(unread)[b]
        <4> DEFINE t == Tail(unread)
        <4> HIDE DEF E
        <4>1. t \in Seq(E) /\ Len(t) = Len(unread) - 1 /\ \A b \in 1..Len(t) : t[b] = unread[b + 1]
          BY <2>1, HeadTailProperties
        <4> HIDE DEF t
        <4>2. DOMAIN t = 1..Len(t) /\ DOMAIN unread = 1..Len(unread) /\ Len(unread) \in Nat
          BY <2>1, <4>1, LenProperties
        <4>3. \A b \in DOMAIN t : b + 1 \in DOMAIN unread
          BY <4>1, <4>2
        <4>4. \A b \in DOMAIN t : unread[b + 1] = t[b]
          BY <4>1, <4>2
        <4> QED
          BY <4>3, <4>4 DEF t
      <3>2. From(args, n - 1, Tail(unread))
        BY <1>1, <3>1 DEF From
      <3>3. pc = "read"
        BY <1>3 DEF ReadDocument
      <3> QED
        BY <2>3, <3>2, <3>3 DEF Blamed
    <2> QED
      BY <1>3, <2>2, <2>3 DEF ReadDocument
  <1> QED
    BY <1>2, <1>3

LEMMA BlamedKept == TypeOK /\ Progress /\ Blamed /\ [Next]_vars => Blamed'
  <1> SUFFICES ASSUME TypeOK, Progress, Blamed, [Next]_vars PROVE Blamed'
    OBVIOUS
  <1>1. CASE Step
    BY <1>1, ArgsBlamed, WalkBlamed, ReadBlamed DEF Step
  <1>2. ASSUME NEW p \in Volatile, Unlink(p) PROVE Blamed'
    <2>1. gone \subseteq gone' /\ UNCHANGED <<pc, args, n, unread>>
      BY <1>2 DEF Unlink
    <2>2. Hopeless => Hopeless'
      BY <2>1, StillHopeless
    <2> QED
      BY <2>1, <2>2 DEF Blamed
  <1>3. CASE UNCHANGED vars
    <2>1. Hopeless => Hopeless'
      BY <1>3, StillHopeless DEF vars
    <2> QED
      BY <1>3, <2>1 DEF vars, Blamed
  <1> QED
    BY <1>1, <1>2, <1>3 DEF Next

(* One argument, once it is loaded, is its share with the missing ones named.  *)
LEMMA LoadedShare ==
  ASSUME args \in Arguments, missed \in SUBSET Volatile, NEW k \in 1..Len(args), NEW d,
         Loaded(args, missed, k, d)
  PROVE  \E D : D \subseteq Absent(args[k]) /\ d = Share(k, D)
  <1>1. CASE args[k] = Stdin
    <2>1. d = StdinOf(k)
      BY <1>1 DEF Loaded, StdinShare, StdinOf
    <2>2. d = Share(k, {})
      BY <1>1, <2>1 DEF Share
    <2> QED
      BY <2>2
  <1>2. CASE args[k] # Stdin
    <2> DEFINE p == args[k]
               u == Under(p)
    <2>1. PICK seen \in Seq(Paths) : Sub(seen, u, missed) /\ d = Yield(p) \o Gives(seen)
      BY <1>2 DEF Loaded
    <2>2. u \in Seq(Paths)
      BY UnderLeaves
    <2>3. PICK D \in SUBSET (1..Len(u)) :
              (\A a \in D : u[a] \in missed) /\ Gives(seen) = Flatten(YieldOf, u, D)
      <3> HIDE DEF u
      <3>1. Yields(YieldOf, seen, u, missed)
        BY <2>1, <2>2, YieldFun, SubYields
      <3> QED
        BY <3>1 DEF Yields, Gives
    <2>4. DOMAIN u = 1..Len(u) /\ \A a \in DOMAIN u : u[a] \in Paths
      <3> HIDE DEF u
      <3> QED
        BY <2>2, LenProperties, ElementOfSeq
    <2>5. Flatten(YieldOf, u, D) = FlattenSeq([a \in DOMAIN u |-> IF a \in D THEN <<>> ELSE Yield(u[a])])
      <3> HIDE DEF u
      <3>1. \A a \in DOMAIN u : YieldOf[u[a]] = Yield(u[a])
        BY <2>4 DEF YieldOf
      <3>2. Masked(YieldOf, u, D) = [a \in DOMAIN u |-> IF a \in D THEN <<>> ELSE Yield(u[a])]
        BY <3>1 DEF Masked
      <3> QED
        BY <3>2 DEF Flatten
    <2>6. d = Share(k, D)
      BY <1>2, <2>1, <2>3, <2>5 DEF Share
    <2>7. D \subseteq Absent(p)
      BY <2>3, <2>4 DEF Absent
    <2> QED
      BY <2>6, <2>7
  <1> QED
    BY <1>1, <1>2

LEMMA AllLoaded ==
  ASSUME args \in Arguments, missed \in SUBSET Volatile, Before(args, missed, Len(args), objects)
  PROVE  Complete
  <1>1. Len(args) \in Nat /\ DOMAIN args = 1..Len(args)
    <2>1. args \in Seq(Paths \cup {Stdin})
      BY LoaderAssumption DEF LoaderAssumption
    <2> QED
      BY <2>1, LenProperties
  <1>2. PICK share \in Seq(Seq(Documents)) :
            /\ Len(share) = Len(args)
            /\ \A k \in 1..Len(args) : Loaded(args, missed, k, share[k])
            /\ objects = FlattenSeq(share)
    BY DEF Before
  <1> DEFINE Right(k, D) == D \subseteq Absent(args[k]) /\ share[k] = Share(k, D)
             dropped == [k \in DOMAIN args |-> CHOOSE D : Right(k, D)]
  <1>3. ASSUME NEW k \in DOMAIN args PROVE Right(k, dropped[k])
    <2>1. \E D : Right(k, D)
      BY <1>1, <1>2, LoadedShare
    <2>2. dropped[k] = CHOOSE D : Right(k, D)
      OBVIOUS
    <2> HIDE DEF Right, dropped
    <2> QED
      BY <2>1, <2>2
  <1>4. dropped \in [DOMAIN args -> SUBSET UNION {Absent(args[k]) : k \in DOMAIN args}]
    <2>1. ASSUME NEW k \in DOMAIN args
          PROVE  dropped[k] \in SUBSET UNION {Absent(args[j]) : j \in DOMAIN args}
      BY <1>3
    <2>2. dropped = [k \in DOMAIN args |-> dropped[k]]
      OBVIOUS
    <2> HIDE DEF dropped
    <2> QED
      BY <2>1, <2>2
  <1>5. \A k \in DOMAIN args : dropped[k] \subseteq Absent(args[k]) /\ share[k] = Share(k, dropped[k])
    BY <1>3
  <1> HIDE DEF dropped
  <1>6. share = [k \in DOMAIN args |-> Share(k, dropped[k])]
    <2> DEFINE U == Seq(Documents)
    <2> HIDE DEF U
    <2>1. share \in Seq(U)
      BY DEF U
    <2>2. share = [k \in 1..Len(share) |-> share[k]]
      BY <2>1
    <2>3. share = [k \in DOMAIN args |-> share[k]]
      BY <1>1, <1>2, <2>2
    <2> QED
      BY <1>5, <2>3
  <1> QED
    BY <1>2, <1>4, <1>5, <1>6 DEF Complete

(* LoadObjectsFromFiles returns every document of every path given, in order,  *)
(* or fails over a path that cannot be read or decoded (loader.go:30-81).      *)
THEOREM EverythingIsLoaded == Spec => []LoadsEverything
  <1> DEFINE Inv == TypeOK /\ Progress /\ Blamed
  <1>1. Init => Inv
    <2>1. Init => Blamed
      BY DEF Init, Blamed
    <2> QED
      BY <2>1, TypeInit, ProgressInit
  <1>2. Inv /\ [Next]_vars => Inv'
    <2> SUFFICES ASSUME TypeOK, Progress, Blamed, [Next]_vars PROVE Inv'
      OBVIOUS
    <2>1. TypeOK'
      BY TypeKept
    <2>2. Progress'
      BY ProgressKept
    <2>3. Blamed'
      BY BlamedKept
    <2> QED
      BY <2>1, <2>2, <2>3
  <1>3. Inv => LoadsEverything
    <2> SUFFICES ASSUME Inv PROVE LoadsEverything
      OBVIOUS
    <2>1. ASSUME pc = "ok" PROVE Complete
      <3>1. args \in Arguments /\ Len(args) \in Nat /\ missed \in SUBSET Volatile
        BY ArgsLength DEF TypeOK
      <3>2. Before(args, missed, Len(args), objects)
        <4>1. n - 1 = Len(args)
          BY <2>1, <3>1 DEF Progress
        <4> QED
          BY <2>1, <4>1 DEF Progress
      <3> QED
        BY <3>1, <3>2, AllLoaded
    <2>2. ASSUME pc = "error" PROVE Hopeless
      BY <2>2 DEF Blamed
    <2> QED
      BY <2>1, <2>2 DEF LoadsEverything
  <1> HIDE DEF Inv
  <1> QED
    BY <1>1, <1>2, <1>3, PTL DEF Spec
================================================================================
