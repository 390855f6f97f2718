------------------------------ MODULE SliceParams ------------------------------
(* The three numbers of an array subscript: ParamsEntry (internal/util/        *)
(* jsonpath/node.go), how parseArray fills it from the text between brackets   *)
(* (parser.go), and what evalArray takes it to mean for a list (jsonpath.go).  *)
EXTENDS Integers, Sequences

CONSTANT MaxInt         \* the largest Go int

(* A subscript is up to three optional numbers, the second and third after a   *)
(* colon.  A number is any integer: strconv.Atoi refuses those no int holds.   *)
Number    == {x \in Seq(Int) : Len(x) <= 1}
Subscript == [start : Number, stop : [colon : BOOLEAN, num : Number],
              step : [colon : BOOLEAN, num : Number]]

MinInt  == -MaxInt - 1
GoInt   == MinInt..MaxInt
Add(a, b) == LET s == a + b                                  \* two's complement
             IN  IF s > MaxInt THEN s - 2 * (MaxInt + 1) ELSE s

(* ParamsEntry.                                                                *)
Unknown    == [value |-> 0, known |-> FALSE, derived |-> FALSE]
Known(n)   == [value |-> n, known |-> TRUE, derived |-> FALSE]
Derived(n) == [value |-> n, known |-> TRUE, derived |-> TRUE]
Entry      == [value : GoInt, known : BOOLEAN, derived : BOOLEAN]
Params     == [start : Entry, stop : Entry, step : Entry]

(* parseArray: the entries of an ArrayNode.  A missing stop is one past the    *)
(* start, so that "[n]" means "[n:n+1]".                                       *)
Atoi(num) == num = <<>> \/ num[1] \in GoInt

NumberEntry(num) == IF num = <<>> THEN Unknown ELSE Known(num[1])

Parses(sub) == Atoi(sub.start) /\ Atoi(sub.stop.num) /\ Atoi(sub.step.num)

ParseArray(sub) ==
    [start |-> NumberEntry(sub.start),
     stop  |-> IF sub.stop.colon THEN NumberEntry(sub.stop.num)
               ELSE Derived(Add(NumberEntry(sub.start).value, 1)),
     step  |-> NumberEntry(sub.step.num)]

IsIndex(sub) == ~sub.stop.colon

(* evalArray: what the entries mean for a list of n elements.                  *)
From(p, n) == IF p.start.value < 0 THEN p.start.value + n ELSE p.start.value

(* Mutants: the stop derived from "[-1]" taken as 0; an explicit 0 taken as    *)
(* derived.                                                                    *)
ToUnderived(p, n) ==
    IF ~p.stop.known THEN n
    ELSE IF p.stop.value < 0 THEN p.stop.value + n ELSE p.stop.value

ToAllDerived(p, n) ==
    IF ~p.stop.known THEN n
    ELSE IF p.stop.value <= 0 THEN p.stop.value + n ELSE p.stop.value

To(p, n) ==
    IF ~p.stop.known THEN n
    ELSE IF p.stop.value < 0 \/ (p.stop.value = 0 /\ p.stop.derived)
         THEN p.stop.value + n
         ELSE p.stop.value

ZeroElements(p, n) == To(p, n) = From(p, n)

(* Mutant: the stop is not compared with the length.                           *)
BoundedBelow(p, n) == /\ From(p, n) >= 0 /\ From(p, n) < n
                      /\ From(p, n) <= To(p, n)

Bounded(p, n) == /\ From(p, n) >= 0 /\ From(p, n) < n
                 /\ To(p, n) >= 0 /\ To(p, n) <= n
                 /\ From(p, n) <= To(p, n)

BadStep(p) == p.step.known /\ p.step.value <= 0
StepOf(p)  == IF p.step.known THEN p.step.value ELSE 1
================================================================================
