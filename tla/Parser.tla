--------------------------------- MODULE Parser ---------------------------------
(* The parser of JSONPath templates (internal/util/jsonpath/parser.go): a      *)
(* cursor that moves through the text, one mode per parse function, and a      *)
(* parser of its own for every member of a union, key between brackets and     *)
(* operand of a filter.                                                        *)
(*                                                                             *)
(* A text is a sequence of characters.  Numeric escapes in quotes (\x, \u and  *)
(* octal) are left out: Texts must have none.                                  *)
EXTENDS SliceParams

CONSTANTS
    Chars,          \* characters: TLA+ strings of length one
    Letters,        \* those that unicode.IsLetter knows
    Texts           \* the templates parsed

Digits   == {"0", "1", "2", "3", "4", "5", "6", "7", "8", "9"}
AlphaNumeric == Letters \cup Digits \cup {"_"}
Eof      == "eof"
LineEnds == {"\r", "\n"}
Terminators == LineEnds \cup {" ", "\t", Eof, ".", ",", "[", "]", "$", "@", "{", "}"}
Quotes   == {"\"", "'"}
Comparing == {"!", "<", ">", "="}

ASSUME ParserAssumption ==
    /\ MaxInt \in Nat
    /\ Eof \notin Chars
    /\ Texts \subseteq Seq(Chars)
    /\ {"{", "}", "[", "]", "."} \subseteq Chars
--------------------------------------------------------------------------------
(* Texts: where one of some characters first, or last, stands.                 *)
FirstOf(t, S) == CHOOSE i \in 1..(Len(t) + 1) : /\ i <= Len(t) => t[i] \in S
                                              /\ \A h \in 1..(i - 1) : t[h] \notin S

LastOf(t, S)  == CHOOSE i \in 0..Len(t) : /\ i > 0 => t[i] \in S
                                        /\ \A h \in (i + 1)..Len(t) : t[h] \notin S

Before(t, c)   == SubSeq(t, 1, FirstOf(t, {c}) - 1)
After(t, c)    == SubSeq(t, FirstOf(t, {c}) + 1, Len(t))
Has(t, c) == \E i \in DOMAIN t : t[i] = c

Trim(t)        == SubSeq(t, FirstOf(t, Chars \ {" "}), LastOf(t, Chars \ {" "}))

(* dictKeyRex: a text in single quotes without one inside.                     *)
IsDictKey(t) == /\ Len(t) >= 2 /\ t[1] = "'" /\ t[Len(t)] = "'"
                /\ \A i \in 2..(Len(t) - 1) : t[i] # "'"

(* sliceOperatorRex and strconv.Atoi.                                          *)
Numerals == <<"0", "1", "2", "3", "4", "5", "6", "7", "8", "9">>
Sign(t, signs)     == IF t # <<>> /\ t[1] \in signs THEN 1 ELSE 0
Unsigned(t, signs) == SubSeq(t, Sign(t, signs) + 1, Len(t))
AllDigits(t)       == \A i \in DOMAIN t : t[i] \in Digits

Value(t, signs) ==
    LET d == Unsigned(t, signs)
        v[i \in 0..Len(d)] == IF i = 0 THEN 0
                              ELSE 10 * v[i - 1] + (CHOOSE n \in 0..9 : Numerals[n + 1] = d[i])
    IN  IF Sign(t, signs) = 1 /\ t[1] = "-" THEN -v[Len(d)] ELSE v[Len(d)]

NumberOf(t) == IF t = <<>> THEN <<>> ELSE <<Value(t, {"-"})>>

Sub(t) ==
    LET u == After(t, ":")
    IN  [start |-> Before(t, ":"), stop |-> Before(u, ":"), step |-> After(u, ":")]

IsSlice(t) ==
    \A part \in {"start", "stop", "step"} :
        /\ AllDigits(Unsigned(Sub(t)[part], {"-"}))
        /\ Sub(t)[part] # <<"-">>

SubscriptOf(t) ==
    [start |-> NumberOf(Sub(t).start),
     stop  |-> [colon |-> Has(t, ":"), num |-> NumberOf(Sub(t).stop)],
     step  |-> [colon |-> Has(After(t, ":"), ":"), num |-> NumberOf(Sub(t).step)]]

(* The expression that splits a filter: an operator takes all it can, but      *)
(* leaves one character to the right operand.                                  *)
OpAt(t) == FirstOf(t, Comparing)
OpLen(t) ==
    LET rest == SubSeq(t, OpAt(t), Len(t))
        run  == FirstOf(rest, Chars \ Comparing) - 1
    IN  IF run = Len(rest) THEN run - 1 ELSE run

IsComparison(t) == OpAt(t) > 1 /\ OpLen(t) > 0

Left(t)  == SubSeq(t, 1, OpAt(t) - 1)
Op(t)    == SubSeq(t, OpAt(t), OpAt(t) + OpLen(t) - 1)
Right(t) == SubSeq(t, OpAt(t) + OpLen(t), Len(t))

(* UnquoteExtend, on what stands between the quotes.                           *)
Control == [a |-> "\\a", b |-> "\\b", f |-> "\f", n |-> "\n", r |-> "\r", t |-> "\t", v |-> "\\v"]

Escapes(t) ==
    LET e[i \in 0..Len(t)] == IF i = 0 THEN FALSE ELSE t[i] = "\\" /\ ~e[i - 1] IN e

Unquotes(t, quote) ==
    \A i \in DOMAIN t :
        /\ Escapes(t)[i] => i < Len(t) /\ t[i + 1] \in {"\\", quote} \cup DOMAIN Control
        /\ t[i] = quote  => Escapes(t)[i - 1]

Unquoted(t) ==
    LET kept == SelectSeq([i \in DOMAIN t |-> i], LAMBDA i : ~Escapes(t)[i])
    IN  [k \in DOMAIN kept |->
            IF Escapes(t)[kept[k] - 1] /\ t[kept[k]] \in DOMAIN Control
            THEN Control[t[kept[k]]] ELSE t[kept[k]]]

(* strconv.ParseFloat, on what parseNumber lets through.                       *)
Signs == {"+", "-"}
IsInt(t)   == /\ Unsigned(t, Signs) # <<>> /\ AllDigits(Unsigned(t, Signs))
              /\ Value(t, Signs) \in GoInt
IsFloat(t) == LET d == Unsigned(t, Signs)
              IN  /\ AllDigits(Before(d, ".")) /\ AllDigits(After(d, "."))
                  /\ \E i \in DOMAIN d : d[i] \in Digits
--------------------------------------------------------------------------------
VARIABLES
    text,           \* the template
    stack,          \* the parsers at work, the innermost last
    status,         \* "parsing", "ok", "error"
    tree            \* the nodes of the template once it is parsed

vars == <<text, stack, status, tree>>

(* Parser, with the local variables of its parse functions.                    *)
NewParser(t) ==
    [input |-> t, pos |-> 0, start |-> 0,
     root   |-> <<>>,       \* Root.Nodes: texts and lists, the last one is cur
     mode   |-> "text",     \* the parse function
     pair   |-> Eof,        \* parseQuote, parseFilter: the quote that opened
     closed |-> FALSE,      \* parseFilter: end
     make   |-> "none",     \* what parseAction is called for,
     op     |-> <<>>,       \* a filter's operator,
     calls  |-> <<>>,       \* the texts it is still to be called with
     got    |-> <<>>]       \* and what it has returned

p == stack[Len(stack)]
c == IF p.pos < Len(p.input) THEN p.input[p.pos + 1] ELSE Eof

HasPrefix(s) == /\ p.pos + Len(s) <= Len(p.input)
                /\ \A i \in DOMAIN s : p.input[p.pos + i] = s[i]

Consumed == SubSeq(p.input, p.start + 1, p.pos)

At(mode) == status = "parsing" /\ p.mode = mode

Continue(f) == /\ stack' = [stack EXCEPT ![Len(stack)] = f]
               /\ UNCHANGED <<text, status, tree>>

Fail == /\ status' = "error" /\ stack' = <<>>
        /\ UNCHANGED <<text, tree>>

(* next, n times; and consumeText.                                             *)
Step(f, n)    == [f EXCEPT !.pos = @ + n]
Drop(f, mode) == [f EXCEPT !.start = f.pos, !.mode = mode]

AppendText(f) ==
    IF f.pos > f.start
    THEN [f EXCEPT !.root = Append(@, [type |-> "text", text |-> Consumed]), !.start = f.pos]
    ELSE f

AppendTo(f, nodes) == [f EXCEPT !.root[Len(f.root)].nodes = @ \o nodes]

(* A parse function ends by appending to cur and going on inside the action.   *)
Emit(nodes) == Continue(Drop(AppendTo(p, nodes), "inside"))

Init == /\ text \in Texts
        /\ stack = <<NewParser(text)>>
        /\ status = "parsing"
        /\ tree = <<>>

(* parseText, parseLeftDelim and parseRightDelim.                              *)
LeftDelim ==
    /\ At("text") /\ c = "{"
    /\ LET f == AppendText(p)
       IN  Continue(Drop(Step([f EXCEPT !.root = Append(@, [type |-> "list", nodes |-> <<>>])], 1),
                         "inside"))

PassText == At("text") /\ c \notin {"{", Eof} /\ Continue(Step(p, 1))

EndText == /\ At("text") /\ c = Eof
           /\ Continue([AppendText(p) EXCEPT !.mode = "end"])

RightDelim == At("inside") /\ c = "}" /\ Continue(Drop(Step(p, 1), "text"))

(* parseInsideAction: what the next characters begin.                          *)
Descent == HasPrefix(<<".", ".">>)
Filter  == HasPrefix(<<"[", "?", "(">>)

Unclosed == At("inside") /\ c \in LineEnds \cup {Eof} /\ Fail

(* Mutant: a character looked at and not taken.                                *)
SkipPeeked == At("inside") /\ c \in {" ", "@", "$"} /\ Continue(Drop(p, "inside"))

Skip     == At("inside") /\ c \in {" ", "@", "$"} /\ Continue(Drop(Step(p, 1), "inside"))

BeginArray == At("inside") /\ c = "[" /\ ~Filter /\ Continue([Step(p, 1) EXCEPT !.mode = "array"])
BeginQuote == At("inside") /\ c \in Quotes
              /\ Continue([Step(p, 1) EXCEPT !.mode = "quote", !.pair = c])
BeginField == At("inside") /\ c = "." /\ ~Descent /\ Continue(Drop(Step(p, 1), "field"))
BeginNumber == At("inside") /\ c \in Signs \cup Digits
               /\ Continue([Step(p, 1) EXCEPT !.mode = "number"])
BeginIdentifier == At("inside") /\ c \in AlphaNumeric \ Digits
                   /\ Continue([p EXCEPT !.mode = "identifier"])

Unrecognized ==
    /\ At("inside")
    /\ c \notin LineEnds \cup {Eof, "}", " ", "@", "$", "[", "."} \cup Quotes \cup Signs
    /\ c \notin AlphaNumeric
    /\ Fail

(* parseRecursive.                                                             *)
LastNode(f) == LET cur == f.root[Len(f.root)].nodes
               IN  IF cur = <<>> THEN [type |-> "none"] ELSE cur[Len(cur)]

Recursive ==
    /\ At("inside") /\ Descent
    /\ IF LastNode(p).type = "recursive" THEN Fail
       ELSE LET f == Step(AppendTo(p, <<[type |-> "recursive"]>>), 2)
            IN  Continue(Drop(f, IF /\ f.pos < Len(f.input)
                                    /\ f.input[f.pos + 1] \in AlphaNumeric
                                 THEN "field" ELSE "inside"))

(* parseIdentifier.                                                            *)
ScanIdentifier == At("identifier") /\ c \notin Terminators /\ Continue(Step(p, 1))

EndIdentifier ==
    /\ At("identifier") /\ c \in Terminators
    /\ Emit(IF Consumed \in {<<"t", "r", "u", "e">>, <<"f", "a", "l", "s", "e">>}
            THEN <<[type |-> "bool", value |-> Consumed[1] = "t"]>>
            ELSE <<[type |-> "identifier", name |-> Consumed]>>)

(* parseNumber.                                                                *)
ScanNumber == At("number") /\ c \in Digits \cup {"."} /\ Continue(Step(p, 1))

EndNumber ==
    /\ At("number") /\ c \notin Digits \cup {"."}
    /\ IF IsInt(Consumed) THEN Emit(<<[type |-> "int", value |-> Value(Consumed, Signs)]>>)
       ELSE IF IsFloat(Consumed) THEN Emit(<<[type |-> "float", text |-> Consumed]>>)
       ELSE Fail

(* parseField and advance: a backslash takes the next character along.  Mutant: *)
(* also at the end of the text.                                                *)
ScanFieldBlindly ==
    /\ At("field") /\ c \notin Terminators
    /\ Continue(Step(p, IF c = "\\" THEN 2 ELSE 1))

ScanField ==
    /\ At("field") /\ c \notin Terminators
    /\ Continue(Step(p, IF c = "\\" /\ p.pos + 2 <= Len(p.input) THEN 2 ELSE 1))

EndField ==
    /\ At("field") /\ c \in Terminators
    /\ Emit(IF Consumed = <<"*">> THEN <<[type |-> "wildcard"]>>
            ELSE <<[type |-> "field", name |-> SelectSeq(Consumed, LAMBDA x : x # "\\")]>>)

(* parseQuote: the quote ends where no backslash stands before it.  Mutant: the *)
(* backslash overlooked.                                                       *)
UnescapedAlways == c = p.pair

Unescaped == c = p.pair /\ p.input[p.pos] # "\\"

ScanQuote == /\ At("quote") /\ c \notin {Eof, "\n"} /\ ~Unescaped
             /\ Continue(Step(p, 1))

FailQuote == At("quote") /\ c \in {Eof, "\n"} /\ Fail

EndQuote ==
    /\ At("quote") /\ Unescaped
    /\ \E t \in {SubSeq(p.input, p.start + 2, p.pos)} :
          IF Unquotes(t, p.pair)
          THEN Continue(Drop(AppendTo(Step(p, 1), <<[type |-> "text", text |-> Unquoted(t)]>>),
                             "inside"))
          ELSE Fail

(* parseArray: a union, a key in quotes, or a subscript.                       *)
ScanArray == At("array") /\ c \notin {Eof, "\n", "]"} /\ Continue(Step(p, 1))
FailArray == At("array") /\ c \in {Eof, "\n"} /\ Fail

Brackets == LET t == SubSeq(p.input, p.start + 2, p.pos)
            IN  IF t = <<"*">> THEN <<":">> ELSE t

Key(t) == <<".">> \o SubSeq(t, 2, Len(t) - 1)

Calling(f, make, calls) ==
    [Drop(f, "calls") EXCEPT !.make = make, !.calls = calls, !.got = <<>>]

EndArray ==
    /\ At("array") /\ c = "]"
    /\ \E t \in {Brackets}, f \in {Step(p, 1)} :
          IF Has(t, ",")
          THEN Continue(Calling(f, "union", <<t>>))
          ELSE IF IsDictKey(t) THEN Continue(Calling(f, "key", <<Key(t)>>))
          ELSE IF IsSlice(t) /\ Parses(SubscriptOf(t))
          THEN Continue(Drop(AppendTo(f, <<[type   |-> "array",
                                            params |-> ParseArray(SubscriptOf(t))]>>),
                             "inside"))
          ELSE Fail

(* parseFilter: to a parenthesis outside the first pair of quotes.             *)
BeginFilter ==
    At("inside") /\ Filter
    /\ Continue([Drop(Step(p, 3), "filter") EXCEPT !.pair = Eof, !.closed = FALSE])

(* Mutant: quotes overlooked.                                                  *)
ClosingAnywhere == c = ")"

Closing == c = ")" /\ (p.pair # Eof) = p.closed

ScanFilter ==
    /\ At("filter") /\ c \notin {Eof, "\n"} /\ ~Closing
    /\ Continue([Step(p, 1) EXCEPT !.pair   = IF @ = Eof /\ c \in Quotes THEN c ELSE @,
                                   !.closed = @ \/ Unescaped])

FailFilter == At("filter") /\ c \in {Eof, "\n"} /\ Fail

EndFilter ==
    /\ At("filter") /\ Closing
    /\ \E t \in {SubSeq(p.input, p.start + 1, p.pos)}, f \in {Step(p, 2)} :
          IF ~HasPrefix(<<")", "]">>) THEN Fail
          ELSE IF IsComparison(t)
          THEN Continue([Calling(f, "filter", <<Left(t), Right(t)>>) EXCEPT !.op = Op(t)])
          ELSE Continue([Calling(f, "filter", <<t>>) EXCEPT !.op = <<"exists">>])

(* parseAction: a parser of its own, whose first list is what it returns.  A   *)
(* union keeps the members it has not come to in one text.                     *)
Action(t) == <<"{">> \o t \o <<"}">>
Member(t) == <<"[">> \o Trim(t) \o <<"]">>

(* Mutant: a member called with all that is left of its union.                 *)
NextTextUnsplit(f) == IF f.make = "union" THEN Member(f.calls[1]) ELSE f.calls[1]

NextText(f) == IF f.make = "union" THEN Member(Before(f.calls[1], ",")) ELSE f.calls[1]

Others(f) == IF f.make # "union" THEN Tail(f.calls)
             ELSE IF Has(f.calls[1], ",") THEN <<After(f.calls[1], ",")>> ELSE <<>>

Call ==
    /\ At("calls") /\ p.calls # <<>>
    /\ stack' = Append([stack EXCEPT ![Len(stack)].calls = Others(p)],
                       NewParser(Action(NextText(p))))
    /\ UNCHANGED <<text, status, tree>>

Return ==
    /\ At("end") /\ Len(stack) > 1
    /\ LET caller == stack[Len(stack) - 1]
       IN  stack' = Append(SubSeq(stack, 1, Len(stack) - 2),
                           [caller EXCEPT !.got = Append(@, p.root[1].nodes)])
    /\ UNCHANGED <<text, status, tree>>

Called(make) == At("calls") /\ p.calls = <<>> /\ p.make = make

EndUnion == Called("union") /\ Emit(<<[type |-> "union", members |-> p.got]>>)
EndKey   == Called("key") /\ Emit(p.got[1])
EndOperands ==
    /\ Called("filter")
    /\ Emit(<<[type |-> "filter", left |-> p.got[1], op |-> p.op,
               right |-> IF Len(p.got) = 2 THEN p.got[2] ELSE <<>>]>>)

Accept ==
    /\ At("end") /\ Len(stack) = 1
    /\ status' = "ok" /\ stack' = <<>> /\ tree' = p.root
    /\ UNCHANGED text

Next ==
    \/ LeftDelim \/ PassText \/ EndText \/ RightDelim
    \/ Unclosed \/ Skip \/ Unrecognized \/ Recursive
    \/ BeginIdentifier \/ ScanIdentifier \/ EndIdentifier
    \/ BeginNumber \/ ScanNumber \/ EndNumber
    \/ BeginField \/ ScanField \/ EndField
    \/ BeginQuote \/ ScanQuote \/ FailQuote \/ EndQuote
    \/ BeginArray \/ ScanArray \/ FailArray \/ EndArray
    \/ BeginFilter \/ ScanFilter \/ FailFilter \/ EndFilter
    \/ Call \/ Return \/ EndUnion \/ EndKey \/ EndOperands \/ Accept

Spec     == Init /\ [][Next]_vars
FairSpec == Spec /\ WF_vars(Next)
--------------------------------------------------------------------------------
(* The cursor stays in the text and behind it nothing is left over between     *)
(* nodes; there is a list to append to in an action; and what a called parser  *)
(* returns is a list and not a text.                                           *)
Frame(f) ==
    /\ 0 <= f.start /\ f.start <= f.pos /\ f.pos <= Len(f.input)
    /\ f.mode \in {"inside", "calls", "end"} => f.start = f.pos
    /\ f.mode \in {"quote", "array"} => f.start < f.pos
    /\ f.mode = "filter" => f.start > 0
    /\ f.mode \notin {"text", "end"} => f.root # <<>> /\ f.root[Len(f.root)].type = "list"

Callee(f) == IF f.root = <<>> THEN f.pos = 0 /\ f.mode = "text" /\ f.input[1] = "{"
             ELSE f.root[1].type = "list"

TypeOK ==
    /\ status \in {"parsing", "ok", "error"}
    /\ status = "parsing" <=> stack # <<>>
    /\ \A k \in DOMAIN stack : Frame(stack[k])
    /\ \A k \in 2..Len(stack) : Callee(stack[k])
    /\ \A k \in 1..(Len(stack) - 1) : stack[k].mode = "calls"

(* A parser works on less than its caller: on a shorter text, or on one as     *)
(* long that is the only member of a union left in it.  Nesting is no deeper   *)
(* than the template is long.                                                  *)
Weight(t) == Len(t) + (IF Has(t, ",") THEN 1 ELSE 0)

Shrinks == \A k \in 1..(Len(stack) - 1) : Weight(stack[k + 1].input) < Weight(stack[k].input)

(* Every template is parsed or refused.                                        *)
Terminates == <>(status # "parsing")
================================================================================
