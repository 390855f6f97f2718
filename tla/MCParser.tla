-------------------------------- MODULE MCParser --------------------------------
(* Instances of Parser: phrases of the language, each with the nodes it stands *)
(* for; the same phrases cut off; and whatever else fragments of them make.    *)
EXTENDS Parser, SequencesExt

CONSTANTS MaxFragments, MaxEnclosing    \* bounds: the longest heaps of fragments

Says(text1, nodes) == [text |-> text1, nodes |-> nodes]
None == Says(<<>>, <<>>)
Then(x, y) == Says(x.text \o y.text, x.nodes \o y.nodes)
In(open, x, close) == Says(open \o x.text \o close, x.nodes)

(* Names and texts, as they are written and as they are meant.                 *)
K == <<"k">>
FieldOf(name)  == [type |-> "field", name |-> name]
TextOf(t)      == [type |-> "text", text |-> t]
ArrayOf(a, colon, b, step) ==
    [type |-> "array",
     params |-> ParseArray([start |-> a, stop |-> [colon |-> colon, num |-> b],
                            step |-> [colon |-> step # <<>>, num |-> step]])]

Fields == {Says(<<".", "k">>, <<FieldOf(K)>>),
           Says(<<".", "k", "\\", ".", "\\", "{">>, <<FieldOf(<<"k", ".", "{">>)>>),
           Says(<<".", "*">>, <<[type |-> "wildcard"]>>)}
Descend == Says(<<".", ".">>, <<[type |-> "recursive"]>>)

Keys   == {Says(<<"'", "k", "'">>, <<FieldOf(K)>>),
           Says(<<"'", "k", ".", "t", "'">>, <<FieldOf(K), FieldOf(<<"t">>)>>)}
Slices == {Says(<<"*">>, <<ArrayOf(<<>>, TRUE, <<>>, <<>>)>>),
           Says(<<"0">>, <<ArrayOf(<<0>>, FALSE, <<>>, <<>>)>>),
           Says(<<"-", "1", ":">>, <<ArrayOf(<<-1>>, TRUE, <<>>, <<>>)>>),
           Says(<<":", "1", "0", ":", "2">>, <<ArrayOf(<<>>, TRUE, <<10>>, <<2>>)>>)}

Literals == {Says(<<"\"", "k", ")", "\"">>, <<TextOf(<<"k", ")">>)>>),
             Says(<<"'", "]", "}", "{", "\"", "'">>, <<TextOf(<<"]", "}", "{", "\"">>)>>),
             Says(<<"\"", "\\", "\"", "\\", "\\", "\\", "n", "\"">>, <<TextOf(<<"\"", "\\", "\n">>)>>),
             Says(<<"-", "1">>, <<[type |-> "int", value |-> -1]>>),
             Says(<<"1", "0", "0">>, <<[type |-> "float", text |-> <<"1", "0", "0">>]>>),
             Says(<<"1", ".", "0">>, <<[type |-> "float", text |-> <<"1", ".", "0">>]>>),
             Says(<<"t", "r", "u", "e">>, <<[type |-> "bool", value |-> TRUE]>>),
             Says(<<"e", "n">>, <<[type |-> "identifier", name |-> <<"e", "n">>]>>)}

(* Paths, filters and unions.  A path in brackets has no escapes and no        *)
(* filter, whose characters would end the brackets, and the first member of a  *)
(* union is no filter, which would be taken for the whole.                     *)
Bracketed(S) == {In(<<"[">>, x, <<"]">>) : x \in S}
Plain  == {x \in Fields : "\\" \notin ToSet(x.text)} \cup {Descend} \cup Bracketed(Keys \cup Slices)
Paths(S) == S \cup ({Then(x, y) : x, y \in S} \ {Then(Descend, Descend)})

Compare(x, op, y) ==
    Says(<<"@">> \o x.text \o op \o y.text,
         <<[type |-> "filter", left |-> x.nodes, op |-> op, right |-> y.nodes]>>)
Exists(x) == Says(<<"@">> \o x.text,
                  <<[type |-> "filter", left |-> x.nodes, op |-> <<"exists">>, right |-> <<>>]>>)

Quoted(x) == x.text # <<>> /\ ToSet(x.text) \cap Quotes # {}
Tests == {Exists(x) : x \in Paths(Plain)}
         \cup {Compare(x, op, y) : x \in {z \in Plain : ~Quoted(z)} \cup {None},
                                   op \in {<<"<">>, <<"=", "=">>}, y \in Literals}
         \cup {Compare(x, <<"!", "=">>, y) : x, y \in Plain}
FilterOf(x) == In(<<"?", "(">>, x, <<")">>)

Either(x, y) ==
    Says(x.text \o <<",", " ">> \o y.text, <<[type |-> "union", members |-> <<x.nodes, y.nodes>>]>>)
Unions == {Either(x, y) : x \in Keys \cup Slices,
                          y \in Keys \cup Slices
                                \cup {FilterOf(Compare(None, <<"<">>, z)) :
                                         z \in {l \in Literals : ~Quoted(l)}}}

Phrases == {None} \cup Paths(Fields \cup Plain) \cup Literals
           \cup Bracketed({FilterOf(x) : x \in Tests} \cup Unions)
           \cup {Then(x, In(<<" ">>, y, <<>>)) : x, y \in Literals}
           \cup {Then(In(<<"[">>, x, <<"]">>), y) : x \in Unions, y \in Plain}

(* Templates: one phrase in braces, or two with text around them.              *)
ActionOf(x) == Says(Action(x.text), <<[type |-> "list", nodes |-> x.nodes]>>)
Written(t)  == Says(t, <<TextOf(t)>>)
Canonical == {ActionOf(x) : x \in Phrases}
             \cup {Then(Then(Written(<<"k", "}">>), ActionOf(x)), Then(ActionOf(y), Written(<<"]">>))) :
                      x, y \in Fields \cup Literals}

Cuts == UNION {{SubSeq(x.text, 1, n) : n \in 1..(Len(x.text) - 1)} :
                  x \in {ActionOf(y) : y \in Phrases}}

Fragments == {<<"{">>, <<"}">>, <<"[">>, <<"]">>, <<"[", "?", "(">>, <<")", "]">>, <<"'">>, <<"\\">>,
              <<",">>, <<".">>, <<".", "k">>, <<"=">>, <<"0">>, <<":">>}
Enclosing == {<<"[">>, <<"]">>, <<"[", "?", "(">>, <<")", "]">>, <<"'">>, <<"}">>}

Heaps == {<<"{">> \o FlattenSeq(f) : f \in BoundedSeq(Fragments, MaxFragments)}
         \cup {Action(FlattenSeq(f)) : f \in BoundedSeq(Enclosing, MaxEnclosing)}

MCLetters == {"k", "e", "n", "t", "r", "u"}
MCChars   == MCLetters \cup Digits \cup Quotes \cup Comparing
             \cup {"{", "}", "[", "]", "(", ")", "?", ":", ",", ".", "*", "@", "$", "\\", " ", "-", "\n"}
MCTexts   == {x.text : x \in Canonical} \cup Cuts \cup Heaps
--------------------------------------------------------------------------------
(* A template written in the language is read as the nodes it stands for,      *)
(* through every level of parsers, and one that is cut off inside an action is *)
(* refused, wherever the cut falls.                                            *)
ReadsBack ==
    status # "parsing" =>
        /\ \A x \in Canonical : x.text = text => status = "ok" /\ tree = x.nodes
        /\ text \in Cuts => status = "error"
================================================================================
