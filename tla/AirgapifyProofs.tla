---------------------------- MODULE AirgapifyProofs ----------------------------
(* Theorems about Airgapify, for any objects, rules and references.  The       *)
(* invariant has four parts: types, where the command is (Flow), the rules     *)
(* collected so far (Collected) and what has been extracted (Extracted).       *)
EXTENDS Airgapify, SequenceTheorems, TLAPS

(* The types of what the extraction loops use.                                 *)
Types2 ==
    /\ objects \in Inputs
    /\ rules \in Seq(Rule)
    /\ o \in 1..(Len(objects) + 1)
    /\ r \in 1..(Len(rules) + 1)
    /\ p \in Nat \ {0}
    /\ images \subseteq Names

(* How the exit status, the phase of Create and the output go together.        *)
Flow ==
    /\ pc \in {"parse", "Before", "load", "config", "extract"} => phase = "idle" /\ code = 0
    /\ pc = "archive" => phase = "running"
    /\ pc \in {"After", "shutdown", "exit", "exited"} =>
           /\ phase \in {"idle", "ok", "failed"}
           /\ asked = "archive" => (code = 0 <=> phase = "ok")
    /\ asked = "help" => /\ phase = "idle"
                         /\ pc \in {"parse", "After", "shutdown", "exit", "exited", "killed"}
    /\ phase = "ok" => file = Create!ArchiveOf(want)
    /\ phase # "idle" => /\ want = images
                         /\ o > Len(objects)
                         /\ platformFlag # "invalid"

(* The rules of the Config objects before the n-th object, which converted.    *)
Taken(n) ==
    {DefaultRules[a] : a \in DOMAIN DefaultRules} \cup
    UNION {{objects[a].rules[b] : b \in DOMAIN objects[a].rules} :
              a \in {c \in 1..(n - 1) : objects[c].type = ConfigType}}

Converted(n) == \A a \in 1..(n - 1) : objects[a].type = ConfigType => objects[a].converts

RuleSet == {rules[a] : a \in DOMAIN rules}

Begun == pc = "extract" \/ phase # "idle"

Collected ==
    /\ pc \in {"parse", "Before", "load"} => rules = DefaultRules /\ o = 1
    /\ pc \in {"parse", "Before", "load", "config"} => images = {}
    /\ pc = "config" => RuleSet = Taken(o) /\ Converted(o)
    /\ Begun => RuleSet = RulesInForce /\ Converted(Len(objects) + 1)

(* Path c of rule b has been evaluated on object a if the loops are past it;   *)
(* then it did not fail and its references are among the images, which hold    *)
(* nothing else.                                                               *)
Past(a, b, c)  == \/ a < o
                  \/ a = o /\ b < r
                  \/ a = o /\ b = r /\ c < p
Match(a, b)    == objects[a].type = rules[b].type
Result(a, b, c) == objects[a].yields[rules[b].paths[c]]

Extracted ==
    Begun =>
        /\ \A a \in DOMAIN objects, b \in DOMAIN rules : \A c \in DOMAIN rules[b].paths :
               Past(a, b, c) /\ Match(a, b) =>
                   Result(a, b, c).st = "ok" /\ Result(a, b, c).refs \subseteq images
        /\ \A x \in images :
               \E a \in DOMAIN objects, b \in DOMAIN rules : \E c \in DOMAIN rules[b].paths :
                   Match(a, b) /\ x \in Result(a, b, c).refs

Inv == Types2 /\ Flow /\ Collected /\ Extracted
--------------------------------------------------------------------------------
LEMMA ObjectTypes ==
  ASSUME objects \in Inputs
  PROVE  /\ objects \in Seq(Object) /\ Len(objects) \in Nat
         /\ DOMAIN objects = 1..Len(objects)
         /\ \A a \in DOMAIN objects :
                /\ objects[a] \in Object /\ objects[a].rules \in Seq(Rule)
                /\ objects[a].yields \in [Paths -> Outcome]
  <1>1. objects \in Seq(Object)
    BY AirgapifyAssumption
  <1>2. \A a \in DOMAIN objects : objects[a] \in Object
    BY <1>1
  <1> QED
    BY <1>1, <1>2 DEF Object

LEMMA RuleTypes ==
  ASSUME rules \in Seq(Rule)
  PROVE  /\ Len(rules) \in Nat /\ DOMAIN rules = 1..Len(rules)
         /\ \A b \in DOMAIN rules :
                /\ rules[b] \in Rule
                /\ rules[b].paths \in Seq(Paths)
                /\ Len(rules[b].paths) \in Nat
                /\ DOMAIN rules[b].paths = 1..Len(rules[b].paths)
                /\ \A c \in DOMAIN rules[b].paths : rules[b].paths[c] \in Paths
  <1>1. \A b \in DOMAIN rules : rules[b] \in Rule
    OBVIOUS
  <1>2. \A b \in DOMAIN rules : rules[b].paths \in Seq(Paths)
    BY <1>1 DEF Rule
  <1> QED
    BY <1>1, <1>2

(* What a path yields when the loops are at it.                                *)
LEMMA ResultType ==
  ASSUME Types2, o <= Len(objects), r <= Len(rules), p <= Len(rules[r].paths)
  PROVE  /\ o \in DOMAIN objects /\ r \in DOMAIN rules /\ p \in DOMAIN rules[r].paths
         /\ Result(o, r, p) \in Outcome
  <1>1. o \in DOMAIN objects /\ r \in DOMAIN rules
    BY ObjectTypes, RuleTypes DEF Types2
  <1>2. p \in DOMAIN rules[r].paths
    BY <1>1, RuleTypes DEF Types2
  <1>3. rules[r].paths[p] \in Paths /\ objects[o].yields \in [Paths -> Outcome]
    BY <1>1, <1>2, RuleTypes, ObjectTypes DEF Types2
  <1> QED
    BY <1>1, <1>2, <1>3 DEF Result

LEMMA InitInv == Init => Inv
  <1> SUFFICES ASSUME Init PROVE Inv
    OBVIOUS
  <1>1. DefaultRules \in Seq(Rule) /\ Len(DefaultRules) \in Nat
    BY AirgapifyAssumption
  <1>2. Len(objects) \in Nat
    BY ObjectTypes DEF Init
  <1>3. phase = "idle"
    BY DEF Init, Create!CInit
  <1>4. Types2
    BY <1>1, <1>2 DEF Init, Types2
  <1>5. Flow
    BY <1>3 DEF Init, Flow
  <1>6. Collected /\ Extracted
    BY <1>3 DEF Init, Collected, Extracted, Begun
  <1> QED
    BY <1>4, <1>5, <1>6 DEF Inv
--------------------------------------------------------------------------------
(* Most steps leave the loops alone: then the loops' parts of the invariant    *)
(* only depend on where the command is.                                        *)
LEMMA LoopsKept ==
  ASSUME Inv, UNCHANGED <<objects, evars>>,
         pc' \in {"parse", "Before", "load"} => pc \in {"parse", "Before", "load"},
         pc' = "config" => pc = "config",
         Begun' => Begun
  PROVE  Types2' /\ Collected' /\ Extracted'
  <1>1. UNCHANGED <<objects, rules, o, r, p, images>>
    BY DEF evars
  <1>2. Types2'
    BY <1>1 DEF Inv, Types2
  <1>3. /\ RuleSet' = RuleSet /\ RulesInForce' = RulesInForce
        /\ Taken(o)' = Taken(o) /\ Converted(o)' = Converted(o)
        /\ Converted(Len(objects) + 1)' = Converted(Len(objects) + 1)
    BY <1>1 DEF RuleSet, RulesInForce, Taken, Converted
  <1>4. Collected'
    <2>1. pc' \in {"parse", "Before", "load"} => rules' = DefaultRules /\ o' = 1
      BY <1>1 DEF Inv, Collected
    <2>2. pc' \in {"parse", "Before", "load", "config"} => images' = {}
      BY <1>1 DEF Inv, Collected
    <2>3. pc' = "config" => RuleSet' = Taken(o)' /\ Converted(o)'
      BY <1>3 DEF Inv, Collected
    <2>4. Begun' => RuleSet' = RulesInForce' /\ Converted(Len(objects) + 1)'
      BY <1>3 DEF Inv, Collected
    <2> QED
      BY <2>1, <2>2, <2>3, <2>4 DEF Collected
  <1>5. \A a, b, c : /\ Past(a, b, c)' = Past(a, b, c)
                     /\ Match(a, b)' = Match(a, b)
                     /\ Result(a, b, c)' = Result(a, b, c)
    BY <1>1 DEF Past, Match, Result
  <1>6. Extracted'
    BY <1>1, <1>5 DEF Inv, Extracted
  <1> QED
    BY <1>2, <1>4, <1>6
--------------------------------------------------------------------------------
LEMMA FlowStep == Inv /\ [Next]_vars => Flow'
  <1> SUFFICES ASSUME Inv, [Next]_vars PROVE Flow'
    OBVIOUS
  <1> USE DEF Flow, cvars, evars, tvars, Finish
  <1>0. Flow
    BY DEF Inv
  <1>1. CASE ParseFlags
    BY <1>0, <1>1 DEF ParseFlags
  <1>2. CASE Before
    BY <1>0, <1>2 DEF Before
  <1>3. CASE Load
    BY <1>0, <1>3 DEF Load
  <1>4. CASE FindConfig
    BY <1>0, <1>4 DEF FindConfig, TakeRules
  <1>5. CASE EndConfigs
    BY <1>0, <1>5 DEF EndConfigs
  <1>6. CASE ExtractPath
    <2>1. /\ pc = "extract" /\ UNCHANGED <<asked, platformFlag, o, phase, want, got, file>>
          /\ \/ UNCHANGED <<pc, code>>
             \/ Finish(1)
             \/ Finish(2)
      BY <1>6, ResultType DEF ExtractPath, Inv, Outcome, Result
    <2> QED
      BY <1>0, <2>1
  <1>7. CASE NextRule
    BY <1>0, <1>7 DEF NextRule
  <1>8. CASE NextObject
    BY <1>0, <1>8 DEF NextObject
  <1>9. CASE ParsePlatform
    <2>1. pc = "extract" /\ o > Len(objects) /\ UNCHANGED <<asked, objects, o, images, platformFlag>>
      BY <1>9 DEF ParsePlatform
    <2>2. CASE platformFlag # "invalid" /\ pc' = "archive" /\ Create!Begin(images)
      BY <1>0, <2>1, <2>2 DEF Create!Begin
    <2>3. CASE platformFlag = "invalid" /\ Finish(1) /\ UNCHANGED cvars
      BY <1>0, <1>9, <2>1, <2>3 DEF ParsePlatform
    <2> QED
      BY <1>9, <2>2, <2>3 DEF ParsePlatform
  <1>10. CASE CreateWorks
    <2>1. phase' = phase /\ want' = want /\ phase = "running"
      BY <1>10 DEF CreateWorks, Create!Obtain, Create!Damage, Create!Publish
    <2> QED
      BY <1>0, <1>10, <2>1 DEF CreateWorks
  <1>11. CASE CreateReturns
    BY <1>0, <1>11 DEF CreateReturns, Create!Succeed, Create!GiveUp
  <1>12. CASE After
    BY <1>0, <1>12 DEF After
  <1>13. CASE Drained \/ Timeout
    BY <1>0, <1>13 DEF Drained, Timeout
  <1>14. CASE Exit
    BY <1>0, <1>14 DEF Exit
  <1>15. CASE Deliver
    BY <1>0, <1>15 DEF Deliver
  <1>16. CASE Kill
    BY <1>0, <1>16 DEF Kill, Create!GiveUp
  <1>17. CASE UNCHANGED vars
    BY <1>0, <1>17 DEF vars
  <1> QED
    BY <1>1, <1>2, <1>3, <1>4, <1>5, <1>6, <1>7, <1>8, <1>9, <1>10, <1>11, <1>12,
       <1>13, <1>14, <1>15, <1>16, <1>17 DEF Next, Step
--------------------------------------------------------------------------------
(* The loop over the objects takes the rules of the o-th object.               *)
LEMMA TakenGrows ==
  ASSUME objects \in Inputs, NEW n \in 1..Len(objects)
  PROVE  /\ objects[n].type = ConfigType =>
                Taken(n + 1) = Taken(n) \cup {objects[n].rules[b] : b \in DOMAIN objects[n].rules}
         /\ objects[n].type # ConfigType => Taken(n + 1) = Taken(n)
         /\ Converted(n) /\ (objects[n].type = ConfigType => objects[n].converts) =>
                Converted(n + 1)
  <1> DEFINE C(k) == {c \in 1..(k - 1) : objects[c].type = ConfigType}
  <1>1. Len(objects) \in Nat
    BY ObjectTypes
  <1>2. objects[n].type = ConfigType => C(n + 1) = C(n) \cup {n}
    BY <1>1
  <1>3. objects[n].type # ConfigType => C(n + 1) = C(n)
    BY <1>1
  <1> DEFINE F(a) == {objects[a].rules[b] : b \in DOMAIN objects[a].rules}
             D    == {DefaultRules[a] : a \in DOMAIN DefaultRules}
  <1>4. /\ Taken(n) = D \cup UNION {F(a) : a \in C(n)}
        /\ Taken(n + 1) = D \cup UNION {F(a) : a \in C(n + 1)}
    BY DEF Taken
  <1>5. Converted(n) /\ (objects[n].type = ConfigType => objects[n].converts) =>
            Converted(n + 1)
    BY <1>1 DEF Converted
  <1> HIDE DEF C, D
  <1>6. ASSUME objects[n].type = ConfigType
        PROVE  Taken(n + 1) = Taken(n) \cup F(n)
    <2> HIDE DEF F
    <2>1. UNION {F(a) : a \in C(n + 1)} = (UNION {F(a) : a \in C(n)}) \cup F(n)
      <3>1. ASSUME NEW q \in UNION {F(a) : a \in C(n + 1)}
            PROVE  q \in (UNION {F(a) : a \in C(n)}) \cup F(n)
        <4>1. PICK a \in C(n + 1) : q \in F(a)
          BY <3>1
        <4>2. a \in C(n) \/ a = n
          BY <1>2, <1>6, <4>1
        <4> QED
          BY <4>1, <4>2
      <3>2. ASSUME NEW q \in (UNION {F(a) : a \in C(n)}) \cup F(n)
            PROVE  q \in UNION {F(a) : a \in C(n + 1)}
        <4>1. PICK a \in C(n + 1) : q \in F(a)
          BY <1>2, <1>6, <3>2
        <4> QED
          BY <4>1
      <3> QED
        BY <3>1, <3>2
    <2> QED
      BY <1>4, <2>1
  <1>7. ASSUME objects[n].type # ConfigType
        PROVE  Taken(n + 1) = Taken(n)
    BY <1>3, <1>4, <1>7
  <1> QED
    BY <1>5, <1>6, <1>7

LEMMA FindConfigInv ==
  ASSUME Inv, FindConfig
  PROVE  Types2' /\ Collected' /\ Extracted'
  <1>1. /\ pc = "config" /\ o <= Len(objects) /\ o \in 1..Len(objects)
        /\ UNCHANGED <<objects, r, p, images, phase>>
        /\ phase = "idle" /\ images = {} /\ RuleSet = Taken(o) /\ Converted(o)
    BY ObjectTypes DEF FindConfig, TakeRules, cvars, Inv, Types2, Flow, Collected
  <1>2. CASE Finish(1) /\ UNCHANGED <<rules, o>>
    <2>1. ~Begun' /\ pc' = "After"
      BY <1>1, <1>2 DEF Begun, Finish
    <2> QED
      BY <1>1, <1>2, <2>1 DEF Inv, Types2, Collected, Extracted
  <1>3. CASE /\ IsConfig => objects[o].converts
             /\ rules' = IF IsConfig THEN rules \o objects[o].rules ELSE rules
             /\ o' = o + 1
             /\ UNCHANGED <<pc, code>>
    <2>1. ~Begun' /\ pc' = "config"
      BY <1>1, <1>3 DEF Begun
    <2>2. rules \in Seq(Rule) /\ objects[o].rules \in Seq(Rule)
      BY <1>1, ObjectTypes DEF Inv, Types2
    <2>3. /\ rules' \in Seq(Rule) /\ Len(rules') >= Len(rules)
          /\ IsConfig => RuleSet' = RuleSet \cup {objects[o].rules[b] : b \in DOMAIN objects[o].rules}
          /\ ~IsConfig => RuleSet' = RuleSet
      <3> DEFINE add == objects[o].rules
      <3>1. CASE IsConfig
        <4>1. rules' = rules \o add
          BY <1>3, <3>1
        <4>2. /\ rules' \in Seq(Rule) /\ Len(rules') = Len(rules) + Len(add)
              /\ \A i \in 1..(Len(rules) + Len(add)) :
                     rules'[i] = IF i <= Len(rules) THEN rules[i] ELSE add[i - Len(rules)]
              /\ Len(rules) \in Nat /\ Len(add) \in Nat
              /\ DOMAIN rules = 1..Len(rules) /\ DOMAIN add = 1..Len(add)
              /\ DOMAIN rules' = 1..Len(rules')
          BY <2>2, <4>1, ConcatProperties
        <4> HIDE DEF add
        <4>3. RuleSet' \subseteq RuleSet \cup {add[b] : b \in DOMAIN add}
          <5> SUFFICES ASSUME NEW i \in DOMAIN rules'
                       PROVE  rules'[i] \in RuleSet \cup {add[b] : b \in DOMAIN add}
            BY DEF RuleSet
          <5>1. CASE i <= Len(rules)
            BY <4>2, <5>1 DEF RuleSet
          <5>2. CASE i > Len(rules)
            <6>1. rules'[i] = add[i - Len(rules)] /\ i - Len(rules) \in DOMAIN add
              BY <4>2, <5>2
            <6> QED
              BY <6>1
          <5> QED
            BY <4>2, <5>1, <5>2
        <4>4. RuleSet \subseteq RuleSet'
          <5> SUFFICES ASSUME NEW i \in DOMAIN rules PROVE rules[i] \in RuleSet'
            BY DEF RuleSet
          <5>1. i \in DOMAIN rules' /\ rules'[i] = rules[i]
            BY <4>2
          <5> QED
            BY <5>1 DEF RuleSet
        <4>5. {add[b] : b \in DOMAIN add} \subseteq RuleSet'
          <5> SUFFICES ASSUME NEW b \in DOMAIN add PROVE add[b] \in RuleSet'
            OBVIOUS
          <5>1. Len(rules) + b \in DOMAIN rules' /\ rules'[Len(rules) + b] = add[b]
            BY <4>2
          <5> QED
            BY <5>1 DEF RuleSet
        <4> QED
          BY <3>1, <4>2, <4>3, <4>4, <4>5 DEF add
      <3>2. CASE ~IsConfig
        BY <1>3, <2>2, <3>2 DEF RuleSet
      <3> QED
        BY <3>1, <3>2
    <2>4. RuleSet' = Taken(o + 1) /\ Converted(o + 1)
      BY <1>1, <1>3, <2>3, TakenGrows DEF IsConfig, Inv, Types2
    <2>5. Taken(o)' = Taken(o + 1) /\ Converted(o)' = Converted(o + 1)
      BY <1>1, <1>3 DEF Taken, Converted
    <2>6. Types2'
      <3>1. Len(rules) \in Nat /\ Len(rules') \in Nat
        BY <2>2, <2>3
      <3>2. o' \in 1..(Len(objects') + 1) /\ r' \in 1..(Len(rules') + 1)
        BY <1>1, <1>3, <2>3, <3>1 DEF Inv, Types2
      <3> QED
        BY <1>1, <2>3, <3>2 DEF Inv, Types2
    <2>7. Collected'
      BY <1>1, <2>1, <2>4, <2>5 DEF Collected
    <2>8. Extracted'
      BY <2>1 DEF Extracted
    <2> QED
      BY <2>6, <2>7, <2>8
  <1> QED
    BY <1>2, <1>3 DEF FindConfig, TakeRules
--------------------------------------------------------------------------------
LEMMA LoadInv ==
  ASSUME Inv, Load
  PROVE  Types2' /\ Collected' /\ Extracted'
  <1>1. /\ pc = "load" /\ UNCHANGED <<objects, rules, o, r, p, images, phase>>
        /\ phase = "idle" /\ images = {} /\ rules = DefaultRules /\ o = 1
        /\ pc' \in {"config", "After"}
    BY DEF Load, Finish, evars, cvars, Inv, Flow, Collected
  <1>2. ~Begun'
    BY <1>1 DEF Begun
  <1>3. Types2'
    BY <1>1 DEF Inv, Types2
  <1>4. RuleSet' = Taken(o)' /\ Converted(o)'
    <2>1. RuleSet' = {DefaultRules[a] : a \in DOMAIN DefaultRules} /\ o' = 1
      BY <1>1 DEF RuleSet
    <2>2. {c \in 1..(o - 1) : objects[c].type = ConfigType}' = {}
      BY <2>1
    <2>3. Taken(o)' = {DefaultRules[a] : a \in DOMAIN DefaultRules}
      BY <2>2 DEF Taken
    <2>4. Converted(o)'
      BY <2>1 DEF Converted
    <2> QED
      BY <2>1, <2>3, <2>4
  <1>5. Collected'
    BY <1>1, <1>2, <1>4 DEF Collected
  <1>6. Extracted'
    BY <1>2 DEF Extracted
  <1> QED
    BY <1>3, <1>5, <1>6

(* Past the last object the rules taken are those in force.                    *)
LEMMA EndConfigsInv ==
  ASSUME Inv, EndConfigs
  PROVE  Types2' /\ Collected' /\ Extracted'
  <1>1. /\ pc = "config" /\ o > Len(objects)
        /\ UNCHANGED <<objects, rules, images, phase>>
        /\ pc' = "extract" /\ o' = 1 /\ r' = 1 /\ p' = 1
        /\ phase = "idle" /\ images = {} /\ RuleSet = Taken(o) /\ Converted(o)
    BY DEF EndConfigs, cvars, Inv, Flow, Collected
  <1>2. /\ Len(objects) \in Nat /\ DOMAIN objects = 1..Len(objects)
        /\ o = Len(objects) + 1
    BY <1>1, ObjectTypes DEF Inv, Types2
  <1>3. Types2'
    <2>1. Len(rules) \in Nat
      BY DEF Inv, Types2
    <2> QED
      BY <1>1, <1>2, <2>1 DEF Inv, Types2
  <1>4. RuleSet' = RulesInForce' /\ Converted(Len(objects) + 1)'
    <2>1. 1..(o - 1) = DOMAIN objects
      BY <1>2
    <2>2. Taken(o) = RulesInForce
      BY <2>1 DEF Taken, RulesInForce
    <2>3. RuleSet' = RuleSet /\ RulesInForce' = RulesInForce
      BY <1>1 DEF RuleSet, RulesInForce
    <2>4. Converted(Len(objects) + 1)' = Converted(o)
      BY <1>1, <1>2 DEF Converted
    <2> QED
      BY <1>1, <2>2, <2>3, <2>4
  <1>5. Collected'
    BY <1>1, <1>4 DEF Collected
  <1>6. Extracted'
    <2>1. ASSUME NEW a \in DOMAIN objects, NEW b \in DOMAIN rules,
                 NEW c \in DOMAIN rules[b].paths
          PROVE  ~Past(a, b, c)'
      <3>1. a \in 1..Len(objects) /\ b \in 1..Len(rules) /\ c \in 1..Len(rules[b].paths)
        BY <1>2, RuleTypes DEF Inv, Types2
      <3>2. a >= 1 /\ b >= 1 /\ c >= 1
        BY <3>1
      <3> QED
        BY <1>1, <3>1, <3>2 DEF Past
    <2> QED
      BY <1>1, <2>1 DEF Extracted
  <1> QED
    BY <1>3, <1>5, <1>6

(* The steps of the extraction loops that move on without evaluating a path:   *)
(* what they newly leave behind has no path or does not apply.                 *)
LEMMA LoopsAdvance ==
  ASSUME Inv, pc = "extract", pc' = pc, UNCHANGED <<objects, rules, images, phase>>,
         o' \in 1..(Len(objects) + 1), r' \in 1..(Len(rules) + 1), p' \in Nat \ {0},
         \A a \in DOMAIN objects, b \in DOMAIN rules : \A c \in DOMAIN rules[b].paths :
             Past(a, b, c)' /\ Match(a, b) => Past(a, b, c)
  PROVE  Types2' /\ Collected' /\ Extracted'
  <1>1. Types2'
    BY DEF Inv, Types2
  <1>2. Begun /\ Begun'
    BY DEF Begun
  <1>3. Collected'
    <2>1. RuleSet' = RulesInForce' /\ Converted(Len(objects) + 1)'
      <3>1. /\ RuleSet' = RuleSet /\ RulesInForce' = RulesInForce
            /\ Converted(Len(objects) + 1)' = Converted(Len(objects) + 1)
        BY DEF RuleSet, RulesInForce, Converted
      <3> QED
        BY <1>2, <3>1 DEF Inv, Collected
    <2> QED
      BY <2>1 DEF Collected
  <1>4. \A a, b, c : /\ Match(a, b)' = Match(a, b)
                     /\ Result(a, b, c)' = Result(a, b, c)
    BY DEF Match, Result
  <1>5. Extracted'
    BY <1>2, <1>4 DEF Inv, Extracted
  <1> QED
    BY <1>1, <1>3, <1>5

LEMMA Indices ==
  ASSUME Types2, NEW a \in DOMAIN objects, NEW b \in DOMAIN rules,
         NEW c \in DOMAIN rules[b].paths
  PROVE  /\ a \in 1..Len(objects) /\ b \in 1..Len(rules) /\ c \in 1..Len(rules[b].paths)
         /\ Len(objects) \in Nat /\ Len(rules) \in Nat /\ Len(rules[b].paths) \in Nat
         /\ a \in Nat \ {0} /\ b \in Nat \ {0} /\ c \in Nat \ {0}
         /\ o \in Nat /\ r \in Nat /\ p \in Nat
  <1>1. /\ Len(objects) \in Nat /\ DOMAIN objects = 1..Len(objects)
        /\ Len(rules) \in Nat /\ DOMAIN rules = 1..Len(rules)
        /\ Len(rules[b].paths) \in Nat /\ DOMAIN rules[b].paths = 1..Len(rules[b].paths)
    BY ObjectTypes, RuleTypes DEF Types2
  <1> QED
    BY <1>1 DEF Types2

LEMMA NextRuleInv ==
  ASSUME Inv, NextRule
  PROVE  Types2' /\ Collected' /\ Extracted'
  <1>1. /\ pc = "extract" /\ pc' = pc /\ UNCHANGED <<objects, rules, images, phase, o>>
        /\ r <= Len(rules) /\ r' = r + 1 /\ p' = 1
        /\ ~Applies \/ p > Len(rules[r].paths)
    BY DEF NextRule, cvars
  <1>2. /\ o' \in 1..(Len(objects) + 1) /\ r' \in 1..(Len(rules) + 1)
        /\ p' \in Nat \ {0}
    <2>1. Len(rules) \in Nat
      BY RuleTypes DEF Inv, Types2
    <2> QED
      BY <1>1, <2>1 DEF Inv, Types2
  <1>3. ASSUME NEW a \in DOMAIN objects, NEW b \in DOMAIN rules,
               NEW c \in DOMAIN rules[b].paths, Past(a, b, c)', Match(a, b)
        PROVE  Past(a, b, c)
    <2>1. /\ a \in Nat \ {0} /\ b \in Nat \ {0} /\ c \in Nat \ {0}
          /\ o \in Nat /\ r \in Nat /\ p \in Nat
          /\ c <= Len(rules[b].paths) /\ Len(rules[b].paths) \in Nat
      BY Indices DEF Inv
    <2>2. CASE a = o /\ b = r
      <3>1. p > Len(rules[b].paths)
        BY <1>1, <1>3, <2>2 DEF Applies, Match
      <3> QED
        BY <2>1, <2>2, <3>1 DEF Past
    <2>3. CASE ~(a = o /\ b = r)
      BY <1>1, <1>3, <2>1, <2>3 DEF Past
    <2> QED
      BY <2>2, <2>3
  <1> QED
    BY <1>1, <1>2, <1>3, LoopsAdvance

LEMMA NextObjectInv ==
  ASSUME Inv, NextObject
  PROVE  Types2' /\ Collected' /\ Extracted'
  <1>1. /\ pc = "extract" /\ pc' = pc /\ UNCHANGED <<objects, rules, images, phase>>
        /\ o <= Len(objects) /\ r > Len(rules) /\ o' = o + 1 /\ r' = 1 /\ p' = 1
    BY DEF NextObject, cvars
  <1>2. /\ o' \in 1..(Len(objects) + 1) /\ r' \in 1..(Len(rules) + 1)
        /\ p' \in Nat \ {0}
    <2>1. Len(rules) \in Nat /\ Len(objects) \in Nat
      BY RuleTypes, ObjectTypes DEF Inv, Types2
    <2> QED
      BY <1>1, <2>1 DEF Inv, Types2
  <1>3. ASSUME NEW a \in DOMAIN objects, NEW b \in DOMAIN rules,
               NEW c \in DOMAIN rules[b].paths, Past(a, b, c)', Match(a, b)
        PROVE  Past(a, b, c)
    <2>1. /\ a \in Nat \ {0} /\ b \in Nat \ {0} /\ c \in Nat \ {0}
          /\ o \in Nat /\ r \in Nat /\ p \in Nat
          /\ b <= Len(rules) /\ Len(rules) \in Nat
      BY Indices DEF Inv
    <2>2. a < o + 1 \/ (a = o + 1 /\ b < 1) \/ (a = o + 1 /\ b = 1 /\ c < 1)
      BY <1>1, <1>3 DEF Past
    <2>3. a <= o /\ b < r
      BY <1>1, <2>1, <2>2
    <2> QED
      BY <2>1, <2>3 DEF Past
  <1> QED
    BY <1>1, <1>2, <1>3, LoopsAdvance

LEMMA ExtractPathInv ==
  ASSUME Inv, ExtractPath
  PROVE  Types2' /\ Collected' /\ Extracted'
  <1> DEFINE res == Result(o, r, p)
  <1>1. /\ pc = "extract" /\ Applies /\ UNCHANGED <<objects, rules, o, r, phase>>
        /\ o <= Len(objects) /\ r <= Len(rules) /\ p <= Len(rules[r].paths)
        /\ Begun /\ phase = "idle"
    BY DEF ExtractPath, cvars, Begun, Inv, Flow
  <1>2. /\ o \in DOMAIN objects /\ r \in DOMAIN rules /\ p \in DOMAIN rules[r].paths
        /\ res \in Outcome
    BY <1>1, ResultType DEF Inv
  <1>3. /\ res.st = "ok"    => images' = images \cup res.refs /\ p' = p + 1 /\ pc' = pc
        /\ res.st = "error" => pc' = "After" /\ UNCHANGED <<images, p>>
        /\ res.st = "panic" => pc' = "After" /\ UNCHANGED <<images, p>>
    BY DEF ExtractPath, Result, Finish
  <1>4. res.st \in {"ok", "error", "panic"} /\ res.refs \subseteq Names
    BY <1>2 DEF Outcome
  <1> HIDE DEF res
  <1>5. CASE res.st # "ok"
    <2>1. UNCHANGED <<images, p>> /\ pc' = "After" /\ ~Begun'
      BY <1>1, <1>3, <1>4, <1>5 DEF Begun
    <2> QED
      BY <1>1, <2>1 DEF Inv, Types2, Collected, Extracted
  <1>6. CASE res.st = "ok"
    <2>1. images' = images \cup res.refs /\ p' = p + 1 /\ pc' = pc
      BY <1>3, <1>6
    <2>2. Types2'
      BY <1>1, <1>4, <2>1 DEF Inv, Types2
    <2>3. Collected'
      <3>1. /\ RuleSet' = RuleSet /\ RulesInForce' = RulesInForce
            /\ Converted(Len(objects) + 1)' = Converted(Len(objects) + 1)
        BY <1>1 DEF RuleSet, RulesInForce, Converted
      <3> QED
        BY <1>1, <2>1, <3>1 DEF Inv, Collected
    <2>4. \A a, b, c : /\ Match(a, b)' = Match(a, b)
                       /\ Result(a, b, c)' = Result(a, b, c)
      BY <1>1 DEF Match, Result
    <2>5. ASSUME NEW a \in DOMAIN objects, NEW b \in DOMAIN rules,
                 NEW c \in DOMAIN rules[b].paths, Past(a, b, c)', Match(a, b)
          PROVE  Result(a, b, c).st = "ok" /\ Result(a, b, c).refs \subseteq images'
      <3>1. /\ a \in Nat /\ b \in Nat /\ c \in Nat
            /\ o \in Nat /\ r \in Nat /\ p \in Nat
        BY Indices DEF Inv
      <3>2. Past(a, b, c) \/ (a = o /\ b = r /\ c = p)
        BY <1>1, <2>1, <2>5, <3>1 DEF Past
      <3>3. CASE Past(a, b, c)
        BY <1>1, <2>1, <2>5, <3>3 DEF Inv, Extracted
      <3>4. CASE a = o /\ b = r /\ c = p
        BY <1>6, <2>1, <3>4 DEF res
      <3> QED
        BY <3>2, <3>3, <3>4
    <2>6. ASSUME NEW x \in images'
          PROVE  \E a \in DOMAIN objects, b \in DOMAIN rules : \E c \in DOMAIN rules[b].paths :
                     Match(a, b) /\ x \in Result(a, b, c).refs
      <3>1. CASE x \in images
        BY <1>1, <3>1 DEF Inv, Extracted
      <3>2. CASE x \in res.refs
        BY <1>1, <1>2, <3>2 DEF Match, Applies, res
      <3> QED
        BY <2>1, <2>6, <3>1, <3>2
    <2>7. Extracted'
      BY <1>1, <2>4, <2>5, <2>6 DEF Extracted
    <2> QED
      BY <2>2, <2>3, <2>7
  <1> QED
    BY <1>5, <1>6

LEMMA InvStep == Inv /\ [Next]_vars => Inv'
  <1> SUFFICES ASSUME Inv, [Next]_vars PROVE Types2' /\ Collected' /\ Extracted'
    BY FlowStep DEF Inv
  <1>0. Flow /\ Collected
    BY DEF Inv
  <1>1. CASE Load
    BY <1>1, LoadInv
  <1>2. CASE FindConfig
    BY <1>2, FindConfigInv
  <1>3. CASE EndConfigs
    BY <1>3, EndConfigsInv
  <1>4. CASE ExtractPath
    BY <1>4, ExtractPathInv
  <1>5. CASE NextRule
    BY <1>5, NextRuleInv
  <1>6. CASE NextObject
    BY <1>6, NextObjectInv
  <1>7. CASE \/ ParseFlags \/ Before \/ ParsePlatform \/ CreateReturns
             \/ After \/ Drained \/ Timeout \/ Exit
             \/ CreateWorks \/ Deliver \/ Kill \/ UNCHANGED vars
    <2>1. UNCHANGED <<objects, evars>>
      BY <1>7 DEF ParseFlags, Before, ParsePlatform, CreateReturns, After, Drained, Timeout,
                  Exit, CreateWorks, Deliver, Kill, vars
    <2>2. /\ pc' \in {"parse", "Before", "load"} => pc \in {"parse", "Before", "load"}
          /\ pc' = "config" => pc = "config"
      BY <1>7 DEF ParseFlags, Before, ParsePlatform, CreateReturns, After, Drained, Timeout,
                  Exit, CreateWorks, Deliver, Kill, vars, Finish
    <2>3. Begun' => Begun
      <3>1. CASE ParsePlatform
        BY <3>1 DEF ParsePlatform, Begun
      <3>2. CASE CreateReturns \/ CreateWorks
        BY <3>2 DEF CreateReturns, CreateWorks, Begun
      <3>3. CASE ParseFlags \/ Before \/ After \/ Drained \/ Timeout \/ Exit \/ Deliver
        BY <3>3 DEF ParseFlags, Before, After, Drained, Timeout, Exit, Deliver, cvars,
                    Begun, Finish
      <3>4. CASE Kill \/ UNCHANGED vars
        BY <3>4 DEF Kill, vars, cvars, Begun
      <3> QED
        BY <1>7, <3>1, <3>2, <3>3, <3>4
    <2> QED
      BY <2>1, <2>2, <2>3, LoopsKept
  <1> QED
    BY <1>1, <1>2, <1>3, <1>4, <1>5, <1>6, <1>7 DEF Next, Step

(* The four parts hold in every state of every run.                            *)
THEOREM Invariance == Spec => []Inv
  <1> QED
    BY InitInv, InvStep, PTL DEF Spec

--------------------------------------------------------------------------------
(* What the loops do not touch.                                                *)
Types3 ==
    /\ pc \in {"parse", "Before", "load", "config", "extract", "archive", "After",
               "shutdown", "exit", "exited", "killed"}
    /\ asked \in {"archive", "help"}
    /\ platformFlag \in {"unset", "valid", "invalid"}
    /\ code \in 0..2
    /\ reporter \in {"nil", "open", "closed"}
    /\ reporter = "closed" => pc \in {"exit", "exited", "killed"}
    /\ queue # <<>> => reporter = "open"
    /\ phase \in {"idle", "running", "ok", "failed", "killed"}
    /\ want \subseteq Names /\ got \subseteq want
    /\ file.refs \subseteq Names

LEMMA Types3Step == Types2 /\ Types3 /\ [Next]_vars => Types3'
  <1> SUFFICES ASSUME Types2, Types3, [Next]_vars PROVE Types3'
    OBVIOUS
  <1> USE DEF Types3, cvars, tvars, evars
  <1>1. CASE \/ ParseFlags \/ Before \/ Load \/ FindConfig \/ EndConfigs \/ NextRule
             \/ NextObject \/ After \/ Drained \/ Timeout \/ Exit \/ Deliver
             \/ UNCHANGED vars
    BY <1>1 DEF ParseFlags, Before, Load, FindConfig, TakeRules, EndConfigs, NextRule,
                NextObject, After, Drained, Timeout, Exit, Deliver, Finish, vars
  <1>2. CASE ExtractPath
    <2>1. /\ pc = "extract" /\ UNCHANGED <<asked, platformFlag, reporter, queue, cvars>>
          /\ \/ UNCHANGED <<pc, code>>
             \/ Finish(1)
             \/ Finish(2)
      BY <1>2, ResultType DEF ExtractPath, Outcome, Result
    <2> QED
      BY <2>1 DEF Finish
  <1>3. CASE ParsePlatform
    BY <1>3 DEF ParsePlatform, Create!Begin, Finish, Types2
  <1>4. CASE CreateWorks
    <2>1. UNCHANGED <<pc, asked, platformFlag, code, reporter, queue>>
      BY <1>4 DEF CreateWorks
    <2>2. CASE \E i \in Names : Create!Obtain(i)
      BY <2>1, <2>2 DEF Create!Obtain
    <2>3. CASE Create!Damage
      BY <2>1, <2>3 DEF Create!Damage, Create!Damaged
    <2>4. CASE Create!Publish
      BY <2>1, <2>4 DEF Create!Publish, Create!ArchiveOf
    <2> QED
      BY <1>4, <2>2, <2>3, <2>4 DEF CreateWorks
  <1>5. CASE CreateReturns
    BY <1>5 DEF CreateReturns, Create!Succeed, Create!GiveUp, Finish
  <1>6. CASE Kill
    BY <1>6 DEF Kill, Create!GiveUp
  <1> QED
    BY <1>1, <1>2, <1>3, <1>4, <1>5, <1>6 DEF Next, Step

(* The state keeps its types: in particular the three loops of the extractor   *)
(* stay within the objects and the rules, also while FindConfig adds rules.    *)
THEOREM TypeCorrect == Spec => []TypeOK
  <1>1. Init => Types3
    BY DEF Init, Types3, Create!CInit, Create!Earlier
  <1>2. Inv /\ Types3 /\ [Next]_vars => Types3'
    BY Types3Step DEF Inv
  <1>3. Inv /\ Types3 => TypeOK
    BY DEF Inv, Types2, Types3, TypeOK
  <1> QED
    BY <1>1, <1>2, <1>3, Invariance, PTL DEF Spec
--------------------------------------------------------------------------------
(* The exit status is 0 exactly when archive.Create succeeded: no other path   *)
(* through the action, and nothing in After, sets or resets it; asking for     *)
(* help and version archives nothing.                                          *)
THEOREM ExitIsHonest == Spec => []ExitTellsOutcome
  <1>1. Inv => ExitTellsOutcome
    BY DEF Inv, Flow, ExitTellsOutcome
  <1> QED
    BY <1>1, Invariance, PTL

(* Once past the last object, everything has been evaluated without an error.  *)
LEMMA AllEvaluated ==
  ASSUME Inv, Begun, o > Len(objects),
         NEW a \in DOMAIN objects, NEW rule \in RulesInForce,
         NEW c \in DOMAIN rule.paths, rule.type = objects[a].type
  PROVE  /\ objects[a].yields[rule.paths[c]].st = "ok"
         /\ objects[a].yields[rule.paths[c]].refs \subseteq images
  <1>1. PICK b \in DOMAIN rules : rule = rules[b]
    BY DEF Inv, Collected, RuleSet
  <1>2. a < o
    BY ObjectTypes DEF Inv, Types2
  <1>3. Past(a, b, c) /\ Match(a, b)
    BY <1>1, <1>2 DEF Past, Match
  <1>4. Result(a, b, c).st = "ok" /\ Result(a, b, c).refs \subseteq images
    BY <1>1, <1>3 DEF Inv, Extracted
  <1> QED
    BY <1>1, <1>4 DEF Result

(* Then the images are the references the rules in force reach.                *)
LEMMA ImagesAreReached ==
  ASSUME Inv, Begun, o > Len(objects)
  PROVE  images = Reached
  <1>1. ASSUME NEW x \in images PROVE x \in Reached
    <2>1. PICK a \in DOMAIN objects, b \in DOMAIN rules : \E c \in DOMAIN rules[b].paths :
                   Match(a, b) /\ x \in Result(a, b, c).refs
      BY DEF Inv, Extracted
    <2>2. PICK c \in DOMAIN rules[b].paths : Match(a, b) /\ x \in Result(a, b, c).refs
      BY <2>1
    <2>3. rules[b] \in RulesInForce
      BY DEF Inv, Collected, RuleSet
    <2>4. x \in objects[a].yields[rules[b].paths[c]].refs /\ rules[b].type = objects[a].type
      BY <2>2 DEF Result, Match
    <2> QED
      BY <2>3, <2>4 DEF Reached
  <1>2. ASSUME NEW x \in Reached PROVE x \in images
    <2>1. PICK a \in DOMAIN objects :
              x \in UNION {UNION {objects[a].yields[rule.paths[b]].refs :
                                     b \in DOMAIN rule.paths} :
                              rule \in {q \in RulesInForce : q.type = objects[a].type}}
      BY DEF Reached
    <2>2. PICK rule \in RulesInForce :
              /\ rule.type = objects[a].type
              /\ x \in UNION {objects[a].yields[rule.paths[b]].refs : b \in DOMAIN rule.paths}
      BY <2>1
    <2>3. PICK c \in DOMAIN rule.paths : x \in objects[a].yields[rule.paths[c]].refs
      BY <2>2
    <2> QED
      BY <2>2, <2>3, AllEvaluated
  <1> QED
    BY <1>1, <1>2

(* A run that exits with status 0 leaves the archive of exactly the references *)
(* in its manifests, for any objects and wherever the Config objects are.      *)
THEOREM ArchiveIsComplete == Spec => []EveryReferenceArchived
  <1>1. Inv => EveryReferenceArchived
    <2> SUFFICES ASSUME Inv, pc = "exited", code = 0, asked = "archive"
                 PROVE  file = Create!ArchiveOf(Reached)
      BY DEF EveryReferenceArchived
    <2>1. phase = "ok" /\ file = Create!ArchiveOf(want) /\ want = images /\ o > Len(objects)
      BY DEF Inv, Flow
    <2>2. images = Reached
      BY <2>1, ImagesAreReached DEF Begun
    <2> QED
      BY <2>1, <2>2
  <1> QED
    BY <1>1, Invariance, PTL

(* The output is only touched when all of the input has been found usable: the *)
(* platform, every Config, and every path of every rule on every object.       *)
THEOREM InputErrorsAreFree == Spec => OutputTouchedOnlyIfUsable
  <1>1. Inv /\ [Next]_vars => [file' # file => Usable]_vars
    <2> SUFFICES ASSUME Inv, [Next]_vars, file' # file PROVE Usable
      OBVIOUS
    <2>1. phase = "running"
      <3>1. CASE \/ ParseFlags \/ Before \/ Load \/ FindConfig \/ EndConfigs \/ NextRule
                 \/ ExtractPath \/ NextObject \/ After \/ Drained \/ Timeout \/ Exit
                 \/ Deliver \/ UNCHANGED vars
        BY <3>1 DEF ParseFlags, Before, Load, FindConfig, TakeRules, EndConfigs, NextRule,
                    ExtractPath, NextObject, After, Drained, Timeout, Exit, Deliver,
                    cvars, vars
      <3>2. CASE ParsePlatform
        BY <3>2 DEF ParsePlatform, Create!Begin, cvars
      <3>3. CASE CreateWorks \/ CreateReturns \/ Kill
        BY <3>3 DEF CreateWorks, CreateReturns, Kill, cvars
      <3> QED
        BY <3>1, <3>2, <3>3 DEF Next, Step
    <2>2. Begun /\ o > Len(objects) /\ platformFlag # "invalid"
      BY <2>1 DEF Begun, Inv, Flow
    <2>3. \A a \in DOMAIN objects : objects[a].type = ConfigType => objects[a].converts
      <3>1. Converted(Len(objects) + 1)
        BY <2>2 DEF Inv, Collected
      <3> QED
        BY <3>1, ObjectTypes DEF Converted, Inv, Types2
    <2>4. \A a \in DOMAIN objects, rule \in RulesInForce :
              rule.type = objects[a].type =>
                  \A c \in DOMAIN rule.paths : objects[a].yields[rule.paths[c]].st = "ok"
      BY <2>2, AllEvaluated
    <2> QED
      BY <2>2, <2>3, <2>4 DEF Usable
  <1> QED
    BY <1>1, Invariance, PTL DEF Spec, OutputTouchedOnlyIfUsable

--------------------------------------------------------------------------------
(* The events, delivered and not, at each place of the command.                *)
Silent  == received = <<>> /\ queue = <<>>
Started == \/ received = <<>> /\ queue = <<"ApplicationStart">>
           \/ received = <<"ApplicationStart">> /\ queue = <<>>
Stopped == \/ received = <<>> /\ queue = <<"ApplicationStart", "ApplicationStop">>
           \/ received = <<"ApplicationStart">> /\ queue = <<"ApplicationStop">>
           \/ received = <<"ApplicationStart", "ApplicationStop">> /\ queue = <<>>

Telemetry ==
    /\ pc \in {"parse", "Before"} => reporter = "nil"
    /\ pc \in {"load", "config", "extract", "archive"} => reporter = "open" /\ Started
    /\ pc = "After" => reporter \in {"nil", "open"} /\ (reporter = "open" => Started)
    /\ pc = "shutdown" => reporter = "open" /\ Stopped
    /\ pc = "exit" => reporter \in {"nil", "closed"}
    /\ reporter = "nil" => Silent
    /\ Silent \/ Started \/ Stopped

LEMMA ShortSequences ==
  ASSUME NEW S, NEW x \in S, NEW y \in S
  PROVE  /\ <<>> \in Seq(S) /\ <<x>> \in Seq(S) /\ <<x, y>> \in Seq(S)
         /\ Append(<<>>, x) = <<x>> /\ Append(<<x>>, y) = <<x, y>>
         /\ Head(<<x>>) = x /\ Tail(<<x>>) = <<>>
         /\ Head(<<x, y>>) = x /\ Tail(<<x, y>>) = <<y>>
         /\ <<x>> \o <<y>> = <<x, y>>
  <1>1. <<>> \in Seq(S) /\ <<x>> \in Seq(S) /\ <<y>> \in Seq(S) /\ <<x, y>> \in Seq(S)
    OBVIOUS
  <1>2. \A z \in S : Append(<<>>, z) = <<z>>
    <2> SUFFICES ASSUME NEW z \in S PROVE Append(<<>>, z) = <<z>>
      OBVIOUS
    <2>1. Append(<<>>, z) \in Seq(S) /\ <<z>> \in Seq(S)
      BY <1>1, AppendProperties
    <2>2. Len(Append(<<>>, z)) = 1 /\ Len(<<z>>) = 1 /\ Append(<<>>, z)[1] = z
      BY <1>1, AppendProperties
    <2>3. \A i \in 1..Len(Append(<<>>, z)) : Append(<<>>, z)[i] = <<z>>[i]
      BY <2>2
    <2> QED
      BY <2>1, <2>2, <2>3, SeqEqual
  <1>3. Append(<<x>>, y) = <<x, y>>
    <2>1. Append(<<x>>, y) \in Seq(S)
      BY <1>1, AppendProperties
    <2>2. /\ Len(Append(<<x>>, y)) = 2 /\ Len(<<x, y>>) = 2
          /\ Append(<<x>>, y)[1] = x /\ Append(<<x>>, y)[2] = y
      BY <1>1, AppendProperties
    <2>3. \A i \in 1..Len(Append(<<x>>, y)) : Append(<<x>>, y)[i] = <<x, y>>[i]
      BY <2>2
    <2> QED
      BY <1>1, <2>1, <2>2, <2>3, SeqEqual
  <1>4. Head(<<x>>) = x /\ Tail(<<x>>) = <<>>
    BY <1>1, <1>2, HeadTailAppend
  <1>5. Head(<<x, y>>) = x /\ Tail(<<x, y>>) = <<y>>
    BY <1>1, <1>2, <1>3, <1>4, HeadTailAppend
  <1>6. <<x>> \o <<y>> = <<x, y>>
    BY <1>1, <1>3, AppendIsConcat
  <1> QED
    BY <1>1, <1>2, <1>3, <1>4, <1>5, <1>6

EventNames == {"ApplicationStart", "ApplicationStop"}

LEMMA EventSequences ==
  /\ Append(<<>>, "ApplicationStart") = <<"ApplicationStart">>
  /\ Append(<<"ApplicationStart">>, "ApplicationStop") =
         <<"ApplicationStart", "ApplicationStop">>
  /\ Append(<<>>, "ApplicationStop") = <<"ApplicationStop">>
  /\ Head(<<"ApplicationStart">>) = "ApplicationStart"
  /\ Tail(<<"ApplicationStart">>) = <<>>
  /\ Head(<<"ApplicationStop">>) = "ApplicationStop"
  /\ Tail(<<"ApplicationStop">>) = <<>>
  /\ Head(<<"ApplicationStart", "ApplicationStop">>) = "ApplicationStart"
  /\ Tail(<<"ApplicationStart", "ApplicationStop">>) = <<"ApplicationStop">>
  <1>1. "ApplicationStart" \in EventNames /\ "ApplicationStop" \in EventNames
    BY DEF EventNames
  <1> QED
    BY <1>1, ShortSequences

LEMMA EventsKept ==
  /\ Silent  => Events = <<>>
  /\ Started => Events = <<"ApplicationStart">>
  /\ Stopped => Events = <<"ApplicationStart", "ApplicationStop">>
  <1>1. "ApplicationStart" \in EventNames /\ "ApplicationStop" \in EventNames
    BY DEF EventNames
  <1>2. \A s \in Seq(EventNames) : s \o <<>> = s /\ <<>> \o s = s
    BY ConcatEmptySeq
  <1>3. /\ <<>> \in Seq(EventNames) /\ <<"ApplicationStart">> \in Seq(EventNames)
        /\ <<"ApplicationStart", "ApplicationStop">> \in Seq(EventNames)
        /\ <<"ApplicationStart">> \o <<"ApplicationStop">> =
               <<"ApplicationStart", "ApplicationStop">>
    BY <1>1, ShortSequences
  <1>4. Silent => Events = <<>>
    BY <1>2, <1>3 DEF Silent, Events
  <1>5. Started => Events = <<"ApplicationStart">>
    BY <1>2, <1>3 DEF Started, Events
  <1>6. Stopped => Events = <<"ApplicationStart", "ApplicationStop">>
    BY <1>2, <1>3 DEF Stopped, Events
  <1> QED
    BY <1>4, <1>5, <1>6

LEMMA TelemetryStep == Inv /\ Telemetry /\ [Next]_vars => Telemetry'
  <1> SUFFICES ASSUME Inv, Telemetry, [Next]_vars PROVE Telemetry'
    OBVIOUS
  <1>1. CASE /\ UNCHANGED <<reporter, queue, received>>
             /\ \/ pc' = pc
                \/ /\ pc \in {"load", "config", "extract", "archive"}
                   /\ pc' \in {"load", "config", "extract", "archive", "After", "killed"}
                \/ pc = "parse" /\ pc' \in {"Before", "After", "exit"}
                \/ pc = "exit" /\ pc' = "exited"
                \/ pc' = "killed"
    BY <1>1 DEF Telemetry, Silent, Started, Stopped
  <1>2. CASE Before
    BY <1>2, EventSequences DEF Before, Telemetry, Silent, Started
  <1>3. CASE After
    <2>1. CASE reporter = "nil"
      BY <1>3, <2>1 DEF After, Telemetry, Silent
    <2>2. CASE reporter # "nil"
      <3>1. reporter = "open" /\ Started
        BY <1>3, <2>2 DEF After, Telemetry
      <3>2. pc' = "shutdown" /\ queue' = Append(queue, "ApplicationStop")
            /\ UNCHANGED <<reporter, received>>
        BY <1>3, <2>2 DEF After
      <3>3. Stopped'
        BY <3>1, <3>2, EventSequences DEF Started, Stopped
      <3> QED
        BY <3>1, <3>2, <3>3 DEF Telemetry
    <2> QED
      BY <2>1, <2>2
  <1>4. CASE Drained
    BY <1>4 DEF Drained, Telemetry, Silent, Started, Stopped
  <1>5. CASE Timeout
    BY <1>5 DEF Timeout, Telemetry, Silent, Started, Stopped
  <1>6. CASE Deliver
    <2>1. /\ reporter = "open" /\ queue # <<>> /\ UNCHANGED <<pc, reporter>>
          /\ received' = Append(received, Head(queue)) /\ queue' = Tail(queue)
      BY <1>6 DEF Deliver
    <2>2. Started => Started'
      BY <2>1, EventSequences DEF Started
    <2>3. Stopped => Stopped'
      BY <2>1, EventSequences DEF Stopped
    <2> QED
      BY <2>1, <2>2, <2>3 DEF Telemetry, Silent
  <1>7. CASE ExtractPath
    <2>1. /\ pc = "extract" /\ UNCHANGED <<reporter, queue, received>>
          /\ pc' = pc \/ pc' = "After"
      BY <1>7, ResultType DEF ExtractPath, Finish, tvars, Result, Outcome, Inv
    <2> QED
      BY <1>1, <2>1
  <1>8. CASE \/ ParseFlags \/ Load \/ FindConfig \/ EndConfigs \/ NextRule
             \/ NextObject \/ ParsePlatform \/ CreateWorks \/ CreateReturns
             \/ Exit \/ Kill \/ UNCHANGED vars
    BY <1>1, <1>8 DEF ParseFlags, Load, FindConfig, TakeRules, EndConfigs, NextRule,
                NextObject, ParsePlatform, CreateWorks, CreateReturns, Exit, Kill, vars,
                tvars, Finish
  <1> QED
    BY <1>2, <1>3, <1>4, <1>5, <1>6, <1>7, <1>8 DEF Next, Step

(* The events reported are none, a start, or a start and then a stop, and when *)
(* the reporter is shut down both have been delivered or are queued: wherever  *)
(* the run failed, and however slowly the telemetry server answers.            *)
THEOREM StopIsReportedLast == Spec => []StopFollowsStart
  <1>1. Init => Telemetry
    BY DEF Init, Telemetry, Silent
  <1>2. Telemetry => StopFollowsStart
    BY EventsKept DEF Telemetry, StopFollowsStart
  <1> QED
    BY <1>1, <1>2, TelemetryStep, Invariance, PTL DEF Spec
================================================================================
