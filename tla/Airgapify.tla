------------------------------- MODULE Airgapify -------------------------------
(* The command (main.go) and the extractor it drives (internal/extractor/      *)
(* extractor.go): load the objects, collect the rules of every Config object   *)
(* among them, extract the image references the rules reach, and have          *)
(* archive.Create make the archive.                                            *)
(*                                                                             *)
(* archive.Create is the contract of ArchiveContract, which Archive is shown   *)
(* to implement; the loader is modelled by Loader and contributes its outcome  *)
(* here.  Around the action, Before and After report to a telemetry server     *)
(* that may not answer.                                                        *)
EXTENDS Integers, Sequences, FiniteSets

CONSTANTS
    Types,          \* the apiVersion/kind pairs of objects
    ConfigType,     \* the one of the tool's own Config
    Paths,          \* the JSON paths rules may have
    Names,          \* the image references
    DefaultRules,   \* extractor.DefaultRules
    Inputs          \* the sequences of objects the files may hold

(* What a JSON path yields on an object: the references it reaches, an error,  *)
(* or a panic of the evaluator (see RangeWalk).  A Config carries rules, unless *)
(* its conversion fails.                                                       *)
Rule    == [type : Types, paths : Seq(Paths)]
Outcome == [st : {"ok", "error", "panic"}, refs : SUBSET Names]
Object  == [type : Types, yields : [Paths -> Outcome],
            converts : BOOLEAN, rules : Seq(Rule)]

ASSUME AirgapifyAssumption ==
    /\ ConfigType \in Types
    /\ DefaultRules \in Seq(Rule)
    /\ Inputs \subseteq Seq(Object)

VARIABLES
    pc,                     \* where the command is
    asked,                  \* "archive", or "help" for --help and --version
    objects,                \* what the files hold
    platformFlag,           \* --platform: not set, or what it parses to
    rules,                  \* the rules collected so far
    o, r, p,                \* the loops over objects, rules and paths
    images,                 \* the references extracted so far
    code,                   \* the exit status: 0, 1 for an error, 2 for a panic
    reporter,               \* telemetryReporter: "nil", "open" or "closed"
    queue, received,        \* the events it has not delivered, and those it has
    phase, want, got, file  \* the contract of archive.Create

Create == INSTANCE ArchiveContract WITH Images <- Names

cvars == <<phase, want, got, file>>
tvars == <<reporter, queue, received>>
evars == <<rules, o, r, p, images>>
vars  == <<pc, asked, objects, platformFlag, evars, code, tvars, cvars>>

Init ==
    /\ pc = "parse"
    /\ asked \in {"archive", "help"}
    /\ objects \in Inputs
    /\ platformFlag \in {"unset", "valid", "invalid"}
    /\ rules = DefaultRules
    /\ o = 1 /\ r = 1 /\ p = 1
    /\ images = {}
    /\ code = 0
    /\ reporter = "nil"
    /\ queue = <<>>
    /\ received = <<>>
    /\ Create!CInit

(* Mutant: the error is logged, and the exit status left alone.                *)
FinishQuietly(c) == /\ pc' = "After"
                    /\ code' = 0

(* The action returns an error, or panics: After runs either way.              *)
Finish(c) == /\ pc' = "After"
             /\ code' = c

(* A required flag is missing: After runs without Before having run.  Help and *)
(* version are printed by the CLI library, which then runs none of the three.  *)
ParseFlags ==
    /\ pc = "parse"
    /\ \/ asked = "archive" /\ pc' = "Before" /\ UNCHANGED code
       \/ asked = "help" /\ pc' = "exit" /\ UNCHANGED code
       \/ Finish(1)
    /\ UNCHANGED <<asked, objects, platformFlag, evars, tvars, cvars>>

Before ==
    /\ pc = "Before"
    /\ reporter' = "open"
    /\ queue' = Append(queue, "ApplicationStart")
    /\ pc' = "load"
    /\ UNCHANGED <<asked, objects, platformFlag, evars, code, received, cvars>>

Load ==
    /\ pc = "load"
    /\ \/ pc' = "config" /\ UNCHANGED code
       \/ Finish(1)
    /\ UNCHANGED <<asked, objects, platformFlag, evars, tvars, cvars>>

(* The loop that looks for Config objects and takes their rules.               *)
IsConfig == objects[o].type = ConfigType

TakeRules(next) ==
    /\ pc = "config" /\ o <= Len(objects)
    /\ \/ /\ IsConfig => objects[o].converts
          /\ rules' = IF IsConfig THEN rules \o objects[o].rules ELSE rules
          /\ o' = next
          /\ UNCHANGED <<pc, code>>
       \/ /\ IsConfig /\ ~objects[o].converts
          /\ Finish(1)
          /\ UNCHANGED <<rules, o>>
    /\ UNCHANGED <<asked, objects, platformFlag, r, p, images, tvars, cvars>>

(* Mutant: the search ends at the first Config.                                *)
FindConfigOnce == TakeRules(IF IsConfig THEN Len(objects) + 1 ELSE o + 1)

FindConfig == TakeRules(o + 1)

EndConfigs ==
    /\ pc = "config" /\ o > Len(objects)
    /\ o' = 1 /\ r' = 1 /\ p' = 1
    /\ pc' = "extract"
    /\ UNCHANGED <<asked, objects, platformFlag, rules, images, code, tvars, cvars>>

(* extractImagesFromObject: the paths of one rule after the other.             *)
Applies == objects[o].type = rules[r].type

ExtractPath ==
    /\ pc = "extract" /\ o <= Len(objects) /\ r <= Len(rules)
    /\ Applies /\ p <= Len(rules[r].paths)
    /\ LET res == objects[o].yields[rules[r].paths[p]]
       IN  CASE res.st = "ok"    -> /\ images' = images \cup res.refs
                                    /\ p' = p + 1
                                    /\ UNCHANGED <<pc, code>>
             [] res.st = "error" -> Finish(1) /\ UNCHANGED <<images, p>>
             [] res.st = "panic" -> Finish(2) /\ UNCHANGED <<images, p>>
    /\ UNCHANGED <<asked, objects, platformFlag, rules, o, r, tvars, cvars>>

NextRule ==
    /\ pc = "extract" /\ o <= Len(objects) /\ r <= Len(rules)
    /\ ~Applies \/ p > Len(rules[r].paths)
    /\ r' = r + 1 /\ p' = 1
    /\ UNCHANGED <<pc, asked, objects, platformFlag, rules, o, images, code, tvars, cvars>>

NextObject ==
    /\ pc = "extract" /\ o <= Len(objects) /\ r > Len(rules)
    /\ o' = o + 1 /\ r' = 1 /\ p' = 1
    /\ UNCHANGED <<pc, asked, objects, platformFlag, rules, images, code, tvars, cvars>>

(* Mutant: the error of ParsePlatform is not looked at.                        *)
ParsePlatformUnchecked ==
    /\ pc = "extract" /\ o > Len(objects)
    /\ pc' = "archive"
    /\ Create!Begin(images)
    /\ UNCHANGED <<asked, objects, platformFlag, evars, code, tvars>>

ParsePlatform ==
    /\ pc = "extract" /\ o > Len(objects)
    /\ \/ /\ platformFlag # "invalid"
          /\ pc' = "archive"
          /\ Create!Begin(images)
          /\ UNCHANGED code
       \/ /\ platformFlag = "invalid"
          /\ Finish(1)
          /\ UNCHANGED cvars
    /\ UNCHANGED <<asked, objects, platformFlag, evars, tvars>>

(* archive.Create at work, and its return.                                     *)
CreateWorks ==
    /\ pc = "archive" /\ phase = "running"
    /\ (\E i \in Names : Create!Obtain(i)) \/ Create!Damage \/ Create!Publish
    /\ UNCHANGED <<pc, asked, objects, platformFlag, evars, code, tvars>>

CreateReturns ==
    /\ pc = "archive" /\ phase = "running"
    /\ \/ Create!Succeed /\ Finish(0)
       \/ Create!GiveUp /\ phase' = "failed" /\ Finish(1)
    /\ UNCHANGED <<asked, objects, platformFlag, evars, tvars>>

(* Mutant: the missing reporter is not looked for.                             *)
AfterUnguarded ==
    /\ pc = "After"
    /\ pc' = "shutdown" /\ queue' = Append(queue, "ApplicationStop")
    /\ UNCHANGED <<asked, objects, platformFlag, evars, code, reporter, received, cvars>>

(* shutdownTelemetry: with no reporter there is nothing to do.                 *)
After ==
    /\ pc = "After"
    /\ IF reporter = "nil" THEN pc' = "exit" /\ UNCHANGED queue
       ELSE pc' = "shutdown" /\ queue' = Append(queue, "ApplicationStop")
    /\ UNCHANGED <<asked, objects, platformFlag, evars, code, reporter, received, cvars>>

(* Shutdown returns once the events are delivered, or after three seconds with *)
(* an error that is only logged.                                               *)
Drained ==
    /\ pc = "shutdown" /\ queue = <<>>
    /\ reporter' = "closed"
    /\ pc' = "exit"
    /\ UNCHANGED <<asked, objects, platformFlag, evars, code, queue, received, cvars>>

(* Mutant: Shutdown is given a context without a deadline.                     *)
NoTimeout == FALSE

Timeout ==
    /\ pc = "shutdown" /\ queue # <<>>
    /\ reporter' = "closed"
    /\ queue' = <<>>
    /\ pc' = "exit"
    /\ UNCHANGED <<asked, objects, platformFlag, evars, code, received, cvars>>

Exit ==
    /\ pc = "exit"
    /\ pc' = "exited"
    /\ UNCHANGED <<asked, objects, platformFlag, evars, code, tvars, cvars>>

(* The reporter's own goroutine, and the server it talks to, if it answers.    *)
Deliver ==
    /\ reporter = "open" /\ queue # <<>> /\ pc \notin {"exited", "killed"}
    /\ received' = Append(received, Head(queue))
    /\ queue' = Tail(queue)
    /\ UNCHANGED <<pc, asked, objects, platformFlag, evars, code, reporter, cvars>>

(* The process dies without another instruction.                               *)
Kill ==
    /\ pc \notin {"exited", "killed"}
    /\ pc' = "killed"
    /\ IF phase = "running" THEN Create!GiveUp /\ phase' = "killed"
       ELSE UNCHANGED cvars
    /\ UNCHANGED <<asked, objects, platformFlag, evars, code, tvars>>

Step == \/ ParseFlags \/ Before \/ Load \/ FindConfig \/ EndConfigs
        \/ ExtractPath \/ NextRule \/ NextObject \/ ParsePlatform
        \/ CreateReturns \/ After \/ Drained \/ Timeout \/ Exit
Next == Step \/ CreateWorks \/ Deliver \/ Kill

Spec == Init /\ [][Next]_vars

(* The command keeps running, and archive.Create returns (EveryRunEnds of      *)
(* Archive).  The telemetry server owes nothing: Deliver has no fairness, and  *)
(* Timeout is the timer of the context Shutdown is given.                      *)
FairSpec == Spec /\ WF_vars(Step)
--------------------------------------------------------------------------------
(* The command's state keeps its types: the loops of the extractor stay within *)
(* objects and rules, and no event waits at a reporter that was never made or  *)
(* has been shut down.                                                         *)
TypeOK ==
    /\ pc \in {"parse", "Before", "load", "config", "extract", "archive", "After",
               "shutdown", "exit", "exited", "killed"}
    /\ asked \in {"archive", "help"}
    /\ objects \in Inputs
    /\ platformFlag \in {"unset", "valid", "invalid"}
    /\ rules \in Seq(Rule)
    /\ o \in 1..(Len(objects) + 1)
    /\ r \in 1..(Len(rules) + 1)
    /\ p \in Nat \ {0}
    /\ images \subseteq Names
    /\ code \in 0..2
    /\ reporter \in {"nil", "open", "closed"}
    /\ queue # <<>> => reporter = "open"
    /\ phase \in {"idle", "running", "ok", "failed", "killed"}
    /\ want \subseteq Names /\ got \subseteq want
    /\ file.refs \subseteq Names

(* Every image reference in the manifests: what the default rules and the      *)
(* rules of all the Config objects reach, wherever the Config objects are.     *)
RulesInForce ==
    {DefaultRules[a] : a \in DOMAIN DefaultRules} \cup
    UNION {{objects[a].rules[b] : b \in DOMAIN objects[a].rules} :
              a \in {c \in DOMAIN objects : objects[c].type = ConfigType}}

Reached ==
    UNION {UNION {UNION {objects[a].yields[rule.paths[b]].refs :
                            b \in DOMAIN rule.paths} :
                     rule \in {q \in RulesInForce : q.type = objects[a].type}} :
              a \in DOMAIN objects}

(* "construct an OCI image archive from a set of Kubernetes manifests": a run  *)
(* that exits with status 0 leaves the archive of exactly the references in    *)
(* its manifests, whatever the telemetry server did.                           *)
EveryReferenceArchived ==
    pc = "exited" /\ code = 0 /\ asked = "archive" => file = Create!ArchiveOf(Reached)

(* The exit status tells a script whether there is an archive: it is 0 exactly *)
(* when archive.Create succeeded, also when telemetry could not be shut down.  *)
(* A run that was asked for help never calls it.                               *)
ExitTellsOutcome ==
    /\ pc = "exited" /\ asked = "archive" => (code = 0 <=> phase = "ok")
    /\ asked = "help" => phase = "idle"

(* A manifest that cannot be used, a rule that fails or a bad flag costs       *)
(* nothing: the output is not touched before all of the input has been judged. *)
Usable ==
    /\ platformFlag # "invalid"
    /\ \A a \in DOMAIN objects :
          /\ objects[a].type = ConfigType => objects[a].converts
          /\ \A rule \in RulesInForce :
                rule.type = objects[a].type =>
                    \A b \in DOMAIN rule.paths : objects[a].yields[rule.paths[b]].st = "ok"

OutputTouchedOnlyIfUsable == [][file' # file => Usable]_vars

(* A run that ends by itself, also by a panic, reports its stop exactly when   *)
(* it reported its start, in that order; events are lost only from the end.    *)
Events == received \o queue

StopFollowsStart ==
    /\ Events \in {<<>>, <<"ApplicationStart">>, <<"ApplicationStart", "ApplicationStop">>}
    /\ pc = "shutdown" => Events = <<"ApplicationStart", "ApplicationStop">>

(* The command ends although the telemetry server may never answer.            *)
RunEnds == <>(pc \in {"exited", "killed"})
================================================================================
