# A formal model of airgapify

airgapify is a command that reads Kubernetes manifests, collects the container
image references in them and writes one OCI image archive. This directory holds
TLA+ modules that model it, TLC configurations that check them on small
instances, and TLAPS proofs of their main properties for every instance. The
paths below are relative to the repository's root.

## The system

| Component | Source | State | Operations |
|---|---|---|---|
| Command | `main.go`, `internal/util/cli.go` | flags, the telemetry reporter, the exit status | parse flags, Before, Action, After |
| Loader | `internal/loader/loader.go` | the objects so far, one open stream, the walk | `LoadObjectsFromFiles` |
| Extractor | `internal/extractor/extractor.go` | the rules, the set of references | `ExtractImageReferences` |
| Config API | `api/v1alpha1` | a Config object's rules and images | conversion; generated deep copies |
| JSONPath parser | `internal/util/jsonpath/parser.go`, `node.go` | the cursor, the node lists, the parsers it calls | `Parse`, `parseAction` |
| JSONPath evaluator | `internal/util/jsonpath/jsonpath.go` | the values in hand and the calls of `evalList`; three loop counters, the last end node, the nodes to start from | `FindResults`, `walk`, `Execute`, `PrintResults` |
| Comparisons | `internal/util/jsonpath/template` | none | `Less`, `Equal`, `Indirect`, ... |
| Archive | `internal/archive/archive.go` | a staging directory, the output file, deferred calls | `Create` |
| Log level flag | `internal/util/logging.go` | the level | `Set`, `String` |

A run is one sequence of calls: the command loads all objects, takes the rules
of every Config object among them in addition to the default rules, evaluates
every rule's paths on every object of the rule's type, and hands the resulting
set of names to `archive.Create`. The only other goroutine is the telemetry
reporter's. What makes the system hard is elsewhere:

- **Failure.** `Create` makes ten kinds of external call, each of which can
  fail, three of them in deferred functions whose errors are dropped; the
  command has no signal handler, so it can also die between any two of them.
  What stands at the output path afterwards, and what the exit status says of
  it, is the product's one promise.
- **Shared mutable state in a recursion.** `{range}` loops are not delimited by
  the parser. `FindResults` calls itself on the nodes after the range and finds
  the matching end at run time through counters that all active calls share.
- **Recursion over what was put together.** The parser cuts unions, keys and
  filters out of its text by looking for single characters, puts the parts into
  new brackets and parses them with parsers of their own.
- **Lists instead of values.** The evaluator carries all values through one node
  before it comes to the next, and calls itself for operands and union members.
- **Boundaries.** Array subscripts allow negative numbers, missing numbers and
  steps, and derive a stop from the start in machine integers. Signed and
  unsigned integers meet in comparisons.
- **Order.** Config objects, files and map keys come in any order.
- **Other processes.** Files vanish between being listed and being opened; the
  telemetry server may accept events and never answer.

Correctness, per component:

| Component | What makes it correct |
|---|---|
| Archive | a nil return means a complete archive of exactly the references given; the output is untouched until all images are staged; the compressor is closed before the file; the staging directory is removed; every run ends |
| Subscripts | no selection out of bounds; `[n]` selects one element or fails; slices select what slices select; no overflow; evaluation ends |
| Expressions | for every value on its own, what the expression denotes for it; calls are answered to the caller that waits; missing keys stop no run; evaluation ends |
| Comparisons | integers compare by value whatever their Go types; the six operators agree on one order; whether they fail depends on the operands only |
| Ranges | a balanced template means nested loops; the counters are exact; the recursion descends; redundant ends are rejected; evaluation ends |
| Parser | what is written is what is read; what is cut off is refused; the cursor stays in the text; called parsers work on less; parsing ends |
| Loader | success means every document of every path, in order, but for files gone before they were listed; failure has a reason; one file open at a time; loading ends |
| Command and extractor | exit status 0 means the archive of all references in the manifests, unless help was asked for; input errors cost nothing; stop follows start in telemetry; a run ends without the telemetry server's help |

## Modules

`ArchiveContract` is abstract; `Archive`, `ArrayNode`, `Eval`, `Compare`,
`RangeWalk`, `Parser` and `Loader` each model one component; `Airgapify`
composes the command with the contract. `SliceParams` holds what `Parser`,
`ArrayNode` and `Eval` share: the parameters of a subscript. An `MC` module
instantiates each for TLC, and a `Proofs` module holds the theorems.

**ArchiveContract** says what a caller of `Create` may rely on, over the
outcome of a call and the file only: obtain every image, then publish or damage
the file, and succeed only over the archive of exactly what was wanted.

**Archive** models `Create` call by call, for any number of runs on one output
path. `pc` names the external call about to be made; `defers` is Go's stack of
deferred functions, so the order in which the file and the compressor are closed
is the code's and not the model's. The image layout is the sequence of manifest
descriptors in its index: the name, the platform the manifest was built for, the
platform stamped on the descriptor. The output's body is what was there before, a
cut file, one complete but for what the compressor still holds, or a whole one.
`Manifests` is what the registry client may return: an index is searched for the
platform, a plain manifest is taken as it is. `Kill` may happen at any time.
`abandoned` is a history variable.

**ArrayNode** models `parseArray`'s slice operator, `evalArray` and `evalUnion`:
from the three optional numbers to the elements selected, one loop iteration per
action. Integers are machine integers (`Add`) where the code adds numbers that
may be large. A value is a nil, the invalid `reflect.Value`, a list with a length,
or something else.

**Eval** models `FindResults` without ranges, `walk`, `evalList` and the eval
function of every node type. A value is a place in a document, so that results
can be told apart that look the same. Each call of `evalList` is a frame of
`stack`, with the inputs its current node has still to visit; operands of
filters and members of unions are calls of their own. The entries of a map come
in any order, a new one at each visit. `cut` is a history variable: an empty
selection has made `evalArray` skip the inputs after it (finding 2). The root of a
document is not null (`IsDocument`): the command evaluates objects, which are maps,
and on a null root, an invalid `reflect.Value`, `evalArray` panics, as it does in
`RangeWalk`. A null within a document is skipped. The keywords `range` and `end`
are `RangeWalk`'s, so that of `evalIdentifier` only the error is left here.

**EvalMeaning** models no code: it says what the expressions of `Eval` denote, one
value at a time and depth first, a failure being an outcome like a value. `Denotes`
holds the evaluator to it, and `Regular` says for which expressions that is proved.

**Compare** models `template/funcs.go`: `Equal` and `Less` by the kinds of their
operands, and the four operators made of them with their errors. Integers have
their widths, and the conversions between signed and unsigned wrap.

**Parser** models `parser.go` character by character: one mode per parse
function, one action per decision it makes, and a stack of parsers, since
`parseAction` makes a new one for every union member, quoted key and operand.
A union keeps the members it has not come to in one text and splits off one at
a time. The regular expressions are modelled by what they match, `UnquoteExtend`
by what it makes of the escapes; numbers keep their width, so that an integer
too long for an int becomes a float, as it does in `parseNumber`.

**RangeWalk** models `FindResults` and `evalIdentifier`. `stack` holds the active
calls, innermost last; `rootAt` is where `parser.Root.Nodes` starts (all the
slices in play are suffixes of one node list); a frame is looping (`loop`) over
`todo`, or dry when the range had no results and its body runs on nil. A node has
at most one keyword and an expression that yields a number of values which
depends on where it is evaluated; its own evaluation is one step.

**Loader** models `LoadObjectsFromFiles`: arguments, directory walk, decoding
document by document, and another program that removes files meanwhile. A
symbolic link to a directory is what it is to the code: `os.Stat` follows it,
`filepath.WalkDir` does not, and reading it fails. `missed` is a history variable:
the paths that were already gone when their directory was listed. Those are the only
ones a successful run may do without; a file that was listed or stat'ed and is gone
when it is opened must make it fail.

**Airgapify** models `main` and the extractor: flags, Before, loading, the search
for Config objects, extraction rule by rule and path by path, the platform flag,
`archive.Create` as an instance of `ArchiveContract`, After, and the reporter that
delivers events in its own time. `asked` is what the command line asks for: with
`--help` or `--version` the CLI framework returns without an error and calls
neither Before nor the action nor After, so that such a run exits with 0 and makes
no archive. What a path yields on an object is an input: references, an error, or
a panic.

The operators whose comment begins with "Mutant" are the definitions with a
plausible bug. No behaviour of the model uses them; putting one in the place of
the definition it precedes violates the property PROJECT.json pairs it with,
which shows that the property depends on the code being right there.

## Runs

| Run | Question | Instance |
|---|---|---|
| `MCArchive.cfg` | Is a nil return sound, is the contract implemented, does every run end? | 3 names (an index, a plain manifest, one that does not parse), 2 platforms, 2 runs; every call but the Closes may fail, and the process may be killed |
| `MCArchiveClose.cfg` | Is a nil return sound when a Close fails? **No.** | all faults |
| `MCArrayNode.cfg` | Do subscripts select what slices select, in bounds? | every subscript over numbers around 0, around the lengths and at the end of a 4-bit int range; unions of two; up to two values of length 0 to 3, nils and non-lists |
| `MCArrayNodeEmpty.cfg` | Does a zero-length selection only contribute nothing? **No.** | the same |
| `MCCompare.cfg` | Do comparisons follow one order? | all triples of the 3-bit integers, signed and unsigned, and values of the other kinds, NaN among them |
| `MCEval.cfg` | Does an expression yield what it denotes, and fail only for a reason? | paths of up to 3 simple nodes, of up to 2 nodes with filters and unions, nested ones among them, on small documents with every kind of value |
| `MCEvalExists.cfg` | The same for a filter whose operand fails. **No.** | one template |
| `MCParser.cfg` | Is what is written what is read, and is the rest refused? | 1140 phrases of the language, alone, and some in pairs with text around them; each cut off at every place; heaps of up to 3 fragments in an open brace, and of up to 5 brackets and quotes in a closed one; `MaxInt` 99 |
| `MCRangeWalk.cfg` | Does a balanced template mean nested loops, do counters and recursion stay in step? | every template of up to 6 nodes over a value, two kinds of range and ends, and of up to 4 nodes over 8 kinds, failing and unmatched ones among them; two calls |
| `MCRangeWalkEmpty.cfg` | Is a range without results harmless? **No.** | up to 4 nodes, one of them indexing |
| `MCLoader.cfg` | Is loading complete, or does it fail for a reason? | up to 3 arguments out of stdin, files (one broken, one locked), a directory with a nested one, one with a link in it; three paths may vanish |
| `MCAirgapify.cfg` | Does exit status 0 mean the archive of all references, wherever the Config objects are? | up to 3 objects out of 8, all platform flags, telemetry that may never answer; help asked for |

`Denotes`, `LoopSemantics`, `MatchesSlices`, `LoadsEverything` and `ReadsBack`
compare the code with a reference written independently of it: values one by one
and depth first, ranges matched as brackets, slices as sets of indexes, the files
a path stands for, phrases written next to the nodes they mean. The references
that proofs are about stand at the end of the component's module, that of `Denotes`
in `EvalMeaning`, as recursive functions; that of `ReadsBack` in the `MC` module.

Why the bounds are enough. Two archive runs show what an earlier run leaves to a
later one; a third starts from the same kinds of file. Three names are one of
each kind the code tells apart. Two values are what evalArray's early return
needs; lengths up to 3 leave room for a step between the ends. An expression's
node sees only the list its predecessor left, so pairs of nodes show every
hand-over, and a third after a descent or wildcard the lists these make.
Comparisons take two operands, and a third is what transitivity needs; three
bits hold a number on each side of both signed limits. Phrases pair the kinds of
nodes with each other, in brackets, filters and unions as well as outside; five
brackets and quotes close two levels and leave one over. Six nodes hold two
nested loops with something in and after each, or two loops in a row inside one.
Three arguments allow a repetition around something else. Three objects allow a
Config before, between and after the objects it concerns. The proofs remove the
bounds for the properties they cover.

Runs that do not check for deadlock are of programs that end.

## Fairness

`Archive`, `ArrayNode`, `Eval`, `Parser`, `RangeWalk`, `Loader`: weak fairness of
the program's own steps. They are sequential code; the next statement is executed unless the
process dies. For `Archive` and `Loader` this assumes that external calls return:
`Create` sets no timeout on the registry, and a server that never answers does
hang the command. No property covers that: nothing in the repository promises that
it ends. There is no fairness of kills, of file removals, or of the
user's calls. In `Airgapify` the delivery of telemetry events has none either;
`Timeout` is part of the program's steps because it is a timer of the code, and
`CreateReturns` because `EveryRunEnds` of `Archive` shows that `Create` returns.

## What the runs found

1. **A failing Close goes unnoticed** (`internal/archive/archive.go:98,105`).
   Closing the compressor flushes it. If that fails, `Create` has already chosen
   to return nil, and the command exits with status 0 over a truncated archive.
2. **A zero-length selection silences the inputs after it**
   (`internal/util/jsonpath/jsonpath.go:326-328`). `evalArray` returns from inside
   its loop: over `[[], [x]]`, `[*][*]` loses x. `MatchesSlices` is what holds.
3. **An exists-filter keeps the elements on which its question fails**
   (`jsonpath.go:508-515`). The operand's error is not looked at, and what came
   with it is the operand's input: `[?(@[1])]` keeps the lists without a `[1]`.
4. **The body of an empty range runs on nil** (`jsonpath.go:116-119`), and panics
   if it indexes its value, since the error message asks for the type of the
   invalid value (`jsonpath.go:299`).

Met while modelling, and part of the models without a run of their own:

- `--platform` filters indexes only (`archive.go:72,83-85`): a plain manifest of
  another platform is archived under the requested platform's label.
  `IndexesResolved` is what holds.
- A JSONPath with a range can be used once (`jsonpath.go:108,118`): the node list
  is not restored. The command makes a new one for each path and object.
- A null among the images becomes the reference `<nil>` (`extractor.go:150`):
  `Denotes` shows that nulls are results like any other, and formatting makes a
  name of them that does not parse. Formatting is left out, so no property is about
  the name itself; what a name that does not parse makes of a run is in `Archive`.
- The parser reads some texts otherwise than they look. `"\\"` is not closed,
  since the quote after an escaped backslash counts as escaped
  (`parser.go:407-411`); a filter heeds one pair of quotes only and ends at the
  first `)` after it (`parser.go:357-380`), so filters do not nest; a comma in a
  quoted key splits it (`parser.go:276-291`); a key in brackets is parsed again
  as a path, so that `['k.t']` is two fields (`parser.go:292-301`); a `}` inside
  an operand ends it, and what comes after is dropped (`parser.go:70-78`).

## What is proved

The proofs assume only the named assumptions on the constants in the modules.

- **ArchiveProofs**, for any images, registries, faults, kills and number of runs:
  `TypeCorrect`, `SuccessIsSound`, `IndexesAreResolved`, `FlushedBeforeClosed`,
  `TempDirsRemoved`, `EarlierArchiveKept` and `Refinement`. `SuccessIsSound` and
  `Refinement` suppose that the two Closes do not fail (`ClosesWork`): finding 1
  shows that they need to. The inductive invariant says, for each `pc`, which deferred
  functions are pending, that the index lists exactly the names visited and not in
  hand, once each and for the right platform, and what the output holds by then.
  `SuccessMeansArchive` alone says nothing before the return.
- **ArrayNodeProofs**, for any int width, subscripts and inputs: `TypeCorrect`,
  `SelectionsInBounds`, `IndexIsExact` and `SlicesAreExact`. The invariant's heart is
  that inside the inner loop the window lies within the list and the index is zero or
  at least one step: this is why adding any positive int to it cannot wrap. The case
  split of `IndexIsOne` is over the derived stop: wrapped, 0, negative, positive. For
  `SlicesAreExact` what has been collected is the selection of the inputs visited and
  of the window passed, up to the input at which an empty selection has ended the
  loop.
- **CompareProofs**, for any width: `Exactness`, `OneOrder`, `FailuresAlike`. The
  conversions to unsigned are exact exactly where the code's sign test guards
  them; the derived operators then follow from what `Less` and `Equal` say of a
  pair, by its kinds. The invariant is only that operands fit their kinds.
- **EvalProofs**, for any documents and expressions nested to any depth:
  `TypeCorrect`, `CallsAreMatched`, `PathsNeverFail` and `ResultsAreDenoted`. The
  invariant of the first three says that
  every frame but the innermost waits, at a filter with elements left or at a
  union with members left; that the frame above is the call it waits for; and
  that only a filter waiting for its right operand holds a left one. For
  `PathsNeverFail`: tolerant nodes make no calls, so there is one frame.
  `ResultsAreDenoted` has an invariant of its own, described below.
- **ParserProofs**, for any alphabet and any templates: `TypeCorrect` and
  `NestingShrinks`. The invariant (`Inv`) adds to the two what keeps them: in an
  action the text begun is at least one character in, in a filter four (the brace
  and `[?(`), and what an action still has to call for is shorter than its text by
  the brackets around it (`Pending`). The one case without slack is the last
  member of a union, as long as its union's text once it is in brackets and
  braces again: the comma it no longer has is what `Weight` counts. That a called
  parser starts with a brace is why `parseAction` finds a list.
- **LoaderProofs**, for any files and removals: `FilesAreClosed`, `TypeCorrect` and
  `EverythingIsLoaded`. A file is open only while a stream is read. For
  `EverythingIsLoaded` the invariant says that the objects so far, with what is
  decoded and what is unread, are what the arguments done with stand for and what
  the current walk has yielded (`Progress`); that the files the walk has seen and
  has yet to see are those under its argument but for files removed before their
  directory was listed (`Sub`); and that
  an error comes from a path of the walk (`Blamed`). The assumption on `Walk` is that
  directories are finite trees and a walk is in their order.
- **RangeWalkProofs**, for any templates and any number of calls: `TypeCorrect`,
  `CountersAreExact`, `RecursionDescends` and `LoopsAreNested`. The invariant
  counts loops: `inRange` is at least the number of looping calls, and equal to it
  until a call has failed, which may leave it raised (`CountersExact` states
  both); all calls but the innermost are looping, each further on than its caller.
  `LoopsAreNested` needs more (`WalkInv`): a call is as deep in the stack as its
  node is nested in the template and has not been above its own level (`Aligned`),
  so that an end that breaks a call is the matching end of its caller's range
  (`EndMet`), and what a call has collected, with what its callee owes and what is
  ahead of it, is what it owes (`Yielded`). That `Aligned` holds where an end is
  left over, too, is why such a template cannot fall off its last node.
- **AirgapifyProofs**, for any objects, rules and references: `TypeCorrect`,
  `ExitIsHonest`, `ArchiveIsComplete`, `InputErrorsAreFree`, `StopIsReportedLast`.
  The invariant says that the rules collected are the default rules and those of
  the Config objects before the loop's index (`Collected`); that every path the
  extraction loops are past did not fail and its references are among the images,
  which hold nothing else (`Extracted`); that `archive.Create` only starts behind
  the last object and with a usable platform (`Flow`); and which events have been
  reported at each place (`Telemetry`). `EveryReferenceArchived` speaks of the exit
  only and is far from inductive. `archive.Create` is its contract here, which
  `Refinement` of ArchiveProofs justifies while the Closes do not fail.

`ResultsAreDenoted` is the theorem about expressions: where `Regular` holds, results
are what the expression denotes (`Denotes`). Its invariant (`MeansInv`) says of
every frame of the stack that what it has found, with what is denoted for the values
it has yet to visit and carried through its remaining nodes (`Have`), is what its
caller expects (`Meets`): the same bag; the same sequence where an order is promised;
less only behind an empty selection (`cut`); anything where a failure is denoted.
What a call returns answers what its caller asked (`Answers`), the left operand that
waits is the one denoted (`LeftMeans`), and the lists done with have their results
(`DoneMeans`). The lemmas it rests on: counting occurrences commutes with joining
sequences, and with mapping each value to its outcomes; the entries of a map in
another order denote the same bag; the two recursive definitions, over the places
of a document and over node lists, are what their equations say.

- `MeaningAssumption` supposes that documents and expressions are finite: `Size` is
  larger for a list than for those nested in it, as for everything the parser makes.
- `Regular` excludes what is not evaluated value by value. Text and keywords do not
  look at their input: a text is one value for a whole list of inputs, so
  that `{.a "b"}` over two values is one text and over none is one, too. They stand
  first in a list, and do not begin a member of a union. An exists-filter does not
  look at its operand's error (finding 3): its operand is a path of fields,
  wildcards and descents, whose only error is a missing field. Everything else,
  filters in operands and unions in unions among it, is covered to any depth.
- `MCEval` checks on its instance that its expressions are regular
  (`RegularAssumption`); `MCEvalExists` shows one that is not, and what it does.

The library's induction theorems take an operator as a parameter, which the provers
cannot instantiate. Where a recursive definition is reasoned about, `Induct`,
`SeqInduct` and `MeasureInduct` state induction for sets instead: a set that holds 0
and the successor of whatever it holds is all of `Nat`, and likewise for sequences;
a set that holds an element whenever it holds all those of smaller measure holds all.

Only model-checked: liveness, which is beyond the provers with fairness, and
`ReadsBack`, whose reference is a list of phrases and the nodes they mean.

## What is not modelled

- How results are printed: `Execute`, `PrintResults` and `template/exec.go`'s
  formatting. The command does not call them, and they keep no state.
- Go structs as data: the command evaluates decoded JSON only.
- Numeric escapes in quotes (`\x`, `\u`, octal), and the bytes of characters: a
  character is one element of a text.
- The log level flag and the generated deep copies: no behaviour to speak of.
- Libraries: the registry client, the layout writer, the compressor, tarfs, the
  YAML decoder, the CLI framework and the telemetry reporter are modelled from how
  the code uses them, as outcomes and failures. That a YAML document which is
  empty or null decodes without an error is the decoder's doing.

## Plan

Done, in this order: `Archive` with its contract, `ArrayNode`, `RangeWalk`,
`Loader`, `Airgapify` and their proofs; then `Compare`, `Eval` and `Parser` and
theirs; the proofs of what subscripts select, of what loading leaves out, of what
nested ranges mean, and of what expressions denote. Every component with state or
control of its own is modelled. Worth doing next, in this order:

1. A composition of `Parser` and `Eval`: from the text of a path to its results,
   with the node lists of the one as the templates of the other.
2. `Eval` as what `Airgapify` takes as an input: what a path yields on an object.
3. Printing, if the command should come to use it.
