-------------------------------- MODULE Archive --------------------------------
(* archive.Create (internal/archive/archive.go), call by call.                 *)
(*                                                                             *)
(* A call stages an OCI layout in a temporary directory, fetches every image   *)
(* of a Go map in whatever order the map yields them, and only then truncates  *)
(* the output file and streams the layout into it through a compressor.  Each  *)
(* external call that can fail is one action; three of them run as deferred    *)
(* functions whose errors the code throws away.  The process has no signal     *)
(* handler, so it can also die between any two steps.                          *)
EXTENDS Integers, Sequences, FiniteSets

CONSTANTS
    Images,          \* the image names callers may ask for
    Unparseable,     \* the names name.ParseReference rejects
    Platforms,       \* the platforms an image can be built for
    DefaultPlatform, \* what the registry client picks when none is asked for
    Indexes,         \* the names that resolve to a multi-platform index
    Serves,          \* Serves[i]: the platforms the registry has for i
    Compressed,      \* does the output's extension select a real compressor?
    Faults,          \* the external calls that may fail, and "kill"
    MaxCalls         \* bound: how often the tool is run

Calls == {"MkdirTemp", "layout.Write", "remote.Image", "AppendImage", "os.Create",
          "NewWriter", "tarfs.Create", "w.Close", "outputFile.Close", "RemoveAll",
          "kill"}

ASSUME ArchiveAssumption ==
    /\ Unparseable \subseteq Images
    /\ Indexes \subseteq Images
    /\ DefaultPlatform \in Platforms
    /\ Serves \in [Images -> SUBSET Platforms]
    /\ Compressed \in BOOLEAN
    /\ Faults \subseteq Calls
    /\ MaxCalls \in Nat

VARIABLES
    pc,         \* the external call about to be made, or how the run ended
    images,     \* the argument: the set of names
    platform,   \* the argument: <<>> for nil, <<p>> for a platform
    todo,       \* the map keys the range loop has not visited
    current,    \* the image being fetched: <<>> or <<i>>
    fetched,    \* the platform of the manifest remote.Image returned: <<>> or <<p>>
    index,      \* the manifests of index.json in the staged layout, in order
    defers,     \* the deferred functions, the next one to run first
    ret,        \* the value to return
    out,        \* the output path
    call,       \* how many runs there have been; also names the temporary directory
    dirs,       \* the temporary directories on disk
    abandoned   \* history: the runs that were killed or whose RemoveAll failed

vars == <<pc, images, platform, todo, current, fetched, index, defers, ret, out,
          call, dirs, abandoned>>

Ended   == {"idle", "returned", "killed"}
Working == {"MkdirTemp", "layout.Write", "range", "remote.Image", "AppendImage",
            "os.Create", "NewWriter", "tarfs.Create"}
Running == pc \in Working \cup {"defers"}

(* A *v1.Platform: nil or a platform.                                          *)
Platform == {<<>>} \cup {<<p>> : p \in Platforms}

(* One manifest descriptor: its org.opencontainers.image.ref.name annotation,  *)
(* the platform of the manifest and the platform stamped on the descriptor.    *)
Descriptors == [ref : Images, built : Platforms,
                label : Platform]

RefsOf(s)       == {s[k].ref : k \in DOMAIN s}
NoDuplicates(s) == \A j, k \in DOMAIN s : s[j].ref = s[k].ref => j = k

(* The file at the output path: left from before, incomplete, complete except  *)
(* for what the compressor still holds, or complete.                           *)
Bodies  == {"earlier", "cut", "unflushed", "whole"}
Files   == [body : Bodies, manifests : Seq(Descriptors)]
Earlier == [body |-> "earlier", manifests |-> <<>>]
Cut     == [body |-> "cut", manifests |-> <<>>]

(* The deferred functions pending before the output is opened, before the      *)
(* compressor is made, and after.                                              *)
Staged == <<"RemoveAll">>
Opened == <<"outputFile.Close", "RemoveAll">>
Piped  == <<"w.Close", "outputFile.Close", "RemoveAll">>

Fails(c) == c \in Faults

(* Mutants: the error is shadowed and nil returned; os.Exit instead of return. *)
ReturnShadowed == /\ ret' = "nil"
                  /\ pc' = "defers"

ReturnExits == /\ ret' = "error"
               /\ pc' = "returned"

(* `return err`: the deferred functions run next.                              *)
ReturnError == /\ ret' = "error"
               /\ pc' = "defers"

(* Mutant: deferred functions run in the order they were deferred.             *)
DeferInOrder(f) == defers' = Append(defers, f)

Defer(f) == defers' = <<f>> \o defers
--------------------------------------------------------------------------------
Init ==
    /\ pc = "idle"
    /\ images = {}
    /\ platform = <<>>
    /\ todo = {}
    /\ current = <<>>
    /\ fetched = <<>>
    /\ index = <<>>
    /\ defers = <<>>
    /\ ret = "none"
    /\ out = Earlier
    /\ call = 0
    /\ dirs = {}
    /\ abandoned = {}

(* The tool is run (again), with the same output path.                         *)
Invoke(S, p) ==
    /\ pc \in Ended
    /\ call < MaxCalls
    /\ call' = call + 1
    /\ images' = S
    /\ platform' = p
    /\ todo' = S
    /\ current' = <<>>
    /\ fetched' = <<>>
    /\ index' = <<>>
    /\ defers' = <<>>
    /\ ret' = "none"
    /\ pc' = "MkdirTemp"
    /\ UNCHANGED <<out, dirs, abandoned>>

MkdirTemp ==
    /\ pc = "MkdirTemp"
    /\ \/ /\ dirs' = dirs \cup {call}
          /\ Defer("RemoveAll")
          /\ pc' = "layout.Write"
          /\ UNCHANGED ret
       \/ /\ Fails("MkdirTemp")
          /\ ReturnError
          /\ UNCHANGED <<dirs, defers>>
    /\ UNCHANGED <<images, platform, todo, current, fetched, index, out, call, abandoned>>

(* layout.FromPath fails on the fresh, empty directory, and the code falls     *)
(* back to layout.Write of an empty index.                                     *)
OpenLayout ==
    /\ pc = "layout.Write"
    /\ \/ /\ index' = <<>>
          /\ pc' = "range"
          /\ UNCHANGED ret
       \/ /\ Fails("layout.Write")
          /\ ReturnError
          /\ UNCHANGED index
    /\ UNCHANGED <<images, platform, todo, current, fetched, defers, out, call, dirs,
                   abandoned>>

(* `for image := range images`: any key not visited yet; its name is parsed.   *)
NextImage(i) ==
    /\ pc = "range"
    /\ i \in todo
    /\ todo' = todo \ {i}
    /\ current' = <<i>>
    /\ IF i \in Unparseable THEN ReturnError
       ELSE pc' = "remote.Image" /\ UNCHANGED ret
    /\ UNCHANGED <<images, platform, fetched, index, defers, out, call, dirs, abandoned>>

(* Mutant: the loop is left before every image was fetched.                    *)
EndRangeEarly ==
    /\ pc = "range"
    /\ pc' = "os.Create"
    /\ UNCHANGED <<images, platform, todo, current, fetched, index, defers, ret, out,
                   call, dirs, abandoned>>

EndRange ==
    /\ pc = "range"
    /\ todo = {}
    /\ pc' = "os.Create"
    /\ UNCHANGED <<images, platform, todo, current, fetched, index, defers, ret, out,
                   call, dirs, abandoned>>

(* The platforms remote.Image may return a manifest for: an index is searched  *)
(* for the wanted platform, a plain manifest is taken whatever it was built    *)
(* for.                                                                        *)
WantedPlatform == IF platform = <<>> THEN DefaultPlatform ELSE platform[1]

(* Mutant: remote.WithPlatform is forgotten.                                   *)
ManifestsOfDefault(i) == IF i \in Indexes THEN Serves[i] \cap {DefaultPlatform}
                         ELSE Serves[i]

Manifests(i)   == IF i \in Indexes THEN Serves[i] \cap {WantedPlatform} ELSE Serves[i]

(* Mutant: an image that could not be fetched is tried again, for ever.        *)
FetchImageRetrying ==
    /\ pc = "remote.Image"
    /\ \/ \E p \in Manifests(current[1]) :
             /\ fetched' = <<p>>
             /\ pc' = "AppendImage"
             /\ UNCHANGED todo
       \/ /\ Fails("remote.Image") \/ Manifests(current[1]) = {}
          /\ todo' = todo \cup {current[1]}
          /\ pc' = "range"
          /\ UNCHANGED fetched
    /\ UNCHANGED <<images, platform, current, index, defers, ret, out, call, dirs,
                   abandoned>>

FetchImage ==
    /\ pc = "remote.Image"
    /\ \/ \E p \in Manifests(current[1]) :
             /\ fetched' = <<p>>
             /\ pc' = "AppendImage"
             /\ UNCHANGED ret
       \/ /\ Fails("remote.Image") \/ Manifests(current[1]) = {}
          /\ ReturnError
          /\ UNCHANGED fetched
    /\ UNCHANGED <<images, platform, todo, current, index, defers, out, call, dirs,
                   abandoned>>

AppendImage ==
    /\ pc = "AppendImage"
    /\ \/ /\ index' = Append(index, [ref   |-> current[1],
                                     built |-> fetched[1],
                                     label |-> platform])
          /\ pc' = "range"
          /\ UNCHANGED ret
       \/ /\ Fails("AppendImage")
          /\ ReturnError
          /\ UNCHANGED index
    /\ current' = <<>>
    /\ fetched' = <<>>
    /\ UNCHANGED <<images, platform, todo, defers, out, call, dirs, abandoned>>

(* os.Create truncates whatever the output path held.                          *)
CreateOutput ==
    /\ pc = "os.Create"
    /\ \/ /\ out' = Cut
          /\ Defer("outputFile.Close")
          /\ pc' = "NewWriter"
          /\ UNCHANGED ret
       \/ /\ Fails("os.Create")
          /\ ReturnError
          /\ UNCHANGED <<out, defers>>
    /\ UNCHANGED <<images, platform, todo, current, fetched, index, call, dirs, abandoned>>

NewWriter ==
    /\ pc = "NewWriter"
    /\ \/ /\ Defer("w.Close")
          /\ pc' = "tarfs.Create"
          /\ UNCHANGED ret
       \/ /\ Fails("NewWriter")
          /\ ReturnError
          /\ UNCHANGED defers
    /\ UNCHANGED <<images, platform, todo, current, fetched, index, out, call, dirs,
                   abandoned>>

(* The layout is streamed through the compressor, which keeps the tail of its  *)
(* output until it is closed; without one the bytes reach the file directly.   *)
Pack ==
    /\ pc = "tarfs.Create"
    /\ \/ /\ out' = [body |-> IF Compressed THEN "unflushed" ELSE "whole",
                     manifests |-> index]
          /\ ret' = "nil"
          /\ pc' = "defers"
       \/ /\ Fails("tarfs.Create")
          /\ ReturnError
          /\ UNCHANGED out
    /\ UNCHANGED <<images, platform, todo, current, fetched, index, defers, call, dirs,
                   abandoned>>
--------------------------------------------------------------------------------
(* The deferred functions, last deferred first.  Their errors are dropped.     *)
CloseWriter ==
    /\ \/ out' = IF out.body = "unflushed" THEN [out EXCEPT !.body = "whole"] ELSE out
       \/ /\ Fails("w.Close") /\ Compressed
          /\ out' = Cut
    /\ UNCHANGED <<dirs, abandoned>>

(* Closing the file, or dying, loses what the compressor still holds.          *)
LoseBuffered == IF out.body = "unflushed" THEN Cut ELSE out

(* The close itself may report that earlier writes did not reach the disk.     *)
CloseOutput ==
    /\ \/ out' = LoseBuffered
       \/ /\ Fails("outputFile.Close")
          /\ out' = Cut
    /\ UNCHANGED <<dirs, abandoned>>

RemoveTemp ==
    /\ \/ /\ dirs' = dirs \ {call}
          /\ UNCHANGED abandoned
       \/ /\ Fails("RemoveAll")
          /\ abandoned' = abandoned \cup {call}
          /\ UNCHANGED dirs
    /\ UNCHANGED out

RunDeferred ==
    /\ pc = "defers"
    /\ defers # <<>>
    /\ defers' = Tail(defers)
    /\ \/ Head(defers) = "w.Close" /\ CloseWriter
       \/ Head(defers) = "outputFile.Close" /\ CloseOutput
       \/ Head(defers) = "RemoveAll" /\ RemoveTemp
    /\ UNCHANGED <<pc, images, platform, todo, current, fetched, index, ret, call>>

Return ==
    /\ pc = "defers"
    /\ defers = <<>>
    /\ pc' = "returned"
    /\ UNCHANGED <<images, platform, todo, current, fetched, index, defers, ret, out,
                   call, dirs, abandoned>>

(* SIGINT, SIGTERM or a crash: nothing deferred runs.                          *)
Kill ==
    /\ Fails("kill")
    /\ Running
    /\ pc' = "killed"
    /\ out' = LoseBuffered
    /\ defers' = <<>>
    /\ abandoned' = abandoned \cup {call}
    /\ UNCHANGED <<images, platform, todo, current, fetched, index, ret, call, dirs>>
--------------------------------------------------------------------------------
Step ==
    \/ MkdirTemp
    \/ OpenLayout
    \/ \E i \in Images : NextImage(i)
    \/ EndRange
    \/ FetchImage
    \/ AppendImage
    \/ CreateOutput
    \/ NewWriter
    \/ Pack
    \/ RunDeferred
    \/ Return

Next ==
    \/ \E S \in SUBSET Images, p \in Platform : Invoke(S, p)
    \/ Step
    \/ Kill

Spec == Init /\ [][Next]_vars

(* A run in progress keeps running: Go code makes its next call, and every     *)
(* external call returns.  Nobody has to run the tool, and nothing has to die. *)
FairSpec == Spec /\ WF_vars(Step)
--------------------------------------------------------------------------------
(* The state of a run has the types of the Go values.                          *)
TypeOK ==
    /\ pc \in Ended \cup Working \cup {"defers"}
    /\ images \subseteq Images
    /\ platform \in Platform
    /\ todo \subseteq images
    /\ current \in {<<>>} \cup {<<i>> : i \in images}
    /\ fetched \in Platform
    /\ index \in Seq(Descriptors)
    /\ defers \in {<<>>, Staged, Opened, Piped}
    /\ ret \in {"none", "nil", "error"}
    /\ out \in Files
    /\ call \in 0..MaxCalls
    /\ dirs \subseteq 1..call
    /\ abandoned \subseteq 1..call

(* "Create creates an OCI image archive from a set of image references": when  *)
(* it returns nil the file is a complete archive whose index lists every       *)
(* reference once and nothing else, whatever earlier runs left at that path.   *)
IsArchiveOf(S, o) ==
    /\ o.body = "whole"
    /\ RefsOf(o.manifests) = S
    /\ NoDuplicates(o.manifests)

SuccessMeansArchive == pc = "returned" /\ ret = "nil" => IsArchiveOf(images, out)

(* A reference that names a multi-platform index is archived for the platform  *)
(* asked for, or for the default one; one that names a plain manifest is taken *)
(* whatever it was built for.                                                  *)
IndexesResolved ==
    pc = "returned" /\ ret = "nil" /\ out.body = "whole" =>
        \A k \in DOMAIN out.manifests :
            out.manifests[k].ref \in Indexes => out.manifests[k].built = WantedPlatform

(* The output path is not written before every image has been staged: a bad    *)
(* name or an unreachable registry never costs the archive that was there.     *)
OutputTouchedOnlyAfterFetch == [][out' # out => RefsOf(index) = images]_vars

(* The file is never closed over a compressor that still holds data.           *)
FlushBeforeClose ==
    out.body = "unflushed" => pc = "defers" /\ defers # <<>> /\ Head(defers) = "w.Close"

(* However a run ends short of being killed, its temporary directory is gone,  *)
(* unless the removal itself failed (its error is dropped).                    *)
NoTempDirLeft == dirs \subseteq abandoned \cup (IF Running THEN {call} ELSE {})

(* Once run, the tool ends: by returning or by being killed.                   *)
EveryRunEnds == (pc = "MkdirTemp") ~> (pc \in {"returned", "killed"})
--------------------------------------------------------------------------------
(* What a caller sees of this state.                                           *)
Phase ==
    CASE pc = "idle"      -> "idle"
      [] pc = "killed"    -> "killed"
      [] pc = "returned" /\ ret = "nil" -> "ok"
      [] pc = "returned" /\ ret # "nil" -> "failed"
      [] OTHER            -> "running"

File == [body |-> CASE out.body = "earlier" -> "earlier"
                    [] out.body = "whole"   -> "archive"
                    [] OTHER                -> "damaged",
         refs |-> IF out.body = "whole" THEN RefsOf(out.manifests) ELSE {}]

Contract == INSTANCE ArchiveContract
                WITH phase <- Phase, want <- images, got <- RefsOf(index), file <- File

(* Create implements the contract its callers rely on.                         *)
ImplementsContract == Contract!CSpec
================================================================================
