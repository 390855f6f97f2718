-------------------------------- MODULE Loader --------------------------------
(* LoadObjectsFromFiles (internal/loader/loader.go): the objects in the files, *)
(* directories and standard input the tool is given, in that order.            *)
(*                                                                             *)
(* A directory is walked without following symbolic links, a stream is decoded *)
(* document by document, and the first failure discards everything.  Other     *)
(* programs go on working in the same directories: a file can disappear after  *)
(* it was stat'ed or listed and before it is opened.                           *)
EXTENDS Integers, FiniteSets, SequencesExt

CONSTANTS
    Stdin,          \* the path "-"
    Files, Dirs,    \* the regular files and the directories
    Links,          \* symbolic links to directories
    Listing,        \* Listing[d]: what is in directory d, in lexical order
    Walk,           \* Walk[p]: the paths a walk of p visits, in order
    Contents,       \* Contents[f]: the documents in f
    Bad,            \* a document that does not decode
    Unreadable,     \* what open or readdir fails on
    Volatile,       \* what another program may remove
    Arguments       \* the lists of paths LoadObjectsFromFiles may be given

Paths == Files \cup Dirs \cup Links
Docs  == UNION {{Contents[f][n] : n \in DOMAIN Contents[f]} : f \in Files \cup {Stdin}}

(* A walk visits a directory, then what is in it; links are not followed.      *)
Entries(p) == IF p \in Dirs THEN Listing[p] ELSE <<>>
Under(p)   == FlattenSeq([a \in DOMAIN Entries(p) |-> Walk[Entries(p)[a]]])

ASSUME LoaderAssumption ==
    /\ Stdin \notin Paths
    /\ Files \cap Dirs = {} /\ Files \cap Links = {} /\ Dirs \cap Links = {}
    /\ Listing \in [Dirs -> Seq(Paths)]
    /\ Walk \in [Paths -> Seq(Paths)]
    /\ \A p \in Paths : Walk[p] = <<p>> \o Under(p)
    /\ DOMAIN Contents = Files \cup {Stdin}
    /\ \A f \in Files \cup {Stdin} : Contents[f] \in Seq(Docs)
    /\ Unreadable \subseteq Paths
    /\ Volatile \subseteq Files \cup Links
    /\ Arguments \subseteq Seq(Paths \cup {Stdin})

(* Reading from a link opens the directory it names, which no read succeeds on. *)
Stream(p) == IF p \in Links THEN <<Bad>> ELSE Contents[p]

VARIABLES
    pc,         \* "args", "walk", "read", then how it ended
    args,       \* the argument
    n,          \* the element of args that is next
    pending,    \* what is left of the argument being loaded, in walking order
    unread,     \* the documents the decoder has not reached
    decoded,    \* the objects loadObjectsFromReader has collected
    stdin,      \* what standard input still holds
    fds,        \* the files that are open
    objects,    \* the objects to return
    gone,       \* the paths that have been removed
    missed      \* history: those of them that were gone when they would have been listed

vars == <<pc, args, n, pending, unread, decoded, stdin, fds, objects, gone, missed>>

Init ==
    /\ pc = "args"
    /\ args \in Arguments
    /\ n = 1
    /\ pending = <<>>
    /\ unread = <<>>
    /\ decoded = <<>>
    /\ stdin = Contents[Stdin]
    /\ fds = {}
    /\ objects = <<>>
    /\ gone = {}
    /\ missed = {}

(* Another program removes a file; one that is open stays readable.            *)
Unlink(p) ==
    /\ p \in Volatile \ gone
    /\ gone' = gone \cup {p}
    /\ UNCHANGED <<pc, args, n, pending, unread, decoded, stdin, fds, objects, missed>>

(* `return nil, err`, after the deferred Close.                                *)
(* Mutant: the file stays open when decoding fails.                            *)
FailOpen ==
    /\ pc' = "error"
    /\ objects' = <<>>
    /\ UNCHANGED <<args, n, pending, unread, decoded, stdin, fds, gone, missed>>

Fail ==
    /\ pc' = "error"
    /\ objects' = <<>>
    /\ fds' = {}
    /\ UNCHANGED <<args, n, pending, unread, decoded, stdin, gone, missed>>

(* loadObjectsFromReader starts on a stream.                                   *)
Decode(docs) ==
    /\ pc' = "read"
    /\ unread' = docs
    /\ decoded' = <<>>

ReadStdin ==
    /\ pc = "args" /\ n <= Len(args) /\ args[n] = Stdin
    /\ n' = n + 1
    /\ Decode(stdin)
    /\ stdin' = <<>>
    /\ UNCHANGED <<args, pending, fds, objects, gone, missed>>

Stat ==
    /\ pc = "args" /\ n <= Len(args) /\ args[n] # Stdin
    /\ \/ /\ args[n] \notin gone
          /\ n' = n + 1
          /\ pending' = <<args[n]>>
          /\ pc' = "walk"
          /\ UNCHANGED <<args, unread, decoded, stdin, fds, objects, gone, missed>>
       \/ /\ args[n] \in gone
          /\ Fail

Found(p) == p \notin gone \cup Unreadable

Remaining(s) == FlattenSeq([a \in DOMAIN s |-> IF s[a] \in gone THEN <<>> ELSE <<s[a]>>])

(* WalkDir visits a directory: the entries it has now are walked next.  Their  *)
(* kind is what the listing says, so a link is not a directory.                *)
VisitDir ==
    /\ pc = "walk" /\ pending # <<>> /\ Head(pending) \in Dirs
    /\ \/ /\ Found(Head(pending))
          /\ pending' = Remaining(Listing[Head(pending)]) \o Tail(pending)
          /\ missed' = missed \cup (Range(Listing[Head(pending)]) \cap gone)
          /\ UNCHANGED <<pc, args, n, unread, decoded, stdin, fds, objects, gone>>
       \/ /\ ~Found(Head(pending))
          /\ Fail

(* Mutant: a file that has disappeared since it was listed is passed over.     *)
OpenFileIfThere ==
    /\ pc = "walk" /\ pending # <<>> /\ Head(pending) \notin Dirs
    /\ pending' = Tail(pending)
    /\ \/ /\ Found(Head(pending))
          /\ Decode(Stream(Head(pending)))
          /\ fds' = fds \cup {Head(pending)}
          /\ UNCHANGED <<args, n, stdin, objects, gone, missed>>
       \/ /\ Head(pending) \in gone
          /\ UNCHANGED <<pc, args, n, unread, decoded, stdin, fds, objects, gone, missed>>

(* loadObjectsFromYAML opens whatever is not a directory.                      *)
OpenFile ==
    /\ pc = "walk" /\ pending # <<>> /\ Head(pending) \notin Dirs
    /\ \/ /\ Found(Head(pending))
          /\ pending' = Tail(pending)
          /\ Decode(Stream(Head(pending)))
          /\ fds' = fds \cup {Head(pending)}
          /\ UNCHANGED <<args, n, stdin, objects, gone, missed>>
       \/ /\ ~Found(Head(pending))
          /\ Fail

(* Mutant: what a broken stream held before its bad document is kept, and the  *)
(* rest of it skipped.                                                         *)
ReadDocumentTolerant ==
    /\ pc = "read" /\ unread # <<>>
    /\ \/ /\ Head(unread) # Bad
          /\ decoded' = Append(decoded, Head(unread))
          /\ unread' = Tail(unread)
       \/ /\ Head(unread) = Bad
          /\ unread' = <<>>
          /\ UNCHANGED decoded
    /\ UNCHANGED <<pc, args, n, pending, stdin, fds, objects, gone, missed>>

(* Mutant: the error of Decode is not looked at.                               *)
ReadDocumentUnchecked ==
    /\ pc = "read" /\ unread # <<>>
    /\ decoded' = Append(decoded, Head(unread))
    /\ unread' = Tail(unread)
    /\ UNCHANGED <<pc, args, n, pending, stdin, fds, objects, gone, missed>>

ReadDocument ==
    /\ pc = "read" /\ unread # <<>>
    /\ \/ /\ Head(unread) # Bad
          /\ decoded' = Append(decoded, Head(unread))
          /\ unread' = Tail(unread)
          /\ UNCHANGED <<pc, args, n, pending, stdin, fds, objects, gone, missed>>
       \/ /\ Head(unread) = Bad
          /\ Fail

(* Mutants: an empty stream is an error; io.EOF is not told from a document.   *)
EndOfFileStrict ==
    /\ pc = "read" /\ unread = <<>>
    /\ \/ /\ decoded # <<>>
          /\ objects' = objects \o decoded
          /\ fds' = {}
          /\ pc' = "walk"
          /\ UNCHANGED <<args, n, pending, unread, decoded, stdin, gone, missed>>
       \/ /\ decoded = <<>>
          /\ Fail

EndOfFileMissed == pc = "read" /\ unread = <<>> /\ UNCHANGED vars

(* io.EOF ends a stream; the file, if it is one, is closed on return.          *)
EndOfFile ==
    /\ pc = "read" /\ unread = <<>>
    /\ objects' = objects \o decoded
    /\ fds' = {}
    /\ pc' = "walk"
    /\ UNCHANGED <<args, n, pending, unread, decoded, stdin, gone, missed>>

EndWalk ==
    /\ pc = "walk" /\ pending = <<>>
    /\ pc' = "args"
    /\ UNCHANGED <<args, n, pending, unread, decoded, stdin, fds, objects, gone, missed>>

Return ==
    /\ pc = "args" /\ n > Len(args)
    /\ pc' = "ok"
    /\ UNCHANGED <<args, n, pending, unread, decoded, stdin, fds, objects, gone, missed>>

Step == \/ ReadStdin \/ Stat \/ VisitDir \/ OpenFile
        \/ ReadDocument \/ EndOfFile \/ EndWalk \/ Return
Next == Step \/ \E p \in Volatile : Unlink(p)

Spec     == Init /\ [][Next]_vars
FairSpec == Spec /\ WF_vars(Step)       \* the loader runs; nobody has to remove files
--------------------------------------------------------------------------------
Stopped == {"ok", "error"}

TypeOK ==
    /\ pc \in {"args", "walk", "read"} \cup Stopped
    /\ args \in Arguments
    /\ n \in 1..(Len(args) + 1)
    /\ pending \in Seq(Paths)
    /\ unread \in Seq(Docs \cup {Bad})
    /\ decoded \in Seq(Docs \ {Bad})
    /\ stdin \in Seq(Docs)
    /\ fds \subseteq Files \cup Links
    /\ objects \in Seq(Docs \ {Bad})
    /\ gone \subseteq Volatile
    /\ missed \subseteq gone

(* However many files a directory holds, one is open at a time, and none once  *)
(* the objects are returned, even if that is because decoding failed.          *)
OneFileOpen == Cardinality(fds) <= (IF pc = "read" THEN 1 ELSE 0)

(* What an argument contributes when the paths at the positions of dropped     *)
(* were not there to be listed; standard input gives something only once.      *)
Yield(p)  == IF p \in Dirs THEN <<>> ELSE Stream(p)
StdinOf(k) == IF \E j \in 1..(k - 1) : args[j] = Stdin THEN <<>> ELSE Contents[Stdin]

Share(k, dropped) ==
    IF args[k] = Stdin THEN StdinOf(k)
    ELSE Yield(args[k])
            \o FlattenSeq([a \in DOMAIN Under(args[k]) |->
                   IF a \in dropped THEN <<>> ELSE Yield(Under(args[k])[a])])

(* What has been loaded is every document of every path, in order and once for *)
(* each time it is given; only a file of a directory can be missing, and only  *)
(* if it was removed before its directory was listed.                          *)
Absent(p) == {a \in DOMAIN Under(p) : Under(p)[a] \in missed}

Complete ==
    \E dropped \in [DOMAIN args -> SUBSET UNION {Absent(args[k]) : k \in DOMAIN args}] :
        /\ \A k \in DOMAIN args : dropped[k] \subseteq Absent(args[k])
        /\ objects = FlattenSeq([k \in DOMAIN args |-> Share(k, dropped[k])])

(* Some path cannot be read or decoded.                                        *)
Undecodable(docs) == \E b \in DOMAIN docs : docs[b] = Bad
Troubled(p) == p \in gone \cup Unreadable \/ Undecodable(Yield(p))

Hopeless ==
    \E k \in DOMAIN args :
        IF args[k] = Stdin THEN Undecodable(Contents[Stdin])
        ELSE \E a \in DOMAIN Walk[args[k]] : Troubled(Walk[args[k]][a])

(* "Path to one or more Kubernetes manifests": loading succeeds only with      *)
(* every document of every path given, where a directory is what it listed: a  *)
(* file that was listed or named and is gone when it is opened is never left   *)
(* out silently.  It fails only over a path that cannot be read or decoded.    *)
LoadsEverything == (pc = "ok" => Complete) /\ (pc = "error" => Hopeless)

(* Loading ends, whatever is removed meanwhile.                                *)
Terminates == <>(pc \in Stopped)
================================================================================
