------------------------------- MODULE MCLoader -------------------------------
(* An instance of Loader: a directory with files and a nested directory, one   *)
(* with a link in it, a broken and a locked file, standard input, and files    *)
(* that may disappear.                                                         *)
EXTENDS Loader, TLC

CONSTANTS dash, good, gone1, deep, broken, locked, top, sub, mount, link, d1, d2, d3, bad

MCFiles    == {good, gone1, deep, broken, locked}
MCDirs     == {top, sub, mount}
MCLinks    == {link}
MCListing  == top :> <<gone1, good, sub>> @@ sub :> <<deep>> @@ mount :> <<link>>
MCContents == dash :> <<d1, d2>> @@ good :> <<d3>> @@ gone1 :> <<d2, d1>>
              @@ deep :> <<d1>>
              @@ broken :> <<d1, bad>> @@ locked :> <<d1>>

MCArguments == BoundedSeq({dash, good, gone1, broken, locked, top, mount}, 3)
               \cup {<<link>>, <<sub, dash, top>>}

RECURSIVE Visits(_)
Visits(p) == <<p>> \o FlattenSeq([a \in DOMAIN Entries(p) |-> Visits(Entries(p)[a])])

MCWalk == [p \in Paths |-> Visits(p)]
================================================================================
