---------------------------- MODULE ArchiveContract ----------------------------
(* What a caller of archive.Create may rely on, stated over nothing but the    *)
(* outcome of a call and the file at the output path.                          *)
(*                                                                             *)
(*  - The file is left alone until every wanted image has been obtained, so    *)
(*    an unreachable registry or a bad name never costs an earlier archive.    *)
(*  - A call reports success only when the file is the archive of exactly the  *)
(*    images it was asked for.                                                 *)
(*  - A failed or killed call may leave a damaged file behind.                 *)
CONSTANT Images

VARIABLES
    phase,      \* how the latest call stands
    want,       \* the images it was asked to archive
    got,        \* the images it has obtained
    file        \* the output path: an earlier file, a damaged one, an archive

cvars == <<phase, want, got, file>>

Earlier    == [body |-> "earlier", refs |-> {}]
Damaged    == [body |-> "damaged", refs |-> {}]
ArchiveOf(S) == [body |-> "archive", refs |-> S]

CInit ==
    /\ phase = "idle"
    /\ want = {}
    /\ got = {}
    /\ file = Earlier

Begin(S) ==
    /\ phase # "running"
    /\ phase' = "running"
    /\ want' = S
    /\ got' = {}
    /\ UNCHANGED file

Obtain(i) ==
    /\ phase = "running"
    /\ i \in want \ got
    /\ got' = got \cup {i}
    /\ UNCHANGED <<phase, want, file>>

Damage ==
    /\ phase = "running"
    /\ got = want
    /\ file' = Damaged
    /\ UNCHANGED <<phase, want, got>>

Publish ==
    /\ phase = "running"
    /\ got = want
    /\ file' = ArchiveOf(want)
    /\ UNCHANGED <<phase, want, got>>

Succeed ==
    /\ phase = "running"
    /\ file = ArchiveOf(want)
    /\ phase' = "ok"
    /\ UNCHANGED <<want, got, file>>

GiveUp ==
    /\ phase = "running"
    /\ phase' \in {"failed", "killed"}
    /\ UNCHANGED <<want, got, file>>

CNext ==
    \/ \E S \in SUBSET Images : Begin(S)
    \/ \E i \in Images : Obtain(i)
    \/ Damage
    \/ Publish
    \/ Succeed
    \/ GiveUp

CSpec == CInit /\ [][CNext]_cvars
================================================================================
