------------------------------- MODULE MCArchive -------------------------------
(* Instances of Archive: two pullable images (one a multi-platform index, one  *)
(* a plain manifest) and a name that does not parse.                           *)
EXTENDS Archive, TLC

CONSTANTS nginx, app, bad, amd64, arm64

MCImages      == {nginx, app, bad}
MCUnparseable == {bad}
MCIndexes     == {nginx}
MCPlatforms   == {amd64, arm64}
MCServes      == nginx :> {amd64, arm64} @@ app :> {amd64} @@ bad :> {}
AllFaults     == Calls
QuietCloses   == Calls \ {"w.Close", "outputFile.Close"}
================================================================================
