---------------------------- MODULE MCGRDServing ----------------------------
EXTENDS GRDServing, TLC

CONSTANTS r1, r2

\* One that is counted, and one that is not (as the finalizer).
MCVerbOf == r1 :> "create" @@ r2 :> "watch"
=============================================================================
