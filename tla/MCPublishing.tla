---------------------------- MODULE MCPublishing ----------------------------
EXTENDS Publishing, TLC

CONSTANTS g1, v1, v2

\* g1 may move from v1 to v2 and back.
MCSpecs == g1 :> {v1 :> "served" @@ v2 :> "none", v1 :> "none" @@ v2 :> "served"}

MCSubresources == g1 :> {"status", "ref", "history", "scale"}
=============================================================================
