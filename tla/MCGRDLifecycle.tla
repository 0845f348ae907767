--------------------------- MODULE MCGRDLifecycle ---------------------------
(***************************************************************************)
(* A definition created at most twice.  What users do in one behaviour is  *)
(* bounded: they create an instance and leave the definition's annotation  *)
(* alone, or they change the annotation of a definition twice, or once and *)
(* create it anew, and it has no instance and no other finalizer.          *)
(***************************************************************************)
EXTENDS GRDLifecycle, TLC

CONSTANTS c1, n1

MCNamespaceOf == c1 :> n1

MCInputs ==
    changes > 0 \/ uids = 2 =>
        /\ uids + changes <= 3
        /\ Exists(Stored) => ~Stored.other
        /\ \A c \in Creator : cpc[c] = "idle"

\* Nothing that fairness asks for is left out.
MCNext == Next /\ MCInputs'

MCSpec == Init /\ [][MCNext]_vars /\ Fairness
=============================================================================
