------------------------------ MODULE GRDLister ------------------------------
(***************************************************************************)
(* The definitions of one group in the lister of the shared informer, from *)
(* the start of the informers on.  What matters here of a definition is    *)
(* which versions it has and serves, and two of its conditions.            *)
(***************************************************************************)
EXTENDS Naturals

CONSTANTS
    GRD, Version,
    Absent,         \* no such definition
    Specs,          \* per definition: its possible specs, Version -> "served", "unserved" or "none"
    MaxChanges      \* bound on changes seen by the informer

Definition(g) == [spec : Specs[g], est : BOOLEAN, term : BOOLEAN]

ASSUME ListerAssumption ==
    /\ MaxChanges \in Nat
    /\ \A g \in GRD :
        Absent \notin Definition(g) /\ Specs[g] \subseteq [Version -> {"served", "unserved", "none"}]

VARIABLES
    started,   \* the informers run
    synced,    \* the lister has been filled
    defs,      \* the lister
    changes    \* changes so far

listerVars == <<started, synced, defs, changes>>

ListerInit == started = FALSE /\ synced = FALSE /\ defs = [g \in GRD |-> Absent] /\ changes = 0

Exists(d) == d # Absent
Versions(d) == {v \in Version : Exists(d) /\ d.spec[v] # "none"}
HasServedGRDVersion(d, v) == Exists(d) /\ d.spec[v] = "served"
AllVersions(ds) == UNION {Versions(ds[g]) : g \in GRD}

\* The post-start hook start-grafana-apiserver-informers: every informer that the
\* controllers asked for is started, once.
Start == ~started /\ started' = TRUE /\ UNCHANGED <<synced, defs, changes>>

\* The first list, with additions for what there is.
FirstList ==
    /\ started /\ ~synced /\ synced' = TRUE
    /\ \E ds \in [GRD -> (UNION {Definition(g) : g \in GRD}) \cup {Absent}] :
        /\ \A g \in GRD : Exists(ds[g]) => ds[g] \in Definition(g) /\ ~ds[g].term
        /\ defs' = ds
    /\ UNCHANGED <<started, changes>>

\* What one write makes of a definition: another spec, or a condition that comes
\* true for good.
OneWrite(g, d) ==
    {[d EXCEPT !.spec = s] : s \in Specs[g]} \cup {[d EXCEPT !.est = TRUE], [d EXCEPT !.term = TRUE]}

\* A definition is added, written or removed.
Changed(g, d) ==
    /\ synced /\ changes < MaxChanges /\ d # defs[g]
    /\ IF Exists(defs[g]) THEN d \in OneWrite(g, defs[g]) \cup {Absent} ELSE ~d.est /\ ~d.term
    /\ defs' = [defs EXCEPT ![g] = d] /\ changes' = changes + 1
    /\ UNCHANGED <<started, synced>>
=============================================================================
