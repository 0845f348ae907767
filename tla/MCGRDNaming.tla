---------------------------- MODULE MCGRDNaming ----------------------------
EXTENDS GRDNaming, TLC

CONSTANTS g1, g2, p1, p2, s1, s2, k1, k2, l1, l2

Ask(plural, singular, short, kind, listKind) ==
    [f \in Field |->
        CASE f = "plural" -> {plural}
          [] f = "singular" -> {singular}
          [] f = "shortNames" -> short
          [] f = "kind" -> {kind}
          [] f = "listKind" -> {listKind}]

\* Both may want s1 (g1 as its singular, g2 as a short name) and either kind.
MCRequests ==
    g1 :> {Ask(p1, s1, {}, k1, l1), Ask(p1, p1, {}, k2, l1)}
 @@ g2 :> {Ask(p2, s2, {s1}, k2, l2), Ask(p2, s2, {}, k1, l2)}

\* The clash is about the kind k2 only.
KindRequests ==
    g1 :> {Ask(p1, s1, {}, k1, l1), Ask(p1, s1, {}, k2, l1)}
 @@ g2 :> {Ask(p2, s2, {}, k2, l2)}

\* g1 may be changed or removed once its names are accepted, g2 only before.
BusyBoth == g1 :> 4 @@ g2 :> 3

\* g2 is created and then left alone; g1 may be changed or removed even after it
\* has been established.
BusyG1 == g1 :> 5 @@ g2 :> 2
=============================================================================
