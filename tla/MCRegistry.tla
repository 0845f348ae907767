----------------------------- MODULE MCRegistry -----------------------------
EXTENDS Registry, TLC

CONSTANTS v1, v2, sub, c1, c2, m1, m2, x1, x2

V(name, storage, subs) == [name |-> name, served |-> TRUE, storage |-> storage, subs |-> subs]

Spec1(singular, versions) ==
    [names |-> [kind |-> "Foo", singular |-> singular, listKind |-> ""], preserve |-> FALSE, versions |-> versions]

\* Two versions, of which either is the storage version; one, which is not.
MCDefSpecs ==
    {Spec1("foo", <<V(v1, TRUE, Nil), V(v2, FALSE, sub)>>),
     Spec1("foo", <<V(v2, TRUE, sub), V(v1, TRUE, Nil)>>), Spec1("", <<V(v1, FALSE, Nil)>>)}

\* Clients, metadata and contents are only ever compared with each other.
Symmetry == Permutations(Client) \cup Permutations(Labels) \cup Permutations(Values)
=============================================================================
