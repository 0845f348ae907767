--------------------------- MODULE GRDConversion ---------------------------
(***************************************************************************)
(* A definition on the wire and on disk (v1) and in memory (kinds): the    *)
(* defaults that decoding sets and the conversions between the two.  A     *)
(* version is [name, served, storage, subs]; Nil is a pointer to nothing.  *)
(***************************************************************************)
EXTENDS Naturals, Sequences, FiniteSetsExt

CONSTANT Nil

Lower(kind) == IF kind = "" THEN "" ELSE "lower" \o kind
ListOf(kind) == kind \o "List"

\* The first version that is flagged, as a set; none is an error to its callers.
GetGRDStorageVersion(versions) ==
    LET flagged == {i \in DOMAIN versions : versions[i].storage}
    IN IF flagged = {} THEN {} ELSE {versions[Min(flagged)].name}

HasServedVersion(versions, v) == \E i \in DOMAIN versions : versions[i].name = v /\ versions[i].served

\* Seeded fault: the list kind is derived again and again.
SetDefaultsSpecAgain(spec) == [spec EXCEPT !.names.listKind = @ \o "List"]

SetDefaultsSpec(spec) ==
    [spec EXCEPT
        !.names.singular = IF @ = "" THEN Lower(spec.names.kind) ELSE @,
        !.names.listKind = IF @ = "" /\ spec.names.kind # "" THEN ListOf(spec.names.kind) ELSE @]

SetDefaults(o) ==
    [o EXCEPT !.spec = SetDefaultsSpec(@),
              !.status.stored = IF @ = {} THEN GetGRDStorageVersion(o.spec.versions) ELSE @]

-----------------------------------------------------------------------------
\* To memory: there is no version and there are no subresources above the versions.
SpecToKinds(spec) ==
    [names |-> spec.names, versions |-> spec.versions, preserve |-> spec.preserve, version |-> "", subs |-> Nil]

\* To disk: what is above the versions moves into them.
SpecToV1(spec) ==
    LET versions == IF spec.versions = <<>> /\ spec.version # ""
                    THEN <<[name |-> spec.version, served |-> TRUE, storage |-> TRUE, subs |-> Nil]>>
                    ELSE spec.versions
    IN [names |-> spec.names, preserve |-> spec.preserve = TRUE,
        versions |-> IF spec.subs = Nil THEN versions
                     ELSE [i \in DOMAIN versions |-> [versions[i] EXCEPT !.subs = spec.subs]]]

ToKinds(o) == [o EXCEPT !.spec = SpecToKinds(@)]
ToV1(o) == [o EXCEPT !.spec = SpecToV1(@)]

\* Seeded fault: an object is written as it is in memory.
EncodeAsIs(o) == o

\* The codec: decoding sets the defaults and converts, encoding converts back.
Decode(o) == ToKinds(SetDefaults(o))
Encode(o) == ToV1(o)
=============================================================================
