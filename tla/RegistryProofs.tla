--------------------------- MODULE RegistryProofs ---------------------------
(***************************************************************************)
(* Proofs about Registry, for any clients, versions, specs and contents.   *)
(*                                                                         *)
(* A definition goes from the wire into memory, through a strategy, and    *)
(* back to the wire before it is stored.  The first part shows what each   *)
(* of these makes of it: defaults are idempotent, and going to memory and  *)
(* back loses nothing of a defaulted spec.  What is written then has       *)
(* exactly the parts that WrittenMain and WrittenStatus list.              *)
(*                                                                         *)
(* That a generation identifies a spec is not inductive by itself: a later *)
(* write could come back to a generation that a client has seen.  So no    *)
(* copy may be ahead of the stored object in generation, nor differ from   *)
(* it at the same one.  A copy of a deleted instance is told from one of   *)
(* its successor by the revision at which it was born.                     *)
(***************************************************************************)
EXTENDS Registry, WellFoundedInduction, TLAPS

Versions == Seq([name : Version, served : BOOLEAN, storage : BOOLEAN, subs : Subs \cup {Nil}])

Defaulted == {SetDefaultsSpec(s) : s \in DefSpecs}
InMemory == {SpecToKinds(s) : s \in Defaulted}

\* A definition on its way, with a spec of S.
Object(S) ==
    [rev : Nat, born : Nat, gen : Nat, meta : Labels, spec : S,
     status : [cond : Values \cup {Nil}, stored : SUBSET Version]]

-----------------------------------------------------------------------------
(***************************************************************************)
(* Specs.                                                                  *)
(***************************************************************************)

\* The specs with these names, this flag and these versions: there is one.
V1(k, a, l, p, vs) == [names : [kind : {k}, singular : {a}, listKind : {l}], preserve : {p}, versions : {vs}]

\* A spec is determined by its parts.
LEMMA OneSpec ==
    ASSUME NEW k, NEW a, NEW l, NEW p, NEW vs, NEW s \in V1(k, a, l, p, vs), NEW t \in V1(k, a, l, p, vs)
    PROVE  s = t
<1>1. ASSUME NEW r \in V1(k, a, l, p, vs)
      PROVE  r = [names |-> [kind |-> k, singular |-> a, listKind |-> l], preserve |-> p, versions |-> vs]
  BY DEF V1
<1> QED
  BY <1>1

\* What clients write has these parts.
LEMMA SpecParts ==
    ASSUME NEW s \in GrafanaResourceDefinitionSpec
    PROVE  \E k, a, l \in STRING, p \in BOOLEAN, vs \in Versions : s \in V1(k, a, l, p, vs)
<1>1. s \in V1(s.names.kind, s.names.singular, s.names.listKind, s.preserve, s.versions)
  BY DEF GrafanaResourceDefinitionSpec, V1
<1>2. {s.names.kind, s.names.singular, s.names.listKind} \subseteq STRING /\ s.preserve \in BOOLEAN
        /\ s.versions \in Versions
  BY DEF GrafanaResourceDefinitionSpec, Versions
<1> QED
  BY <1>1, <1>2

\* What the defaults make of a spec.
LEMMA DefaultsParts ==
    ASSUME NEW k, NEW a, NEW l, NEW p, NEW vs, NEW s \in V1(k, a, l, p, vs)
    PROVE  SetDefaultsSpec(s) \in V1(k, IF a = "" THEN Lower(k) ELSE a, IF l = ""
             /\ k # "" THEN ListOf(k) ELSE l, p, vs)
  BY DEF SetDefaultsSpec, V1

\* To memory and back.
LEMMA RoundTrip ==
    ASSUME NEW k, NEW a, NEW l, NEW p \in BOOLEAN, NEW vs, NEW s \in V1(k, a, l, p, vs)
    PROVE  /\ SpecToV1(SpecToKinds(s)) = s
           /\ s.versions = vs /\ SpecToKinds(s).versions = vs /\ SpecToV1(SpecToKinds(s)).versions = vs
<1>1. SpecToV1(SpecToKinds(s)) \in V1(k, a, l, p, vs)
  BY DEF SpecToV1, SpecToKinds, V1
<1>2. SpecToV1(SpecToKinds(s)) = s
  BY <1>1, OneSpec
<1> QED
  BY <1>2 DEF V1, SpecToKinds

\* Specs as they are stored, and in memory.
LEMMA Specs ==
    /\ \A s \in DefSpecs \cup Defaulted :
        /\ SetDefaultsSpec(s) \in Defaulted
        /\ SetDefaultsSpec(s).versions = s.versions /\ s.versions \in Versions
    /\ \A s \in Defaulted :
        /\ SetDefaultsSpec(s) = s
        /\ SpecToKinds(s) \in InMemory /\ SpecToV1(SpecToKinds(s)) = s
        /\ SpecToKinds(s).versions = s.versions
    /\ \A s \in InMemory : SpecToV1(s) \in Defaulted /\ SpecToKinds(SpecToV1(s)) = s
       /\ SpecToV1(s).versions = s.versions
<1>1. ASSUME NEW s \in DefSpecs
      PROVE  /\ SetDefaultsSpec(s) \in Defaulted /\ SetDefaultsSpec(s).versions = s.versions
                /\ s.versions \in Versions
             /\ SetDefaultsSpec(SetDefaultsSpec(s)) = SetDefaultsSpec(s)
             /\ SpecToV1(SpecToKinds(SetDefaultsSpec(s))) = SetDefaultsSpec(s)
             /\ SpecToKinds(SetDefaultsSpec(s)).versions = s.versions
  <2>1. PICK k, a, l \in STRING, p \in BOOLEAN, vs \in Versions : s \in V1(k, a, l, p, vs)
    BY SpecParts, RegistryAssumption
  <2> DEFINE a1 == IF a = "" THEN Lower(k) ELSE a
             l1 == IF l = "" /\ k # "" THEN ListOf(k) ELSE l
  <2>2. SetDefaultsSpec(s) \in V1(k, a1, l1, p, vs)
    BY <2>1, DefaultsParts
  <2>a. (IF a1 = "" THEN Lower(k) ELSE a1) = a1 /\ (IF l1 = "" /\ k # "" THEN ListOf(k) ELSE l1) = l1
    OBVIOUS
  <2> HIDE DEF a1, l1
  <2>3. s.versions = vs /\ SetDefaultsSpec(s).versions = vs
    BY <2>1, <2>2 DEF V1
  <2>4. /\ SpecToV1(SpecToKinds(SetDefaultsSpec(s))) = SetDefaultsSpec(s)
        /\ SpecToKinds(SetDefaultsSpec(s)).versions = vs
    BY <2>2, RoundTrip
  <2>5. SetDefaultsSpec(SetDefaultsSpec(s)) = SetDefaultsSpec(s)
    <3>1. SetDefaultsSpec(SetDefaultsSpec(s)) \in V1(k, a1, l1, p, vs)
      BY <2>2, <2>a, DefaultsParts
    <3> QED
      BY <2>2, <3>1, OneSpec
  <2>6. SetDefaultsSpec(s) \in Defaulted /\ vs \in Versions
    BY <2>1 DEF Defaulted
  <2> QED
    BY <2>3, <2>4, <2>5, <2>6
<1>2. ASSUME NEW s \in Defaulted
      PROVE  /\ SetDefaultsSpec(s) = s /\ SpecToV1(SpecToKinds(s)) = s
             /\ SpecToKinds(s).versions = s.versions /\ s.versions \in Versions /\ SpecToKinds(s) \in InMemory
  <2>1. PICK t \in DefSpecs : s = SetDefaultsSpec(t)
    BY DEF Defaulted
  <2> QED
    BY <1>1, <2>1 DEF InMemory
<1>3. ASSUME NEW s \in InMemory
      PROVE  SpecToV1(s) \in Defaulted /\ SpecToKinds(SpecToV1(s)) = s /\ SpecToV1(s).versions = s.versions
  <2>1. PICK t \in Defaulted : s = SpecToKinds(t)
    BY DEF InMemory
  <2> QED
    BY <1>2, <2>1
<1> QED
  BY <1>1, <1>2, <1>3

\* The storage version is the first flagged one: every nonempty set of numbers has a
\* least.
Less == {ss \in Nat \X Nat : ss[1] < ss[2]}

\* The numbers have no infinite descent, as a set of pairs.
LEMMA LessIsWellFounded == IsWellFoundedOn(Less, Nat)
  BY NatLessThanWellFounded, Zenon DEF OpToRel, Less

\* The least one.
LEMMA LeastNumber ==
    ASSUME NEW S \in SUBSET Nat, S # {}
    PROVE  Min(S) \in S
<1>1. PICK x \in S : \A y \in S : ~(<<y, x>> \in Less)
  BY LessIsWellFounded, WFMin
<1>2. \A y \in S : ~(y < x)
  BY <1>1 DEF Less
<1>3. \A y \in S : x <= y
  BY <1>2
<1> QED
  BY <1>3 DEF Min

\* What a sequence holds, at which places.
LEMMA Elements ==
    ASSUME NEW S, NEW s \in Seq(S)
    PROVE  \A i \in DOMAIN s : i \in Nat /\ s[i] \in S
  OBVIOUS

\* The storage version is a version.
LEMMA StorageVersion ==
    ASSUME NEW versions \in Versions
    PROVE  GetGRDStorageVersion(versions) \subseteq Version
<1> DEFINE flagged == {i \in DOMAIN versions : versions[i].storage}
<1>1. flagged \subseteq Nat
  BY Elements DEF Versions
<1>2. \A i \in DOMAIN versions : versions[i].name \in Version
  <2> DEFINE S == [name : Version, served : BOOLEAN, storage : BOOLEAN, subs : Subs \cup {Nil}]
  <2>1. \A r \in S : r.name \in Version
    OBVIOUS
  <2>2. versions \in Seq(S)
    BY DEF Versions
  <2> HIDE DEF S
  <2> QED
    BY <2>1, <2>2, Elements
<1>3. flagged # {} => versions[Min(flagged)].name \in Version
  BY <1>1, <1>2, LeastNumber
<1> QED
  BY <1>3 DEF GetGRDStorageVersion

-----------------------------------------------------------------------------
(***************************************************************************)
(* Definitions.                                                            *)
(***************************************************************************)
Storage(o) == GetGRDStorageVersion(o.spec.versions)
StoredOrDefault(o) == IF o.status.stored = {} THEN Storage(o) ELSE o.status.stored

\* The definition with these parts.
The(r, b, g, m, s, c, st) ==
    [rev : {r}, born : {b}, gen : {g}, meta : {m}, spec : {s}, status : [cond : {c}, stored : {st}]]

\* The parts of that one.
LEMMA TheParts ==
    ASSUME NEW r, NEW b, NEW g, NEW m, NEW s, NEW c, NEW st, NEW o \in The(r, b, g, m, s, c, st)
    PROVE  /\ o.rev = r /\ o.born = b /\ o.gen = g /\ o.meta = m /\ o.spec = s
           /\ o.status.cond = c /\ o.status.stored = st
  BY DEF The

\* It is a definition if its parts are right.
LEMMA TheObject ==
    ASSUME NEW r \in Nat, NEW b \in Nat, NEW g \in Nat, NEW m \in Labels, NEW c \in Values \cup {Nil},
           NEW st \in SUBSET Version, NEW S, NEW s \in S, NEW o \in The(r, b, g, m, s, c, st)
    PROVE  o \in Object(S)
  BY DEF The, Object

\* What decoding and encoding make of a definition.
LEMMA Decoded ==
    ASSUME NEW o \in Object(DefSpecs \cup Defaulted)
    PROVE  /\ Decode(o) \in The(o.rev, o.born, o.gen, o.meta, SpecToKinds(SetDefaultsSpec(o.spec)),
                               o.status.cond, StoredOrDefault(o))
           /\ Decode(o) \in Object(InMemory)
<1>1. Decode(o) \in The(o.rev, o.born, o.gen, o.meta, SpecToKinds(SetDefaultsSpec(o.spec)),
                        o.status.cond, StoredOrDefault(o))
  BY DEF Decode, ToKinds, SetDefaults, Object, StoredOrDefault, Storage, The
<1>2. SpecToKinds(SetDefaultsSpec(o.spec)) \in InMemory /\ Storage(o) \subseteq Version
  BY Specs, StorageVersion DEF Object, Storage
<1>3. StoredOrDefault(o) \in SUBSET Version
  BY <1>2 DEF StoredOrDefault, Object
<1>4. o.rev \in Nat /\ o.born \in Nat /\ o.gen \in Nat /\ o.meta \in Labels /\ o.status.cond \in Values \cup {Nil}
  BY DEF Object
<1> QED
  BY <1>1, <1>2, <1>3, <1>4, TheObject

\* Encoding keeps everything but the form of the spec.
LEMMA Encoded ==
    ASSUME NEW o \in Object(InMemory)
    PROVE  /\ Encode(o) \in The(o.rev, o.born, o.gen, o.meta, SpecToV1(o.spec), o.status.cond, o.status.stored)
           /\ Encode(o) \in Object(Defaulted)
<1>1. Encode(o) \in The(o.rev, o.born, o.gen, o.meta, SpecToV1(o.spec), o.status.cond, o.status.stored)
  BY DEF Encode, ToV1, Object, The
<1>2. SpecToV1(o.spec) \in Defaulted
  BY Specs DEF Object
<1>3. /\ o.rev \in Nat /\ o.born \in Nat /\ o.gen \in Nat /\ o.meta \in Labels /\ o.status.cond \in Values \cup {Nil}
      /\ o.status.stored \in SUBSET Version
  BY DEF Object
<1> QED
  BY <1>1, <1>2, <1>3, TheObject

\* A definition is determined by its parts.
LEMMA OneObject ==
    ASSUME NEW S, NEW T, NEW o \in Object(S), NEW d \in Object(T),
           o.rev = d.rev, o.born = d.born, o.gen = d.gen, o.meta = d.meta, o.spec = d.spec,
           o.status.cond = d.status.cond, o.status.stored = d.status.stored
    PROVE  o = d
<1>1. o.status = [cond |-> o.status.cond, stored |-> o.status.stored]
  BY DEF Object
<1>2. d.status = [cond |-> d.status.cond, stored |-> d.status.stored]
  BY DEF Object
<1>3. o = [rev |-> o.rev, born |-> o.born, gen |-> o.gen, meta |-> o.meta, spec |-> o.spec, status |-> o.status]
  BY DEF Object
<1>4. d = [rev |-> d.rev, born |-> d.born, gen |-> d.gen, meta |-> d.meta, spec |-> d.spec, status |-> d.status]
  BY DEF Object
<1> QED
  BY <1>1, <1>2, <1>3, <1>4

\* What a client reads.
LEMMA ReadBack ==
    ASSUME NEW o \in Object(Defaulted)
    PROVE  /\ Encode(Decode(o)) \in Object(Defaulted)
           /\ Encode(Decode(o)) \in The(o.rev, o.born, o.gen, o.meta, o.spec, o.status.cond, StoredOrDefault(o))
<1>1. o \in Object(DefSpecs \cup Defaulted) /\ o.spec \in Defaulted
  BY DEF Object
<1>2. /\ Decode(o) \in The(o.rev, o.born, o.gen, o.meta, SpecToKinds(o.spec), o.status.cond, StoredOrDefault(o))
      /\ Decode(o) \in Object(InMemory)
  BY <1>1, Decoded, Specs
<1>3. SpecToV1(SpecToKinds(o.spec)) = o.spec
  BY <1>1, Specs
<1> DEFINE d == Decode(o)
<1>4. /\ d.rev = o.rev /\ d.born = o.born /\ d.gen = o.gen /\ d.meta = o.meta /\ d.spec = SpecToKinds(o.spec)
      /\ d.status.cond = o.status.cond /\ d.status.stored = StoredOrDefault(o)
  BY <1>2, TheParts
<1> QED
  BY <1>2, <1>3, <1>4, Encoded

\* What the strategies make of one: n is the object of the request, o the stored one.
LEMMA PreparedForUpdate ==
    ASSUME NEW n \in Object(InMemory), NEW o \in Object(InMemory)
    PROVE  DefPrepareForUpdate(BeforeUpdate(n, o), o) \in
             The(n.rev, o.born, IF n.spec # o.spec THEN o.gen + 1 ELSE o.gen, n.meta, n.spec,
                 o.status.cond, o.status.stored \cup Storage(n))
<1> DEFINE g == IF n.spec # o.spec THEN o.gen + 1 ELSE o.gen
           b == BeforeUpdate(n, o)
<1>1. /\ b \in Object(InMemory) /\ b.rev = n.rev /\ b.born = o.born /\ b.gen = o.gen
      /\ b.meta = n.meta /\ b.spec = n.spec
  BY DEF BeforeUpdate, Object
<1> HIDE DEF b
<1> DEFINE k == [b EXCEPT !.status = o.status, !.gen = IF b.spec # o.spec THEN o.gen + 1 ELSE o.gen]
<1>2. k \in The(n.rev, o.born, g, n.meta, n.spec, o.status.cond, o.status.stored)
  BY <1>1 DEF Object, The
<1>3. DefPrepareForUpdate(b, o) = Stored(k)
  BY DEF DefPrepareForUpdate
<1> HIDE DEF k, g
<1>4. Stored(k) \in The(n.rev, o.born, g, n.meta, n.spec, o.status.cond, o.status.stored \cup Storage(n))
  BY <1>2 DEF The, Stored, Storage
<1> QED
  BY <1>3, <1>4 DEF b, g

\* From the status endpoint: metadata and status of the request, the stored spec.
LEMMA PreparedForStatusUpdate ==
    ASSUME NEW n \in Object(InMemory), NEW o \in Object(InMemory)
    PROVE  DefStatusPrepareForUpdate(BeforeUpdate(n, o), o) \in
             The(n.rev, o.born, o.gen, n.meta, o.spec, n.status.cond, n.status.stored)
  BY DEF BeforeUpdate, DefStatusPrepareForUpdate, Object, The

\* A new one: generation 1, and nothing in the status but the storage version.
LEMMA PreparedForCreate ==
    ASSUME NEW n \in Object(InMemory)
    PROVE  DefPrepareForCreate(n) \in The(n.rev, n.born, 1, n.meta, n.spec, Nil, Storage(n))
<1> DEFINE k == [n EXCEPT !.status = [cond |-> Nil, stored |-> {}], !.gen = 1]
<1>1. k \in The(n.rev, n.born, 1, n.meta, n.spec, Nil, {})
  BY DEF Object, The
<1>2. DefPrepareForCreate(n) = Stored(k)
  BY DEF DefPrepareForCreate
<1> HIDE DEF k
<1>3. Stored(k) \in The(n.rev, n.born, 1, n.meta, n.spec, Nil, {} \cup Storage(n))
  BY <1>1 DEF The, Stored, Storage
<1> QED
  BY <1>2, <1>3

\* A write of a definition, from the wire to the disk.
LEMMA WrittenMain ==
    ASSUME def \in Object(Defaulted), NEW body \in Object(DefSpecs \cup Defaulted)
    PROVE  /\ DefUpdated(body) \in Object(Defaulted)
           /\ DefUpdated(body) \in
                The(body.rev, def.born, IF SetDefaultsSpec(body.spec) # def.spec THEN def.gen + 1 ELSE def.gen,
                    body.meta, SetDefaultsSpec(body.spec), def.status.cond, StoredOrDefault(def) \cup Storage(body))
<1> DEFINE o == Decode(def)
           n == Decode(body)
           s == SetDefaultsSpec(body.spec)
           p == DefPrepareForUpdate(BeforeUpdate(n, o), o)
           g == IF s # def.spec THEN def.gen + 1 ELSE def.gen
<1>1. def \in Object(DefSpecs \cup Defaulted) /\ def.spec \in Defaulted /\ def.gen \in Nat /\ def.gen + 1 \in Nat
        /\ def.born \in Nat
  BY DEF Object
<1>2. s \in Defaulted /\ SpecToKinds(s).versions = body.spec.versions /\ SpecToV1(SpecToKinds(s)) = s
  BY Specs DEF Object
<1>3. /\ o \in Object(InMemory) /\ o.born = def.born /\ o.gen = def.gen /\ o.spec = SpecToKinds(def.spec)
      /\ o.status.cond = def.status.cond /\ o.status.stored = StoredOrDefault(def)
  <2>1. /\ o \in The(def.rev, def.born, def.gen, def.meta, SpecToKinds(SetDefaultsSpec(def.spec)),
                     def.status.cond, StoredOrDefault(def))
        /\ o \in Object(InMemory)
    BY <1>1, Decoded
  <2>2. SetDefaultsSpec(def.spec) = def.spec
    BY <1>1, Specs
  <2> HIDE DEF o
  <2> QED
    BY <2>1, <2>2, TheParts
<1>4. n \in Object(InMemory) /\ n.rev = body.rev /\ n.meta = body.meta /\ n.spec = SpecToKinds(s)
  <2>1. /\ n \in The(body.rev, body.born, body.gen, body.meta, SpecToKinds(s), body.status.cond,
                     StoredOrDefault(body))
        /\ n \in Object(InMemory)
    BY Decoded
  <2> HIDE DEF n, s
  <2> QED
    BY <2>1, TheParts
<1>5. n.spec # o.spec <=> s # def.spec
  BY <1>1, <1>2, <1>3, <1>4, Specs
<1>6. Storage(n) = Storage(body)
  BY <1>2, <1>4 DEF Storage
<1> HIDE DEF o, n, s
<1>7. p \in The(body.rev, def.born, g, body.meta, SpecToKinds(s), def.status.cond,
                StoredOrDefault(def) \cup Storage(body))
  BY <1>3, <1>4, <1>5, <1>6, PreparedForUpdate
<1>8. p \in Object(InMemory)
  <2>1. StoredOrDefault(def) \cup Storage(body) \subseteq Version
    <3>1. Storage(body) \subseteq Version
      BY Specs, StorageVersion DEF Storage, Object
    <3>2. StoredOrDefault(def) \subseteq Version
      BY <1>3 DEF Object
    <3> QED
      BY <3>1, <3>2
  <2>2. SpecToKinds(s) \in InMemory /\ body.rev \in Nat /\ body.meta \in Labels
          /\ def.status.cond \in Values \cup {Nil}
    BY <1>2, Specs DEF Object
  <2>3. g \in Nat
    BY <1>1
  <2> HIDE DEF p, g
  <2> QED
    BY <1>1, <1>7, <2>1, <2>2, <2>3, TheObject
<1> HIDE DEF p, g
<1>9. Encode(p) \in Object(Defaulted)
  BY <1>8, Encoded
<1>10. Encode(p) \in The(body.rev, def.born, g, body.meta, s, def.status.cond,
                         StoredOrDefault(def) \cup Storage(body))
  BY <1>2, <1>7, <1>8, Encoded, TheParts
<1>11. DefUpdated(body) = Encode(p)
  BY DEF DefUpdated, p, o, n
<1> QED
  BY <1>9, <1>10, <1>11 DEF g, s

\* The same for the status endpoint.
LEMMA WrittenStatus ==
    ASSUME def \in Object(Defaulted), NEW body \in Object(DefSpecs \cup Defaulted)
    PROVE  /\ DefStatusUpdated(body) \in Object(Defaulted)
           /\ DefStatusUpdated(body) \in
                The(body.rev, def.born, def.gen, body.meta, def.spec, body.status.cond, StoredOrDefault(body))
<1> DEFINE o == Decode(def)
           n == Decode(body)
           p == DefStatusPrepareForUpdate(BeforeUpdate(n, o), o)
<1>1. /\ def \in Object(DefSpecs \cup Defaulted) /\ def.spec \in Defaulted /\ def.gen \in Nat /\ def.born \in Nat
      /\ body.rev \in Nat /\ body.meta \in Labels /\ body.status.cond \in Values \cup {Nil}
  BY DEF Object
<1>2. SpecToKinds(def.spec) \in InMemory /\ SpecToV1(SpecToKinds(def.spec)) = def.spec
  BY <1>1, Specs
<1>3. o \in Object(InMemory) /\ o.born = def.born /\ o.gen = def.gen /\ o.spec = SpecToKinds(def.spec)
  <2>1. /\ o \in The(def.rev, def.born, def.gen, def.meta, SpecToKinds(SetDefaultsSpec(def.spec)),
                     def.status.cond, StoredOrDefault(def))
        /\ o \in Object(InMemory)
    BY <1>1, Decoded
  <2>2. SetDefaultsSpec(def.spec) = def.spec
    BY <1>1, Specs
  <2> HIDE DEF o
  <2> QED
    BY <2>1, <2>2, TheParts
<1>4. /\ n \in Object(InMemory) /\ n.rev = body.rev /\ n.meta = body.meta
      /\ n.status.cond = body.status.cond /\ n.status.stored = StoredOrDefault(body)
  <2>1. /\ n \in The(body.rev, body.born, body.gen, body.meta, SpecToKinds(SetDefaultsSpec(body.spec)),
                     body.status.cond, StoredOrDefault(body))
        /\ n \in Object(InMemory)
    BY Decoded
  <2> HIDE DEF n
  <2> QED
    BY <2>1, TheParts
<1>5. StoredOrDefault(body) \in SUBSET Version
  BY <1>4 DEF Object
<1> HIDE DEF o, n
<1>6. p \in The(body.rev, def.born, def.gen, body.meta, SpecToKinds(def.spec), body.status.cond,
                StoredOrDefault(body))
  BY <1>3, <1>4, PreparedForStatusUpdate
<1>7. DefStatusUpdated(body) = Encode(p)
  BY DEF DefStatusUpdated, p, o, n
<1> HIDE DEF p
<1>8. p \in Object(InMemory)
  BY <1>1, <1>2, <1>5, <1>6, TheObject
<1>9. Encode(p) \in The(body.rev, def.born, def.gen, body.meta, def.spec, body.status.cond, StoredOrDefault(body))
  BY <1>2, <1>6, <1>8, Encoded, TheParts
<1> QED
  BY <1>7, <1>8, <1>9, Encoded

\* The same for a creation.
LEMMA WrittenFirst ==
    ASSUME NEW body \in Object(DefSpecs)
    PROVE  /\ Encode(DefPrepareForCreate(Decode(body))) \in Object(Defaulted)
           /\ Encode(DefPrepareForCreate(Decode(body))) \in
                The(body.rev, body.born, 1, body.meta, SetDefaultsSpec(body.spec), Nil, Storage(body))
<1> DEFINE n == Decode(body)
           s == SetDefaultsSpec(body.spec)
           p == DefPrepareForCreate(n)
<1>1. /\ body \in Object(DefSpecs \cup Defaulted) /\ body.spec \in DefSpecs \cup Defaulted
      /\ body.rev \in Nat /\ body.born \in Nat /\ body.meta \in Labels /\ 1 \in Nat
  BY DEF Object
<1>2. /\ s \in Defaulted /\ s.versions = body.spec.versions /\ body.spec.versions \in Versions
      /\ SpecToKinds(s) \in InMemory /\ SpecToKinds(s).versions = s.versions /\ SpecToV1(SpecToKinds(s)) = s
  BY <1>1, Specs
<1>3. /\ n \in The(body.rev, body.born, body.gen, body.meta, SpecToKinds(s), body.status.cond, StoredOrDefault(body))
      /\ n \in Object(InMemory)
  BY <1>1, Decoded
<1> HIDE DEF n, s
<1>4. n.rev = body.rev /\ n.born = body.born /\ n.meta = body.meta /\ n.spec = SpecToKinds(s)
  BY <1>3, TheParts
<1>5. Storage(n) = Storage(body) /\ Storage(body) \in SUBSET Version
  BY <1>2, <1>4, StorageVersion DEF Storage
<1>6. p \in The(body.rev, body.born, 1, body.meta, SpecToKinds(s), Nil, Storage(body))
  BY <1>3, <1>4, <1>5, PreparedForCreate
<1> HIDE DEF p
<1>7. p \in Object(InMemory)
  BY <1>1, <1>2, <1>5, <1>6, TheObject
<1>8. Encode(p) \in The(body.rev, body.born, 1, body.meta, s, Nil, Storage(body))
  BY <1>2, <1>6, <1>7, Encoded, TheParts
<1> QED
  BY <1>7, <1>8, Encoded DEF p, n, s

-----------------------------------------------------------------------------
(***************************************************************************)
(* The inductive invariant of the definition.                              *)
(***************************************************************************)
StoredOK ==
    /\ rev \in 0 .. MaxRev /\ def \in Definitions \cup {Nil} /\ dcopy \in [Client -> Definitions \cup {Nil}]
    /\ def = Nil => wasStorage = {}
    /\ def # Nil => /\ def.rev <= rev /\ def.gen <= rev
                    /\ wasStorage \subseteq def.status.stored

\* A copy is of this generation, and then of this spec, or of an earlier one.
Earlier(d) == def # Nil /\ d.gen <= def.gen /\ (d.gen = def.gen => d.spec = def.spec)

CopiesOK == \A c \in Client : dcopy[c] # Nil => Earlier(dcopy[c])

DInv == StoredOK /\ CopiesOK

\* Definitions are objects as they are stored, within the bound.
LEMMA DefinitionObject ==
    \A d : d \in Definitions <=> d \in Object(Defaulted) /\ {d.rev, d.born, d.gen} \subseteq 1 .. MaxRev
<1>1. 1 .. MaxRev \subseteq Nat
  BY RegistryAssumption
<1>2. ASSUME NEW d \in Definitions PROVE d \in Object(Defaulted) /\ {d.rev, d.born, d.gen} \subseteq 1 .. MaxRev
  BY <1>1 DEF Definitions, Object, Defaulted
<1>3. ASSUME NEW d \in Object(Defaulted), {d.rev, d.born, d.gen} \subseteq 1 .. MaxRev PROVE d \in Definitions
  BY <1>3 DEF Definitions, Object, Defaulted
<1> QED
  BY <1>2, <1>3

\* Nil is no object.
LEMMA NilIsNone == Nil \notin Definitions /\ Nil \notin Instances
  BY RegistryAssumption

\* Numbers up to the bound, and the ones after.
LEMMA Bounds ==
    /\ \A n \in 1 .. MaxRev : n \in Nat /\ n <= n
    /\ \A n \in 0 .. MaxRev : n \in Nat
    /\ \A n \in 0 .. MaxRev : n < MaxRev => n + 1 \in 1 .. MaxRev /\ n + 1 \in 0 .. MaxRev
    /\ \A m, n \in Nat : m <= n => m <= n + 1 /\ m # n + 1 /\ m + 1 <= n + 1
    /\ \A k, m, n \in Nat : k <= m /\ m <= n => k <= n
    /\ \A m \in 1 .. MaxRev, n \in 0 .. MaxRev : m <= n /\ n < MaxRev => m + 1 \in 1 .. MaxRev
<1>1. MaxRev \in Nat
  BY RegistryAssumption
<1> QED
  BY <1>1

\* Writing an object that keeps to the revision read.
LEMMA WriteDefInv ==
    ASSUME DInv, def # Nil, NEW c \in Client, NEW new \in Object(Defaulted), WriteDef(new), dcopy' = Forget(dcopy, c),
           new.rev = def.rev, new.born = def.born,
           new.gen = IF new.spec # def.spec THEN def.gen + 1 ELSE def.gen,
           wasStorage' \subseteq new.status.stored
    PROVE  DInv'
<1> USE DEF DInv
<1>1. def \in Definitions /\ def.rev \in 1 .. MaxRev /\ def.gen \in 1 .. MaxRev /\ def.born \in 1 .. MaxRev
        /\ rev \in 0 .. MaxRev
  BY DefinitionObject DEF StoredOK
<1>2. dcopy' \in [Client -> Definitions \cup {Nil}] /\ \A x \in Client : dcopy'[x] # Nil => dcopy'[x] = dcopy[x]
  BY DEF StoredOK, Forget
<1>4. CASE new = def
  <2>1. rev' = rev /\ def' = def
    BY <1>4 DEF WriteDef
  <2>3. StoredOK'
    BY <1>2, <1>4, <2>1 DEF StoredOK
  <2>4. CopiesOK'
    BY <1>2, <2>1 DEF CopiesOK, Earlier
  <2> QED
    BY <2>3, <2>4
<1>5. CASE new # def
  <2>1. rev < MaxRev /\ rev' = rev + 1 /\ def' = [new EXCEPT !.rev = rev + 1]
    BY <1>5 DEF WriteDef
  <2>2. rev + 1 \in 1 .. MaxRev /\ rev + 1 \in 0 .. MaxRev /\ rev + 1 \in Nat
    BY <1>1, <2>1, Bounds, Zenon
  <2>3. /\ def' \in Object(Defaulted) /\ def'.rev = rev + 1 /\ def'.born = new.born /\ def'.gen = new.gen
        /\ def'.spec = new.spec /\ def'.status = new.status
    BY <2>1, <2>2 DEF Object
  <2>4. def.gen <= rev /\ def.gen \in Nat /\ rev \in Nat /\ def.gen <= def.gen
    BY <1>1, Bounds DEF StoredOK
  <2>5. new.gen \in 1 .. MaxRev /\ new.gen <= rev + 1 /\ def.gen <= new.gen
    <3>1. def.gen + 1 \in 1 .. MaxRev /\ def.gen + 1 <= rev + 1 /\ def.gen <= def.gen + 1 /\ def.gen <= rev + 1
      BY <1>1, <2>1, <2>4, Bounds, Zenon
    <3>2. new.gen = def.gen + 1 \/ new.gen = def.gen
      OBVIOUS
    <3> QED
      BY <1>1, <2>4, <3>1, <3>2, Zenon
  <2>6. def' \in Definitions
    BY <1>1, <2>2, <2>3, <2>5, DefinitionObject
  <2>7. rev + 1 <= rev + 1
    BY <2>2, Bounds, Zenon
  <2>8. StoredOK'
    BY <1>2, <2>1, <2>2, <2>3, <2>5, <2>6, <2>7, NilIsNone DEF StoredOK
  <2>9. ASSUME NEW x \in Client, dcopy'[x] # Nil PROVE Earlier(dcopy[x])'
    <3> DEFINE d == dcopy[x]
    <3>1. dcopy'[x] = d /\ d # Nil /\ d \in Definitions
      BY <1>2, <2>9 DEF StoredOK
    <3>2. d.gen <= def.gen /\ (d.gen = def.gen => d.spec = def.spec)
      BY <3>1 DEF CopiesOK, Earlier
    <3>3. d.gen \in Nat /\ new.gen \in Nat
      BY <1>1, <2>5, <3>1, Bounds, DefinitionObject
    <3>5. d.gen <= new.gen
      BY <2>4, <2>5, <3>2, <3>3, Bounds, Zenon
    <3>6. d.gen = new.gen => d.spec = new.spec
      <4>1. CASE new.spec = def.spec
        BY <3>2, <4>1
      <4>2. CASE new.spec # def.spec
        BY <2>4, <3>2, <3>3, <4>2, Bounds, Zenon
      <4> QED
        BY <4>1, <4>2
    <3> QED
      BY <2>3, <2>6, <3>1, <3>5, <3>6, NilIsNone DEF Earlier
  <2> QED
    BY <2>8, <2>9 DEF CopiesOK
<1> QED
  BY <1>4, <1>5

\* What a client writes back.
LEMMA Bodies ==
    ASSUME NEW d \in Definitions, NEW body \in DefBodies(d)
    PROVE  /\ body \in Object(DefSpecs \cup Defaulted)
           /\ body.rev = d.rev
<1>1. d \in Object(Defaulted)
  BY DefinitionObject
<1>2. PICK s \in DefSpecs \cup {d.spec}, m \in Labels, v \in Values \cup {d.status.cond}, l \in SUBSET Version :
        body = DefBody(d, s, m, v, l)
  BY DEF DefBodies
<1>3. s \in DefSpecs \cup Defaulted /\ v \in Values \cup {Nil}
  BY <1>1 DEF Object
<1> QED
  BY <1>1, <1>2, <1>3 DEF Object, DefBody

\* Without a current revision nothing is written.
LEMMA Refused ==
    ASSUME DInv, NEW c \in Client, dcopy' = Forget(dcopy, c), UNCHANGED <<rev, def, wasStorage>>
    PROVE  DInv'
<1>1. dcopy' \in [Client -> Definitions \cup {Nil}] /\ \A x \in Client : dcopy'[x] # Nil => dcopy'[x] = dcopy[x]
  BY DEF DInv, StoredOK, Forget
<1>2. StoredOK'
  BY <1>1 DEF DInv, StoredOK, Storage
<1>3. CopiesOK'
  BY <1>1 DEF DInv, CopiesOK, Earlier
<1> QED
  BY <1>2, <1>3 DEF DInv

\* What an update with a current revision makes of the definition.
LEMMA MainRequest ==
    ASSUME DInv, NEW c \in Client, dcopy[c] # Nil, NEW body \in DefBodies(dcopy[c]),
           Conditional(dcopy[c], def)
    PROVE  LET new == DefUpdated(body) IN
           /\ def # Nil /\ new \in Object(Defaulted) /\ new.rev = def.rev /\ new.born = def.born
           /\ new.gen = (IF new.spec # def.spec THEN def.gen + 1 ELSE def.gen)
           /\ new.status.cond = def.status.cond
           /\ wasStorage \cup Storage(new) \subseteq new.status.stored
<1> DEFINE new == DefUpdated(body)
<1>1. dcopy[c] \in Definitions /\ def # Nil /\ body.rev = def.rev
  BY Bodies DEF DInv, StoredOK, CopiesOK, Earlier, Conditional
<1>2. body \in Object(DefSpecs \cup Defaulted) /\ def \in Object(Defaulted)
  BY <1>1, Bodies, DefinitionObject DEF DInv, StoredOK
<1>3. /\ new \in Object(Defaulted)
      /\ new \in The(body.rev, def.born, IF SetDefaultsSpec(body.spec) # def.spec THEN def.gen + 1 ELSE def.gen,
                     body.meta, SetDefaultsSpec(body.spec), def.status.cond, StoredOrDefault(def) \cup Storage(body))
  BY <1>2, WrittenMain
<1> HIDE DEF new
<1>4. /\ new.rev = def.rev /\ new.born = def.born /\ new.spec = SetDefaultsSpec(body.spec)
      /\ new.gen = (IF SetDefaultsSpec(body.spec) # def.spec THEN def.gen + 1 ELSE def.gen)
      /\ new.status.cond = def.status.cond /\ new.status.stored = StoredOrDefault(def) \cup Storage(body)
  BY <1>1, <1>3, TheParts
<1>5. Storage(new) = Storage(body)
  BY <1>2, <1>4, Specs DEF Storage, Object
<1>6. wasStorage \subseteq StoredOrDefault(def)
  BY <1>1 DEF DInv, StoredOK, StoredOrDefault
<1> QED
  BY <1>1, <1>3, <1>4, <1>5, <1>6 DEF new

\* The same for the status: the list of stored versions is that of the request.
LEMMA StatusRequest ==
    ASSUME DInv, NEW c \in Client, dcopy[c] # Nil, NEW body \in DefBodies(dcopy[c]),
           Conditional(dcopy[c], def)
    PROVE  LET new == DefStatusUpdated(body) IN
           /\ def # Nil /\ new \in Object(Defaulted) /\ new.rev = def.rev /\ new.born = def.born
           /\ new.gen = def.gen /\ new.spec = def.spec
           /\ new.status.stored = Decode(body).status.stored
<1> DEFINE new == DefStatusUpdated(body)
<1>1. dcopy[c] \in Definitions /\ def # Nil /\ body.rev = def.rev
  BY Bodies DEF DInv, StoredOK, Conditional
<1>2. body \in Object(DefSpecs \cup Defaulted) /\ def \in Object(Defaulted)
  BY <1>1, Bodies, DefinitionObject DEF DInv, StoredOK
<1>3. /\ new \in Object(Defaulted)
      /\ new \in The(body.rev, def.born, def.gen, body.meta, def.spec, body.status.cond, StoredOrDefault(body))
  BY <1>2, WrittenStatus
<1> HIDE DEF new
<1>4. /\ new.rev = def.rev /\ new.born = def.born /\ new.gen = def.gen /\ new.spec = def.spec
      /\ new.status.stored = StoredOrDefault(body)
  BY <1>1, <1>3, TheParts
<1> DEFINE d == Decode(body)
<1>6. d \in The(body.rev, body.born, body.gen, body.meta, SpecToKinds(SetDefaultsSpec(body.spec)),
               body.status.cond, StoredOrDefault(body))
  BY <1>2, Decoded
<1> HIDE DEF d
<1>5. d.status.stored = StoredOrDefault(body)
  BY <1>6, TheParts
<1> QED
  BY <1>1, <1>3, <1>4, <1>5 DEF new, d

\* Of a definition, the conditions change alone.
DefSeparate ==
    def # Nil /\ def'.status.cond # def.status.cond => def'.spec = def.spec /\ def'.gen = def.gen

\* The first definition: nobody has a copy of it.
LEMMA FirstDef ==
    ASSUME DInv, CreateDef
    PROVE  DInv'
<1>1. def = Nil /\ rev < MaxRev /\ rev' = rev + 1 /\ dcopy' = dcopy /\ wasStorage' = Storage(def')
  BY DEF CreateDef, Storage
<1>2. rev \in 0 .. MaxRev /\ rev + 1 \in 1 .. MaxRev /\ rev + 1 \in 0 .. MaxRev /\ rev + 1 \in Nat /\ rev \in Nat
  BY <1>1, Bounds, Zenon DEF DInv, StoredOK
<1>3. PICK s \in DefSpecs, m \in Labels, v \in Values :
        def' = Encode(DefPrepareForCreate(Decode(
                 [rev |-> rev + 1, born |-> rev + 1, gen |-> 1, meta |-> m, spec |-> s,
                  status |-> [cond |-> v, stored |-> {}]])))
  BY DEF CreateDef
<1> DEFINE body == [rev |-> rev + 1, born |-> rev + 1, gen |-> 1, meta |-> m, spec |-> s,
                    status |-> [cond |-> v, stored |-> {}]]
<1>4. body \in Object(DefSpecs) /\ body.rev = rev + 1 /\ body.born = rev + 1 /\ body.spec = s
  BY <1>2 DEF Object
<1>5. def' = Encode(DefPrepareForCreate(Decode(body)))
  BY <1>3
<1> HIDE DEF body
<1>6. /\ def' \in Object(Defaulted)
      /\ def' \in The(rev + 1, rev + 1, 1, body.meta, SetDefaultsSpec(s), Nil, Storage(body))
  BY <1>4, <1>5, WrittenFirst
<1>7. /\ def'.rev = rev + 1 /\ def'.born = rev + 1 /\ def'.gen = 1 /\ def'.spec = SetDefaultsSpec(s)
      /\ def'.status.stored = Storage(body)
  BY <1>6, TheParts
<1>8. Storage(body) = Storage(def')
  BY <1>4, <1>7, Specs DEF Storage
<1>9. 1 \in 1 .. MaxRev /\ 1 <= rev + 1 /\ rev + 1 <= rev + 1
  BY <1>2, RegistryAssumption
<1>10. def' \in Definitions
  BY <1>2, <1>6, <1>7, <1>9, DefinitionObject
<1>11. StoredOK'
  BY <1>1, <1>2, <1>7, <1>8, <1>9, <1>10, NilIsNone DEF DInv, StoredOK, Storage
<1>12. CopiesOK'
  BY <1>1 DEF DInv, CopiesOK, Earlier
<1> QED
  BY <1>11, <1>12 DEF DInv

\* A write of a request: of the strategy of the main endpoint, the conditions are the
\* stored ones, and of that of the status endpoint the spec and the generation.
LEMMA DefWrites ==
    ASSUME DInv, NEW c \in Client, UpdateDef(c) \/ UpdateDefStatus(c)
    PROVE  DInv' /\ DefSeparate
<1>1. dcopy[c] # Nil /\ dcopy' = Forget(dcopy, c)
  BY DEF UpdateDef, UpdateDefStatus
<1>2. ASSUME NEW new, WriteDef(new), def # Nil, new \in Object(Defaulted),
             new.status.cond = def.status.cond \/ (new.spec = def.spec /\ new.gen = def.gen)
      PROVE  DefSeparate
  <2>1. CASE new = def
    BY <1>2, <2>1 DEF WriteDef, DefSeparate
  <2>2. CASE new # def
    <3>1. def' = [new EXCEPT !.rev = rev + 1]
      BY <1>2, <2>2 DEF WriteDef
    <3>2. def'.status = new.status /\ def'.spec = new.spec /\ def'.gen = new.gen
      BY <1>2, <3>1 DEF Object
    <3> QED
      BY <1>2, <3>2 DEF DefSeparate
  <2> QED
    BY <2>1, <2>2
<1>3. ASSUME UNCHANGED <<rev, def, wasStorage>>
      PROVE  DInv' /\ DefSeparate
  BY <1>1, <1>3, Refused DEF DefSeparate
<1>4. CASE UpdateDef(c)
  <2>1. CASE ~Conditional(dcopy[c], def)
    BY <1>3, <1>4, <2>1 DEF UpdateDef
  <2>2. CASE Conditional(dcopy[c], def)
    <3>1. PICK body \in DefBodies(dcopy[c]) :
            WriteDef(DefUpdated(body)) /\ wasStorage' = wasStorage \cup Storage(DefUpdated(body))
      BY <1>4, <2>2 DEF UpdateDef, Storage
    <3> DEFINE new == DefUpdated(body)
    <3>2. WriteDef(new) /\ wasStorage' = wasStorage \cup Storage(new)
      BY <3>1
    <3>3. /\ def # Nil /\ new \in Object(Defaulted) /\ new.rev = def.rev /\ new.born = def.born
          /\ new.gen = (IF new.spec # def.spec THEN def.gen + 1 ELSE def.gen)
          /\ new.status.cond = def.status.cond
          /\ wasStorage \cup Storage(new) \subseteq new.status.stored
      BY <1>1, <2>2, MainRequest
    <3> HIDE DEF new
    <3> QED
      BY <1>1, <1>2, <3>2, <3>3, WriteDefInv
  <2> QED
    BY <2>1, <2>2
<1>5. CASE UpdateDefStatus(c)
  <2>1. CASE ~Conditional(dcopy[c], def)
    BY <1>3, <1>5, <2>1 DEF UpdateDefStatus
  <2>2. CASE Conditional(dcopy[c], def)
    <3>1. PICK body \in DefBodies(dcopy[c]) :
            WriteDef(DefStatusUpdated(body)) /\ wasStorage' = wasStorage \cap Decode(body).status.stored
      BY <1>5, <2>2 DEF UpdateDefStatus
    <3> DEFINE new == DefStatusUpdated(body)
    <3>2. WriteDef(new) /\ wasStorage' = wasStorage \cap Decode(body).status.stored
      BY <3>1
    <3>3. /\ def # Nil /\ new \in Object(Defaulted) /\ new.rev = def.rev /\ new.born = def.born
          /\ new.gen = def.gen /\ new.spec = def.spec
          /\ new.status.stored = Decode(body).status.stored
      BY <1>1, <2>2, StatusRequest
    <3> HIDE DEF new
    <3>4. /\ new.gen = (IF new.spec # def.spec THEN def.gen + 1 ELSE def.gen)
          /\ wasStorage' \subseteq new.status.stored
      BY <3>2, <3>3
    <3> QED
      BY <1>1, <1>2, <3>2, <3>3, <3>4, WriteDefInv
  <2> QED
    BY <2>1, <2>2
<1> QED
  BY <1>4, <1>5

\* A read: the copy is the definition, but for a list of stored versions that is empty.
LEMMA DefReads ==
    ASSUME DInv, NEW c \in Client, GetDef(c)
    PROVE  DInv' /\ DefSeparate
<1> DEFINE e == Encode(Decode(def))
<1>1. def # Nil /\ dcopy' = [dcopy EXCEPT ![c] = e] /\ UNCHANGED <<rev, def, wasStorage>>
  BY DEF GetDef
<1>2. def \in Definitions /\ def \in Object(Defaulted)
  BY <1>1, DefinitionObject DEF DInv, StoredOK
<1>3. /\ e \in Object(Defaulted)
      /\ e \in The(def.rev, def.born, def.gen, def.meta, def.spec, def.status.cond, StoredOrDefault(def))
  BY <1>2, ReadBack
<1> HIDE DEF e
<1>4. e.rev = def.rev /\ e.born = def.born /\ e.gen = def.gen /\ e.spec = def.spec
  BY <1>3, TheParts
<1>5. e \in Definitions
  BY <1>2, <1>3, <1>4, DefinitionObject
<1>6. dcopy' \in [Client -> Definitions \cup {Nil}] /\ \A x \in Client : dcopy'[x] # Nil
        => dcopy'[x] \in {e, dcopy[x]}
  BY <1>1, <1>5 DEF DInv, StoredOK
<1>7. StoredOK'
  BY <1>1, <1>6 DEF DInv, StoredOK
<1>8. def.gen <= def.gen
  BY <1>2, Bounds, DefinitionObject
<1>9. CopiesOK'
  BY <1>1, <1>4, <1>6, <1>8 DEF DInv, CopiesOK, Earlier
<1> QED
  BY <1>1, <1>7, <1>9 DEF DInv, DefSeparate

\* A request for the instance leaves the definition alone; the store may count on.
LEMMA DefKept ==
    ASSUME DInv, UNCHANGED <<def, dcopy, wasStorage>>, rev' = rev \/ (rev < MaxRev /\ rev' = rev + 1)
    PROVE  DInv' /\ DefSeparate
<1>1. rev' \in 0 .. MaxRev /\ (def # Nil => def.rev <= rev' /\ def.gen <= rev')
  <2>1. CASE rev' = rev
    BY <2>1 DEF DInv, StoredOK
  <2>2. CASE rev < MaxRev /\ rev' = rev + 1
    <3>1. rev \in 0 .. MaxRev /\ rev \in Nat /\ (def # Nil => def.rev \in Nat /\ def.gen \in Nat)
      BY Bounds, DefinitionObject DEF DInv, StoredOK
    <3> QED
      BY <2>2, <3>1, Bounds, Zenon DEF DInv, StoredOK
  <2> QED
    BY <2>1, <2>2
<1>2. StoredOK'
  BY <1>1 DEF DInv, StoredOK, Storage
<1>3. CopiesOK'
  BY DEF DInv, CopiesOK, Earlier
<1> QED
  BY <1>2, <1>3 DEF DInv, DefSeparate

-----------------------------------------------------------------------------
(***************************************************************************)
(* The inductive invariant of the instance.                                *)
(***************************************************************************)
\* An instance on its way.
InstObject ==
    [rev : Nat, born : Nat, gen : Nat, meta : Labels, version : Version, content : Values, status : Values \cup {Nil}]

SameContent(x, y) == x.content = y.content /\ x.version = y.version

\* A copy of an instance that is deleted says nothing of the one that is there now.
EarlierInst(x) ==
    /\ x.born <= rev
    /\ inst # Nil /\ x.born = inst.born => x.gen <= inst.gen /\ (x.gen = inst.gen => SameContent(x, inst))

InstInv ==
    /\ inst \in Instances \cup {Nil} /\ icopy \in [Client -> Instances \cup {Nil}]
    /\ inst # Nil => inst.gen <= rev /\ inst.born <= rev
    /\ \A c \in Client : icopy[c] # Nil => EarlierInst(icopy[c])

\* Of an instance, the status changes alone.
InstSeparate ==
    inst # Nil /\ inst' # Nil /\ inst'.status # inst.status =>
        inst' = [inst EXCEPT !.status = inst'.status, !.rev = inst'.rev]

\* Stored instances are within the bound.
LEMMA InstanceObject ==
    \A x : x \in Instances <=> x \in InstObject /\ {x.rev, x.born, x.gen} \subseteq 1 .. MaxRev
<1>1. 1 .. MaxRev \subseteq Nat
  BY RegistryAssumption
<1>2. ASSUME NEW x \in Instances PROVE x \in InstObject /\ {x.rev, x.born, x.gen} \subseteq 1 .. MaxRev
  BY <1>1 DEF Instances, InstObject
<1>3. ASSUME NEW x \in InstObject, {x.rev, x.born, x.gen} \subseteq 1 .. MaxRev PROVE x \in Instances
  BY <1>3 DEF Instances, InstObject
<1> QED
  BY <1>2, <1>3

\* What the strategy of the main endpoint makes of a body: the stored status, and the
\* next generation if content or version change.
LEMMA UpdatedInst ==
    ASSUME NEW o \in InstObject, NEW body \in InstObject
    PROVE  LET new == InstPrepareForUpdate(BeforeUpdate(body, o), o) IN
           /\ new \in InstObject /\ new.rev = body.rev /\ new.born = o.born /\ new.status = o.status
           /\ new.gen = IF SameContent(new, o) THEN o.gen ELSE o.gen + 1
<1> DEFINE b == BeforeUpdate(body, o)
<1>1. b \in InstObject /\ b.rev = body.rev /\ b.born = o.born /\ b.gen = o.gen
  BY DEF BeforeUpdate, InstObject
<1> HIDE DEF b
<1> DEFINE k == [b EXCEPT !.status = o.status]
<1>2. k \in InstObject /\ k.rev = b.rev /\ k.born = b.born /\ k.gen = b.gen /\ k.status = o.status
  BY <1>1 DEF InstObject
<1>3. InstPrepareForUpdate(b, o) =
        [k EXCEPT !.gen = IF copyNonMetadata(k) # copyNonMetadata(o) THEN o.gen + 1 ELSE o.gen]
  BY DEF InstPrepareForUpdate
<1> HIDE DEF k
<1>4. copyNonMetadata(k) = copyNonMetadata(o) <=> SameContent(k, o)
  BY <1>2 DEF copyNonMetadata, SameContent
<1> DEFINE g == IF SameContent(k, o) THEN o.gen ELSE o.gen + 1
           new == [k EXCEPT !.gen = g]
<1>5. InstPrepareForUpdate(b, o) = new
  BY <1>3, <1>4
<1>6. g \in Nat
  BY DEF InstObject
<1> HIDE DEF g
<1>7. /\ new \in InstObject /\ new.rev = k.rev /\ new.born = k.born /\ new.status = k.status /\ new.gen = g
      /\ new.content = k.content /\ new.version = k.version
  BY <1>2, <1>6 DEF InstObject
<1> HIDE DEF new
<1> QED
  BY <1>1, <1>2, <1>5, <1>7 DEF b, g, SameContent

\* Of the status endpoint: nothing but the status.
LEMMA StatusUpdatedInst ==
    ASSUME NEW o \in InstObject, NEW body \in InstObject
    PROVE  LET new == InstStatusPrepareForUpdate(BeforeUpdate(body, o), o) IN
           /\ new = [o EXCEPT !.status = body.status]
           /\ new \in InstObject /\ new.rev = o.rev /\ new.born = o.born /\ new.gen = o.gen /\ SameContent(new, o)
<1>1. InstStatusPrepareForUpdate(BeforeUpdate(body, o), o) = [o EXCEPT !.status = body.status]
  BY DEF BeforeUpdate, InstStatusPrepareForUpdate, InstObject
<1> QED
  BY <1>1 DEF InstObject, SameContent

\* Writing what keeps to the generation.
LEMMA WriteInstInv ==
    ASSUME InstInv, rev \in 0 .. MaxRev, inst # Nil, NEW c \in Client, NEW new \in InstObject, WriteInst(new),
           icopy' = Forget(icopy, c),
           new.born = inst.born, new.rev = inst.rev,
           new.gen = IF SameContent(new, inst) THEN inst.gen ELSE inst.gen + 1,
           new.status = inst.status \/ new = [inst EXCEPT !.status = new.status]
    PROVE  InstInv' /\ InstSeparate
<1>1. /\ inst \in Instances /\ inst \in InstObject
      /\ inst.rev \in 1 .. MaxRev /\ inst.gen \in 1 .. MaxRev /\ inst.born \in 1 .. MaxRev
  BY InstanceObject DEF InstInv
<1>2. icopy' \in [Client -> Instances \cup {Nil}] /\ \A x \in Client : icopy'[x] # Nil => icopy'[x] = icopy[x]
  BY DEF InstInv, Forget
<1>3. CASE new = inst
  <2>1. rev' = rev /\ inst' = inst
    BY <1>3 DEF WriteInst
  <2> QED
    BY <1>2, <2>1 DEF InstInv, InstSeparate, EarlierInst
<1>4. CASE new # inst
  <2>1. rev < MaxRev /\ rev' = rev + 1 /\ inst' = [new EXCEPT !.rev = rev + 1]
    BY <1>4 DEF WriteInst
  <2>2. rev + 1 \in 1 .. MaxRev /\ rev + 1 \in Nat /\ rev \in Nat
    BY <2>1, Bounds, Zenon
  <2>3. /\ inst' \in InstObject /\ inst'.rev = rev + 1 /\ inst'.born = new.born /\ inst'.gen = new.gen
        /\ inst'.status = new.status /\ SameContent(inst', new)
    BY <2>1, <2>2 DEF InstObject, SameContent
  <2>4. inst.gen \in Nat /\ inst.gen <= rev /\ inst.gen <= inst.gen /\ inst.born <= rev /\ inst.born \in Nat
    BY <1>1, Bounds DEF InstInv
  <2>5. new.gen \in 1 .. MaxRev /\ new.gen <= rev + 1 /\ inst.gen <= new.gen /\ inst.born <= rev + 1
    <3>1. /\ inst.gen + 1 \in 1 .. MaxRev /\ inst.gen + 1 <= rev + 1 /\ inst.gen <= inst.gen + 1
             /\ inst.gen <= rev + 1
          /\ inst.born <= rev + 1
      BY <1>1, <2>1, <2>2, <2>4, Bounds, Zenon
    <3>2. new.gen = inst.gen + 1 \/ new.gen = inst.gen
      OBVIOUS
    <3> QED
      BY <1>1, <2>4, <3>1, <3>2, Zenon
  <2>6. inst' \in Instances
    BY <1>1, <2>2, <2>3, <2>5, InstanceObject
  <2>7. ASSUME NEW x \in Client, icopy'[x] # Nil PROVE EarlierInst(icopy[x])'
    <3> DEFINE d == icopy[x]
    <3>1. icopy'[x] = d /\ d # Nil /\ d \in Instances /\ EarlierInst(d)
      BY <1>2, <2>7 DEF InstInv
    <3>2. d.born \in Nat /\ d.gen \in Nat /\ new.gen \in Nat
      BY <2>5, <3>1, Bounds, InstanceObject
    <3>3. d.born <= rev + 1
      BY <2>2, <3>1, <3>2, Bounds, Zenon DEF EarlierInst
    <3> HIDE DEF d
    <3>4. ASSUME d.born = inst.born
          PROVE  d.gen <= new.gen /\ (d.gen = new.gen => SameContent(d, new))
      <4>1. d.gen <= inst.gen /\ (d.gen = inst.gen => SameContent(d, inst))
        BY <3>1, <3>4 DEF EarlierInst
      <4>2. d.gen <= new.gen
        BY <2>4, <2>5, <3>2, <4>1, Bounds, Zenon
      <4>3. CASE SameContent(new, inst)
        BY <4>1, <4>2, <4>3 DEF SameContent
      <4>4. CASE ~SameContent(new, inst)
        BY <2>4, <3>2, <4>1, <4>2, <4>4, Bounds, Zenon
      <4> QED
        BY <4>3, <4>4
    <3>5. (EarlierInst(d))'
      BY <2>1, <2>3, <3>1, <3>3, <3>4 DEF EarlierInst, SameContent, d
    <3> QED
      BY <3>1, <3>5 DEF d
  <2>8. InstSeparate
    <3>1. CASE new.status = inst.status
      BY <2>3, <3>1 DEF InstSeparate
    <3>2. CASE new = [inst EXCEPT !.status = new.status]
      BY <1>1, <2>1, <2>3, <3>2 DEF InstSeparate, InstObject
    <3> QED
      BY <3>1, <3>2
  <2> QED
    BY <1>2, <2>1, <2>3, <2>5, <2>6, <2>7, <2>8 DEF InstInv
<1> QED
  BY <1>3, <1>4

\* A new instance is younger than every copy.
LEMMA FirstInst ==
    ASSUME InstInv, rev \in 0 .. MaxRev, NEW w \in Version, CreateInst(w)
    PROVE  InstInv' /\ InstSeparate
<1>1. inst = Nil /\ rev < MaxRev /\ rev' = rev + 1 /\ icopy' = icopy
  BY DEF CreateInst
<1>2. rev + 1 \in 1 .. MaxRev /\ rev + 1 \in Nat /\ rev \in Nat /\ 1 \in Nat
  BY <1>1, Bounds, Zenon
<1>3. PICK x \in Values, m \in Labels, s \in Values :
        inst' = InstPrepareForCreate([rev |-> rev + 1, born |-> rev + 1, gen |-> 1, meta |-> m,
                                      version |-> w, content |-> x, status |-> s])
  BY DEF CreateInst
<1>4. inst' \in InstObject /\ inst'.rev = rev + 1 /\ inst'.born = rev + 1 /\ inst'.gen = 1
  BY <1>2, <1>3 DEF InstPrepareForCreate, InstObject
<1>5. 1 \in 1 .. MaxRev /\ 1 <= rev + 1 /\ rev + 1 <= rev + 1
  BY <1>2, RegistryAssumption
<1>6. inst' \in Instances
  BY <1>2, <1>4, <1>5, InstanceObject
<1>7. ASSUME NEW c \in Client, icopy[c] # Nil PROVE icopy[c].born <= rev + 1 /\ icopy[c].born # rev + 1
  <2>1. icopy[c] \in Instances /\ icopy[c].born <= rev
    BY <1>7 DEF InstInv, EarlierInst
  <2>2. icopy[c].born \in Nat
    BY <2>1, Bounds, InstanceObject
  <2> QED
    BY <1>2, <2>1, <2>2, Bounds, Zenon
<1> QED
  BY <1>1, <1>4, <1>5, <1>6, <1>7 DEF InstInv, EarlierInst, InstSeparate

\* What a client writes through version w.
LEMMA InstBodyOf ==
    ASSUME NEW d \in Instances, NEW w \in Version, NEW body \in InstBodies([d EXCEPT !.version = w])
    PROVE  body \in InstObject /\ body.rev = d.rev
<1> DEFINE e == [d EXCEPT !.version = w]
<1>1. e \in InstObject /\ e.rev = d.rev
  BY InstanceObject DEF InstObject
<1> HIDE DEF e
<1>2. PICK x \in Values, m \in Labels, v \in Values \cup {e.status} : body = InstBody(e, x, m, v)
  BY DEF InstBodies, e
<1> QED
  BY <1>1, <1>2 DEF InstObject, InstBody

\* A write of a request to the instance.
LEMMA InstWrites ==
    ASSUME InstInv, rev \in 0 .. MaxRev, NEW c \in Client, NEW w \in Version,
           UpdateInst(c, w) \/ UpdateInstStatus(c, w)
    PROVE  InstInv' /\ InstSeparate
<1>1. icopy[c] # Nil /\ icopy[c] \in Instances /\ icopy' = Forget(icopy, c)
  BY DEF UpdateInst, UpdateInstStatus, InstInv
<1>2. ASSUME UNCHANGED <<rev, inst>>
      PROVE  InstInv' /\ InstSeparate
  <2>1. icopy' \in [Client -> Instances \cup {Nil}] /\ \A x \in Client : icopy'[x] # Nil => icopy'[x] = icopy[x]
    BY <1>1 DEF InstInv, Forget
  <2> QED
    BY <1>2, <2>1 DEF InstInv, InstSeparate, EarlierInst
<1>3. CASE UpdateInst(c, w)
  <2>1. CASE ~Conditional(icopy[c], inst)
    BY <1>2, <1>3, <2>1 DEF UpdateInst
  <2>2. CASE Conditional(icopy[c], inst)
    <3>0. PICK body \in InstBodies([icopy[c] EXCEPT !.version = w]) : WriteInst(InstUpdated(body))
      BY <1>3, <2>2 DEF UpdateInst
    <3> DEFINE new == InstUpdated(body)
    <3>1. WriteInst(new) /\ inst # Nil /\ body.rev = inst.rev
      BY <1>1, <2>2, <3>0, InstBodyOf DEF Conditional
    <3>2. inst \in InstObject /\ body \in InstObject
      BY <1>1, <3>0, <3>1, InstBodyOf, InstanceObject DEF InstInv
    <3>3. new = InstPrepareForUpdate(BeforeUpdate(body, inst), inst)
      BY DEF InstUpdated
    <3> HIDE DEF new
    <3>4. /\ new \in InstObject /\ new.rev = inst.rev /\ new.born = inst.born /\ new.status = inst.status
          /\ new.gen = IF SameContent(new, inst) THEN inst.gen ELSE inst.gen + 1
      BY <3>1, <3>2, <3>3, UpdatedInst
    <3> QED
      BY <1>1, <3>1, <3>4, WriteInstInv
  <2> QED
    BY <2>1, <2>2
<1>4. CASE UpdateInstStatus(c, w)
  <2>1. CASE ~Conditional(icopy[c], inst)
    BY <1>2, <1>4, <2>1 DEF UpdateInstStatus
  <2>2. CASE Conditional(icopy[c], inst)
    <3>0. PICK body \in InstBodies([icopy[c] EXCEPT !.version = w]) : WriteInst(InstStatusUpdated(body))
      BY <1>4, <2>2 DEF UpdateInstStatus
    <3> DEFINE new == InstStatusUpdated(body)
    <3>1. WriteInst(new) /\ inst # Nil
      BY <2>2, <3>0 DEF Conditional
    <3>2. inst \in InstObject /\ body \in InstObject
      BY <1>1, <3>0, <3>1, InstBodyOf, InstanceObject DEF InstInv
    <3>3. new = InstStatusPrepareForUpdate(BeforeUpdate(body, inst), inst)
      BY DEF InstStatusUpdated
    <3> HIDE DEF new
    <3>4. /\ new \in InstObject /\ new.rev = inst.rev /\ new.born = inst.born /\ new.gen = inst.gen
          /\ SameContent(new, inst) /\ new = [inst EXCEPT !.status = body.status]
      BY <3>2, <3>3, StatusUpdatedInst
    <3>5. new = [inst EXCEPT !.status = new.status]
      BY <3>2, <3>4 DEF InstObject
    <3> QED
      BY <1>1, <3>1, <3>4, <3>5, WriteInstInv
  <2> QED
    BY <2>1, <2>2
<1> QED
  BY <1>3, <1>4

\* A read: the copy is the instance.
LEMMA InstReads ==
    ASSUME InstInv, NEW c \in Client, GetInst(c)
    PROVE  InstInv' /\ InstSeparate
<1>1. inst # Nil /\ icopy' = [icopy EXCEPT ![c] = inst] /\ UNCHANGED <<rev, inst>>
  BY DEF GetInst
<1>2. icopy' \in [Client -> Instances \cup {Nil}] /\ \A x \in Client : icopy'[x] # Nil
        => icopy'[x] \in {inst, icopy[x]}
  BY <1>1 DEF InstInv
<1>3. inst.gen <= inst.gen
  BY <1>1, Bounds, InstanceObject DEF InstInv
<1> QED
  BY <1>1, <1>2, <1>3 DEF InstInv, EarlierInst, InstSeparate, SameContent

\* Without a write the store may still count on: for the definition, or for the
\* removal of the instance.
LEMMA InstKept ==
    ASSUME InstInv, rev \in 0 .. MaxRev, rev' = rev \/ (rev < MaxRev /\ rev' = rev + 1),
           icopy' = icopy, inst' \in {inst, Nil}
    PROVE  InstInv' /\ InstSeparate
<1>1. /\ \A c \in Client : icopy[c] # Nil => icopy[c].born <= rev'
      /\ inst # Nil => inst.gen <= rev' /\ inst.born <= rev'
  <2>1. CASE rev' = rev
    BY <2>1 DEF InstInv, EarlierInst
  <2>2. CASE rev < MaxRev /\ rev' = rev + 1
    <3>1. rev \in Nat /\ (inst # Nil => inst.gen \in Nat /\ inst.born \in Nat)
      BY Bounds, InstanceObject DEF InstInv
    <3>2. \A c \in Client : icopy[c] # Nil => icopy[c].born \in Nat
      BY Bounds, InstanceObject DEF InstInv
    <3> QED
      BY <2>2, <3>1, <3>2, Bounds, Zenon DEF InstInv, EarlierInst
  <2> QED
    BY <2>1, <2>2
<1>2. inst' = inst \/ inst' = Nil
  OBVIOUS
<1> QED
  BY <1>1, <1>2 DEF InstInv, EarlierInst, InstSeparate

-----------------------------------------------------------------------------
(***************************************************************************)
(* Both.                                                                   *)
(***************************************************************************)
IInv == DInv /\ InstInv

\* At first there is nothing.
LEMMA InitInv == Init => IInv
<1> SUFFICES ASSUME Init PROVE IInv
  OBVIOUS
<1>1. 0 \in 0 .. MaxRev
  BY RegistryAssumption
<1> QED
  BY <1>1 DEF Init, IInv, DInv, StoredOK, CopiesOK, InstInv

StepOK == IInv' /\ DefSeparate /\ InstSeparate

\* Requests for the definition leave the instance alone, and the other way round.
LEMMA StepInv == IInv /\ [Next]_vars => StepOK
<1> SUFFICES ASSUME IInv, [Next]_vars PROVE StepOK
  OBVIOUS
<1>1. DInv /\ InstInv /\ rev \in 0 .. MaxRev
  BY DEF IInv, DInv, StoredOK
<1>2. ASSUME DInv' /\ DefSeparate, UNCHANGED <<inst, icopy>>, rev' = rev \/ (rev < MaxRev /\ rev' = rev + 1)
      PROVE  StepOK
  BY <1>1, <1>2, InstKept DEF StepOK, IInv
<1>3. ASSUME InstInv' /\ InstSeparate, UNCHANGED <<def, dcopy, wasStorage>>,
             rev' = rev \/ (rev < MaxRev /\ rev' = rev + 1)
      PROVE  StepOK
  BY <1>1, <1>3, DefKept DEF StepOK, IInv
<1>4. CASE CreateDef
  <2>1. DInv' /\ DefSeparate
    BY <1>1, <1>4, FirstDef DEF CreateDef, DefSeparate
  <2> QED
    BY <1>2, <1>4, <2>1 DEF CreateDef
<1>5. CASE DeleteInst
  <2>1. InstInv' /\ InstSeparate
    BY <1>1, <1>5, InstKept DEF DeleteInst
  <2> QED
    BY <1>3, <1>5, <2>1 DEF DeleteInst
<1>6. ASSUME NEW v \in Version, CreateInst(v) PROVE StepOK
  BY <1>1, <1>3, <1>6, FirstInst DEF CreateInst
<1>7. ASSUME NEW c \in Client, GetDef(c) PROVE StepOK
  BY <1>1, <1>2, <1>7, DefReads DEF GetDef
<1>8. ASSUME NEW c \in Client, UpdateDef(c) \/ UpdateDefStatus(c) PROVE StepOK
  <2>1. UNCHANGED <<inst, icopy>> /\ (rev' = rev \/ (rev < MaxRev /\ rev' = rev + 1))
    BY <1>8 DEF UpdateDef, UpdateDefStatus, WriteDef
  <2> QED
    BY <1>1, <1>2, <1>8, <2>1, DefWrites
<1>9. ASSUME NEW c \in Client, GetInst(c) PROVE StepOK
  BY <1>1, <1>3, <1>9, InstReads DEF GetInst
<1>10. ASSUME NEW c \in Client, NEW v \in Version, UpdateInst(c, v) \/ UpdateInstStatus(c, v) PROVE StepOK
  <2>1. UNCHANGED <<def, dcopy, wasStorage>> /\ (rev' = rev \/ (rev < MaxRev /\ rev' = rev + 1))
    BY <1>10 DEF UpdateInst, UpdateInstStatus, WriteInst
  <2> QED
    BY <1>1, <1>3, <1>10, <2>1, InstWrites
<1>11. CASE UNCHANGED vars
  BY <1>1, <1>2, <1>11, DefKept DEF vars
<1> QED
  BY <1>4, <1>5, <1>6, <1>7, <1>8, <1>9, <1>10, <1>11 DEF Next

-----------------------------------------------------------------------------
(***************************************************************************)
(* Theorems.                                                               *)
(***************************************************************************)

\* The store holds objects in their stored form, defaulted and with a generation that
\* no write can take from them, and clients read no other.
THEOREM TypeCorrect == Spec => []RegistryTypeOK
<1>1. IInv => RegistryTypeOK
  <2> SUFFICES ASSUME IInv PROVE RegistryTypeOK
    OBVIOUS
  <2>1. wasStorage \subseteq Version
    BY DEF IInv, DInv, StoredOK, Definitions
  <2> QED
    BY <2>1 DEF IInv, DInv, StoredOK, InstInv, RegistryTypeOK
<1>2. StepOK => IInv'
  BY DEF StepOK
<1> QED
  BY <1>1, <1>2, InitInv, StepInv, PTL DEF Spec

\* Whoever finds an object at the generation it has seen knows its spec
\* (PrepareForUpdate of both strategies; no request brings its own generation).
THEOREM GenerationsTell == Spec => []GenerationIdentifiesSpec
<1>1. IInv => GenerationIdentifiesSpec
  BY DEF IInv, DInv, CopiesOK, Earlier, InstInv, EarlierInst, SameContent, GenerationIdentifiesSpec
<1>2. StepOK => IInv'
  BY DEF StepOK
<1> QED
  BY <1>1, <1>2, InitInv, StepInv, PTL DEF Spec

\* storedVersions loses no version that was the storage version but by a status that is
\* written without it: not by a spec, whatever list comes with it (Strategy, SetDefaults).
THEOREM StoredVersionsStay == Spec => []StoredVersionsAreKept
<1>1. IInv => StoredVersionsAreKept
  BY DEF IInv, DInv, StoredOK, StoredVersionsAreKept
<1>2. StepOK => IInv'
  BY DEF StepOK
<1> QED
  BY <1>1, <1>2, InitInv, StepInv, PTL DEF Spec

\* A client that writes back what it has read writes nothing, unless the storage version
\* is to be listed: the defaults and the conversions are stable, and the strategies see
\* no change.
THEOREM NothingWithoutAChange == Spec => []PutBackIsNoOp
<1>1. ASSUME IInv, def # Nil
      PROVE  /\ DefUpdated(Encode(Decode(def))) = Stored(def)
             /\ DefStatusUpdated(Encode(Decode(def))) = IF def.status.stored = {} THEN Stored(def) ELSE def
  <2> DEFINE e == Encode(Decode(def))
             k == Stored(def)
  <2>1. def \in Object(Defaulted) /\ def.spec \in Defaulted /\ SetDefaultsSpec(def.spec) = def.spec
    BY <1>1, DefinitionObject, Specs DEF IInv, DInv, StoredOK, Object
  <2>2. /\ e \in Object(Defaulted)
        /\ e \in The(def.rev, def.born, def.gen, def.meta, def.spec, def.status.cond, StoredOrDefault(def))
    BY <2>1, ReadBack
  <2>3. /\ k \in Object(Defaulted)
        /\ k \in The(def.rev, def.born, def.gen, def.meta, def.spec, def.status.cond,
                     def.status.stored \cup Storage(def))
    <3>1. Storage(def) \in SUBSET Version
      BY <2>1, Specs, StorageVersion DEF Object, Storage
    <3> QED
      BY <2>1, <3>1 DEF Stored, Storage, Object, The
  <2> HIDE DEF e, k
  <2>4. /\ e \in Object(DefSpecs \cup Defaulted)
        /\ e.rev = def.rev /\ e.born = def.born /\ e.gen = def.gen /\ e.meta = def.meta /\ e.spec = def.spec
        /\ e.status.cond = def.status.cond /\ e.status.stored = StoredOrDefault(def)
    <3>1. e \in Object(DefSpecs \cup Defaulted)
      BY <2>2 DEF Object
    <3> QED
      BY <2>2, <3>1, TheParts
  <2>5. /\ Storage(e) = Storage(def)
        /\ StoredOrDefault(def) \cup Storage(e) = def.status.stored \cup Storage(def)
        /\ StoredOrDefault(e) = IF def.status.stored = {} THEN def.status.stored \cup Storage(def)
                                                         ELSE def.status.stored
    BY <2>4 DEF Storage, StoredOrDefault
  <2>6. DefUpdated(e) = k
    <3> DEFINE new == DefUpdated(e)
    <3>1. /\ new \in Object(Defaulted)
          /\ new \in The(def.rev, def.born, def.gen, def.meta, def.spec, def.status.cond,
                         def.status.stored \cup Storage(def))
      BY <2>1, <2>4, <2>5, WrittenMain
    <3> HIDE DEF new
    <3>2. new = k
      BY <2>3, <3>1, TheParts, OneObject
    <3> QED
      BY <3>2 DEF new
  <2>7. DefStatusUpdated(e) = IF def.status.stored = {} THEN k ELSE def
    <3> DEFINE new == DefStatusUpdated(e)
    <3>1. /\ new \in Object(Defaulted)
          /\ new \in The(def.rev, def.born, def.gen, def.meta, def.spec, def.status.cond, StoredOrDefault(e))
      BY <2>1, <2>4, WrittenStatus
    <3> HIDE DEF new
    <3>2. /\ new.rev = def.rev /\ new.born = def.born /\ new.gen = def.gen /\ new.meta = def.meta
          /\ new.spec = def.spec /\ new.status.cond = def.status.cond
          /\ new.status.stored = StoredOrDefault(e)
      BY <3>1, TheParts
    <3>3. CASE def.status.stored = {}
      <4>1. /\ k.rev = def.rev /\ k.born = def.born /\ k.gen = def.gen /\ k.meta = def.meta
            /\ k.spec = def.spec /\ k.status.cond = def.status.cond
            /\ k.status.stored = def.status.stored \cup Storage(def)
        BY <2>3, TheParts
      <4>2. new = k
        BY <2>3, <2>5, <3>1, <3>2, <3>3, <4>1, OneObject
      <4> QED
        BY <3>3, <4>2 DEF new
    <3>4. CASE def.status.stored # {}
      <4>1. new = def
        BY <2>1, <2>5, <3>1, <3>2, <3>4, OneObject
      <4> QED
        BY <3>4, <4>1 DEF new
    <3> QED
      BY <3>3, <3>4
  <2> QED
    BY <2>6, <2>7 DEF e, k
<1>2. ASSUME IInv, inst # Nil
      PROVE  InstUpdated(inst) = inst /\ InstStatusUpdated(inst) = inst
  <2>1. inst \in InstObject
    BY <1>2, InstanceObject DEF IInv, InstInv
  <2>2. BeforeUpdate(inst, inst) = inst
    BY <2>1 DEF BeforeUpdate, InstObject
  <2>3. InstPrepareForUpdate(inst, inst) = inst
    BY <2>1 DEF InstPrepareForUpdate, InstObject
  <2>4. InstStatusPrepareForUpdate(inst, inst) = inst
    BY <2>1 DEF InstStatusPrepareForUpdate, InstObject
  <2> QED
    BY <2>2, <2>3, <2>4 DEF InstUpdated, InstStatusUpdated
<1>3. IInv => PutBackIsNoOp
  BY <1>1, <1>2 DEF PutBackIsNoOp
<1>4. StepOK => IInv'
  BY DEF StepOK
<1> QED
  BY <1>3, <1>4, InitInv, StepInv, PTL DEF Spec

\* The main endpoint writes no status and the status endpoint writes nothing else of
\* an instance, and of a definition neither spec nor generation (REST, StatusREST).
THEOREM EndpointsAreSeparate == Spec => StatusIsSeparate
<1>1. StepOK => IInv'
  BY DEF StepOK
<1>2. IInv /\ [Next]_vars =>
        [/\ def # Nil /\ def'.status.cond # def.status.cond => def'.spec = def.spec /\ def'.gen = def.gen
         /\ inst # Nil /\ inst' # Nil /\ inst'.status # inst.status =>
              inst' = [inst EXCEPT !.status = inst'.status, !.rev = inst'.rev]]_vars
  BY StepInv DEF StepOK, DefSeparate, InstSeparate
<1> QED
  BY <1>1, <1>2, InitInv, StepInv, PTL DEF Spec, StatusIsSeparate
=============================================================================
