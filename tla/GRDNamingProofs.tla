-------------------------- MODULE GRDNamingProofs --------------------------
(***************************************************************************)
(* Proofs about GRDNaming, for every set of definitions, names and bounds. *)
(*                                                                         *)
(* NamesExclusive is not inductive: what the naming worker writes was      *)
(* computed from the lister and the mutation cache, not from what is       *)
(* stored.  The strengthening IInv says why that is enough:                *)
(*   - what the worker knows of a definition (KnownAt) holds at least the  *)
(*     names that any later version of it holds (HeldShrinks), since only  *)
(*     the worker adds names and it puts what it wrote into its cache;     *)
(*   - there is one worker (OneWorker), so nobody adds names between its   *)
(*     computation and its update;                                         *)
(*   - what it is about to write clashes with nothing stored, provided     *)
(*     the version it started from is still the stored one                 *)
(*     (ResultDisjoint); otherwise the update is refused.                  *)
(***************************************************************************)
EXTENDS GRDNaming, FiniteSetTheorems, TLAPS

\* The version the naming worker takes a definition to be at.
KnownAt(g) == IF mut[g] > pos[g] THEN mut[g] ELSE pos[g]

\* Lister and cache refer to versions that exist.
Positions == \A g \in GRD : pos[g] \in 1 .. Len(hist[g]) /\ mut[g] \in 0 .. Len(hist[g])

\* The cache is ahead of the lister by the worker's own update only.
CacheAhead ==
    \A g \in GRD : mut[g] > pos[g] =>
        mut[g] = pos[g] + 1 /\ Listed(g) # Absent /\ hist[g][mut[g]] # Absent

\* From the version the worker knows on, a definition gains no names.
HeldShrinks ==
    \A g \in GRD, f \in Field : \A i \in KnownAt(g) .. Len(hist[g]) :
        Held(Stored(g), f) \subseteq Held(hist[g][i], f)

OneWorker == \A g, h \in GRD : npc[g] # "idle" /\ npc[h] # "idle" => g = h

\* The workers hold versions that the lister had, of stored definitions.
BasesListed ==
    \A g \in GRD :
        /\ npc[g] # "idle" => nbase[g] \in 1 .. pos[g] /\ hist[g][nbase[g]] # Absent
        /\ epc[g] = "update" => ebase[g] \in 1 .. pos[g] /\ hist[g][ebase[g]] # Absent

ResultDisjoint ==
    \A g \in GRD : npc[g] = "update" /\ Len(hist[g]) = nbase[g] =>
        \A h \in GRD, f \in Field : g # h => Held(nres[g], f) \cap Held(Stored(h), f) = {}

ResultIsDef ==
    \A g \in GRD : npc[g] = "update" =>
        nres[g] \in Def /\ (hist[g][nbase[g]].est = "True" => nres[g].est = "True")

\* What needs no assumption on the backend.
BaseInv == TypeOK /\ Positions /\ BasesListed /\ ResultIsDef

NamingInv == CacheAhead /\ HeldShrinks /\ OneWorker /\ ResultDisjoint /\ NamesExclusive

IInv == BaseInv /\ NamingInv

-----------------------------------------------------------------------------
(* The operators. *)

\* A set of definitions becomes a sequence of definitions.
LEMMA SetToSeqType ==
    ASSUME NEW S \in SUBSET GRD
    PROVE  SetToSeq(S) \in Seq(GRD)
<1>1. IsFiniteSet(S)
  BY GRDNamingAssumption, FS_Subset
<1>2. Cardinality(S) \in Nat /\ ExistsBijection(1 .. Cardinality(S), S)
  BY <1>1, FS_CardinalityType
<1>3. PICK f \in [1 .. Cardinality(S) -> S] : IsInjective(f)
  BY <1>2 DEF ExistsBijection, Bijection, Injection, IsInjective, Surjection
<1>4. SetToSeq(S) \in [1 .. Cardinality(S) -> S]
  BY <1>3 DEF SetToSeq
<1> QED
  BY <1>2, <1>4

\* A queue of definitions stays one.
LEMMA EnqueueType ==
    ASSUME NEW q \in Seq(GRD), NEW keys \in SUBSET GRD
    PROVE  Enqueue(q, keys) \in Seq(GRD)
<1>1. SetToSeq(keys \ ToSet(q)) \in Seq(GRD)
  BY SetToSeqType
<1> QED
  BY <1>1 DEF Enqueue

\* Versions are added, none is changed.
HistGrows ==
    \A h \in GRD :
        /\ Len(hist[h]) \in Nat /\ Len(hist'[h]) \in Nat
        /\ Len(hist[h]) <= Len(hist'[h])
        /\ \A i \in 1 .. Len(hist[h]) : hist'[h][i] = hist[h][i]

\* Storing a version appends it to one history and leaves the rest alone.
LEMMA StoreStep ==
    ASSUME TypeOK, NEW g \in GRD, NEW d \in Def \cup {Absent}, Store(g, d)
    PROVE  /\ hist' \in [GRD -> Seq(Def \cup {Absent})]
           /\ Len(hist'[g]) = Len(hist[g]) + 1
           /\ hist'[g][Len(hist[g]) + 1] = d
           /\ \A h \in GRD : h # g => hist'[h] = hist[h]
           /\ HistGrows
<1>1. hist[g] \in Seq(Def \cup {Absent}) /\ hist'[g] = Append(hist[g], d)
  BY DEF TypeOK, Store
<1>2. \A h \in GRD : hist[h] \in Seq(Def \cup {Absent})
  BY DEF TypeOK
<1>3. hist' \in [GRD -> Seq(Def \cup {Absent})] /\ \A h \in GRD : h # g => hist'[h] = hist[h]
  BY DEF TypeOK, Store
<1>4. /\ Len(hist[g]) \in Nat /\ Len(hist'[g]) = Len(hist[g]) + 1
      /\ hist'[g][Len(hist[g]) + 1] = d
      /\ \A i \in 1 .. Len(hist[g]) : hist'[g][i] = hist[g][i]
  BY <1>1
<1>5. ASSUME NEW h \in GRD, h # g
      PROVE  /\ Len(hist[h]) \in Nat /\ Len(hist'[h]) \in Nat
             /\ Len(hist[h]) <= Len(hist'[h])
             /\ \A i \in 1 .. Len(hist[h]) : hist'[h][i] = hist[h][i]
  BY <1>2, <1>3, <1>5
<1>6. HistGrows
  BY <1>4, <1>5 DEF HistGrows
<1> QED
  BY <1>3, <1>4, <1>6

\* The reported field is one that failed.
LEMMA LastFailed ==
    ASSUME NEW failed \in SUBSET Field, failed # {}
    PROVE  (CHOOSE f \in failed : \A x \in failed : Rank[x] <= Rank[f]) \in failed
<1>1. \E f \in failed : \A x \in failed : Rank[x] <= Rank[f]
  <2>1. CASE "listKind" \in failed
    BY <2>1 DEF Rank, Field, ResourceField, KindField
  <2>2. CASE "listKind" \notin failed /\ "kind" \in failed
    BY <2>2 DEF Rank, Field, ResourceField, KindField
  <2>3. CASE {"listKind", "kind"} \cap failed = {} /\ "shortNames" \in failed
    BY <2>3 DEF Rank, Field, ResourceField, KindField
  <2>4. CASE {"listKind", "kind", "shortNames"} \cap failed = {} /\ "singular" \in failed
    BY <2>4 DEF Rank, Field, ResourceField, KindField
  <2>5. CASE {"listKind", "kind", "shortNames", "singular"} \cap failed = {}
    <3>1. failed = {"plural"}
      BY <2>5 DEF Field, ResourceField, KindField
    <3> QED
      BY <3>1 DEF Rank
  <2> QED
    BY <2>1, <2>2, <2>3, <2>4, <2>5
<1> QED
  BY <1>1

\* calculateNamesAndConditions returns a definition, and never takes Established
\* back.
LEMMA CalculateType ==
    ASSUME NEW d \in Def
    PROVE  /\ calculateNamesAndConditions(d) \in Def
           /\ d.est = "True" => calculateNamesAndConditions(d).est = "True"
<1>1. newNames(d) \in Names
  BY DEF newNames, Def, Names
<1>2. namesAcceptedCondition(d) \in Accepted
  <2> DEFINE failed == {f \in Field : Clash(d, f) # {}}
             last == CHOOSE f \in failed : \A x \in failed : Rank[x] <= Rank[f]
  <2>1. CASE failed = {}
    BY <2>1 DEF namesAcceptedCondition, Accepted
  <2>2. CASE failed # {}
    <3>1. last \in Field
      <4> HIDE DEF failed
      <4>1. failed \in SUBSET Field
        BY DEF failed
      <4> QED
        BY <4>1, <2>2, LastFailed
    <3>2. Clash(d, last) \in SUBSET Name
      <4> HIDE DEF last
      <4> QED
        BY <3>1 DEF Clash, Def, Names
    <3>3. namesAcceptedCondition(d) = [reason |-> last, names |-> Clash(d, last)]
      BY <2>2 DEF namesAcceptedCondition
    <3> HIDE DEF last
    <3> QED
      BY <3>1, <3>2, <3>3 DEF Accepted
  <2> QED
    BY <2>1, <2>2
<1>3. ASSUME NEW na \in Accepted
      PROVE  /\ establishedCondition(d, na) \in Established
             /\ d.est = "True" => establishedCondition(d, na) = "True"
  BY DEF establishedCondition, Def, Established
<1> QED
  BY <1>1, <1>2, <1>3 DEF calculateNamesAndConditions, Def

-----------------------------------------------------------------------------
(* Types, and what the workers hold. *)

\* What is stored and what is listed is a definition or nothing.
LEMMA StoredType ==
    ASSUME TypeOK, Positions, NEW g \in GRD
    PROVE  /\ Len(hist[g]) \in Nat /\ 1 <= Len(hist[g])
           /\ pos[g] \in Nat /\ mut[g] \in Nat
           /\ \A i \in 1 .. Len(hist[g]) : hist[g][i] \in Def \cup {Absent}
           /\ Stored(g) \in Def \cup {Absent}
           /\ Listed(g) \in Def \cup {Absent}
           /\ Known(g) \in Def \cup {Absent}
<1>1. hist[g] \in Seq(Def \cup {Absent}) /\ pos[g] \in Nat /\ mut[g] \in Nat
  BY DEF TypeOK
<1>2. Len(hist[g]) \in Nat /\ \A i \in 1 .. Len(hist[g]) : hist[g][i] \in Def \cup {Absent}
  BY <1>1
<1>3. pos[g] \in 1 .. Len(hist[g]) /\ mut[g] \in 0 .. Len(hist[g])
  BY DEF Positions
<1> QED
  BY <1>1, <1>2, <1>3 DEF Stored, Listed, Known

\* A step that begins no sync leaves to each worker what it has, or sends it idle.
WorkersKept ==
    \A h \in GRD :
        /\ pos'[h] \in pos[h] .. Len(hist'[h])
        /\ npc'[h] \in {npc[h], "idle"} /\ epc'[h] \in {epc[h], "idle"}
        /\ npc'[h] # "idle" => nbase'[h] = nbase[h] /\ nres'[h] = nres[h]
        /\ epc'[h] # "idle" => ebase'[h] = ebase[h]

\* Such a step keeps what is said of the workers.
LEMMA BasesKept ==
    ASSUME BaseInv, HistGrows, WorkersKept
    PROVE  BasesListed' /\ ResultIsDef'
<1> SUFFICES ASSUME NEW h \in GRD
             PROVE  /\ npc'[h] # "idle" => nbase'[h] \in 1 .. pos'[h] /\ hist'[h][nbase'[h]] # Absent
                    /\ epc'[h] = "update" => ebase'[h] \in 1 .. pos'[h] /\ hist'[h][ebase'[h]] # Absent
                    /\ npc'[h] = "update" =>
                          nres'[h] \in Def /\ (hist'[h][nbase'[h]].est = "True" => nres'[h].est = "True")
  BY DEF BasesListed, ResultIsDef
<1>1. pos[h] \in 1 .. Len(hist[h]) /\ Len(hist[h]) \in Nat /\ Len(hist'[h]) \in Nat
  BY DEF BaseInv, Positions, HistGrows
<1>2. pos[h] <= pos'[h] /\ pos'[h] \in Nat
  BY <1>1 DEF WorkersKept
<1>3. ASSUME NEW i \in 1 .. pos[h] PROVE hist'[h][i] = hist[h][i] /\ i \in 1 .. pos'[h]
  BY <1>1, <1>2 DEF HistGrows
<1>4. npc'[h] # "idle" => npc[h] = npc'[h] /\ nbase'[h] = nbase[h] /\ nres'[h] = nres[h]
  BY DEF WorkersKept
<1>5. epc'[h] = "update" => epc[h] = "update" /\ ebase'[h] = ebase[h]
  BY DEF WorkersKept
<1>6. /\ npc[h] # "idle" => nbase[h] \in 1 .. pos[h] /\ hist[h][nbase[h]] # Absent
      /\ epc[h] = "update" => ebase[h] \in 1 .. pos[h] /\ hist[h][ebase[h]] # Absent
      /\ npc[h] = "update" =>
            nres[h] \in Def /\ (hist[h][nbase[h]].est = "True" => nres[h].est = "True")
  BY DEF BaseInv, BasesListed, ResultIsDef
<1> QED
  BY <1>3, <1>4, <1>5, <1>6

\* A version more, and no sync begun.
LEMMA BaseStore ==
    ASSUME BaseInv, NEW g \in GRD, NEW d \in Def \cup {Absent}, Store(g, d), UNCHANGED pos,
           \A h \in GRD : mut'[h] \in 0 .. Len(hist'[h]),
           \A h \in GRD :
              /\ npc'[h] \in {npc[h], "idle"} /\ epc'[h] \in {epc[h], "idle"}
              /\ npc'[h] # "idle" => nbase'[h] = nbase[h] /\ nres'[h] = nres[h]
              /\ epc'[h] # "idle" => ebase'[h] = ebase[h]
    PROVE  Positions' /\ BasesListed' /\ ResultIsDef'
<1>1. HistGrows
  BY StoreStep DEF BaseInv
<1>2. \A h \in GRD : pos'[h] \in 1 .. Len(hist'[h]) /\ pos'[h] \in pos[h] .. Len(hist'[h])
  BY <1>1 DEF BaseInv, HistGrows, Positions
<1>3. WorkersKept
  BY <1>2 DEF WorkersKept
<1>4. Positions'
  BY <1>2 DEF Positions
<1> QED
  BY <1>1, <1>3, <1>4, BasesKept

\* The users' case of it.
LEMMA BaseUser ==
    ASSUME BaseInv, NEW g \in GRD, NEW d \in Def \cup {Absent}, Store(g, d),
           UNCHANGED <<pos, mut, namingVars, establishingVars, faults>>
    PROVE  BaseInv'
<1>1. TypeOK /\ HistGrows
  BY StoreStep DEF BaseInv
<1>2. TypeOK'
  BY <1>1, StoreStep DEF TypeOK, namingVars, establishingVars
<1>3. \A h \in GRD : mut'[h] \in 0 .. Len(hist'[h])
  BY <1>1 DEF BaseInv, Positions, HistGrows
<1>4. Positions' /\ BasesListed' /\ ResultIsDef'
  BY <1>3, BaseStore DEF namingVars, establishingVars
<1> QED
  BY <1>2, <1>4 DEF BaseInv

\* A step that stores nothing.
LEMMA BaseNoStore ==
    ASSUME BaseInv, UNCHANGED <<hist, mut>>,
           \A h \in GRD : pos'[h] \in pos[h] .. Len(hist[h]),
           \A h \in GRD :
              /\ npc'[h] \in {npc[h], "idle"} /\ epc'[h] \in {epc[h], "idle"}
              /\ npc'[h] # "idle" => nbase'[h] = nbase[h] /\ nres'[h] = nres[h]
              /\ epc'[h] # "idle" => ebase'[h] = ebase[h]
    PROVE  Positions' /\ BasesListed' /\ ResultIsDef'
<1>1. \A h \in GRD : Len(hist[h]) \in Nat
  BY StoredType DEF BaseInv
<1>2. HistGrows
  BY <1>1 DEF HistGrows
<1>3. WorkersKept
  BY DEF WorkersKept
<1>4. Positions'
  BY <1>1 DEF BaseInv, Positions
<1> QED
  BY <1>2, <1>3, <1>4, BasesKept

\* The version CreateGRD stores is a definition.
LEMMA NewDef ==
    ASSUME NEW n \in Names
    PROVE  [spec |-> n, acc |-> NoNames, est |-> "Unset",
            na |-> [reason |-> "Unset", names |-> {}]] \in Def
  BY DEF Def, Names, NoNames, Accepted, Established

\* Every step keeps BaseInv.
LEMMA BaseStep == BaseInv /\ [Next]_vars => BaseInv'
<1> SUFFICES ASSUME BaseInv, [Next]_vars PROVE BaseInv'
  OBVIOUS
<1> USE DEF BaseInv
<1>1. CASE UNCHANGED vars
  BY <1>1 DEF vars, namingVars, establishingVars, TypeOK, Positions, BasesListed, ResultIsDef
<1>2. ASSUME NEW g \in GRD, CreateGRD(g) PROVE BaseInv'
  <2>1. PICK n \in Requests[g] :
            Store(g, [spec |-> n, acc |-> NoNames, est |-> "Unset",
                      na |-> [reason |-> "Unset", names |-> {}]])
    BY <1>2 DEF CreateGRD
  <2>2. n \in Names
    BY GRDNamingAssumption
  <2> QED
    BY <1>2, <2>1, <2>2, NewDef, BaseUser DEF CreateGRD
<1>3. ASSUME NEW g \in GRD, UpdateNames(g) PROVE BaseInv'
  <2>1. PICK n \in Requests[g] : Store(g, [Stored(g) EXCEPT !.spec = n])
    BY <1>3 DEF UpdateNames
  <2>2. n \in Names
    BY GRDNamingAssumption
  <2>3. Stored(g) \in Def
    BY <1>3, StoredType DEF UpdateNames
  <2>4. [Stored(g) EXCEPT !.spec = n] \in Def
    BY <2>2, <2>3 DEF Def
  <2> QED
    BY <1>3, <2>1, <2>4, BaseUser DEF UpdateNames
<1>4. ASSUME NEW g \in GRD, RemoveGRD(g) PROVE BaseInv'
  BY <1>4, BaseUser DEF RemoveGRD
<1>5. ASSUME NEW g \in GRD, Observe(g) PROVE BaseInv'
  <2>1. nq' \in Seq(GRD) /\ eq' \in Seq(GRD)
    BY <1>5, EnqueueType DEF Observe, TypeOK
  <2>2. TypeOK'
    BY <1>5, <2>1 DEF Observe, TypeOK
  <2>3. \A h \in GRD : pos'[h] \in pos[h] .. Len(hist[h])
    <3>1. ASSUME NEW h \in GRD
          PROVE pos[h] \in Nat /\ pos[h] <= Len(hist[h]) /\ Len(hist[h]) \in Nat
      BY StoredType DEF Positions
    <3>2. pos \in [GRD -> Nat] /\ pos' = [pos EXCEPT ![g] = @ + 1] /\ pos[g] < Len(hist[g])
      BY <1>5 DEF Observe, TypeOK
    <3> QED
      BY <3>1, <3>2
  <2> QED
    BY <1>5, <2>2, <2>3, BaseNoStore DEF Observe
<1>6. ASSUME NEW g \in GRD, Resync(g) PROVE BaseInv'
  <2>1. nq' \in Seq(GRD) /\ eq' \in Seq(GRD)
    BY <1>6, EnqueueType DEF Resync, TypeOK
  <2> QED
    BY <1>6, <2>1 DEF Resync, TypeOK, Positions, BasesListed, ResultIsDef
<1>7. ASSUME NEW g \in GRD, NamingGet(g) PROVE BaseInv'
  <2>1. nq \in Seq(GRD) /\ Tail(nq) \in Seq(GRD)
    BY <1>7 DEF NamingGet, TypeOK
  <2>2. requeueAllOtherGroupGRDs(g) \in SUBSET GRD
    BY DEF requeueAllOtherGroupGRDs
  <2>3. nq' \in Seq(GRD)
    BY <1>7, <2>1, <2>2, EnqueueType DEF NamingGet
  <2>4. \/ UNCHANGED <<npc, nbase>>
        \/ /\ Listed(g) # Absent
           /\ npc' = [npc EXCEPT ![g] = "compute"] /\ nbase' = [nbase EXCEPT ![g] = pos[g]]
    BY <1>7 DEF NamingGet
  <2>5. UNCHANGED <<hist, pos, mut, nres, eq, epc, ebase, faults>>
    BY <1>7 DEF NamingGet, establishingVars
  <2>6. TypeOK'
    BY <2>3, <2>4, <2>5 DEF TypeOK
  <2>7. BasesListed'
    <3>1. /\ npc \in [GRD -> {"idle", "compute", "update"}] /\ nbase \in [GRD -> Nat]
      BY DEF TypeOK
    <3>2. pos[g] \in 1 .. pos[g]
      BY StoredType DEF Positions
    <3> QED
      BY <2>4, <2>5, <3>1, <3>2 DEF BasesListed, Listed
  <2>8. ResultIsDef'
    BY <2>4, <2>5 DEF TypeOK, ResultIsDef
  <2> QED
    BY <2>5, <2>6, <2>7, <2>8 DEF Positions
<1>8. ASSUME NEW g \in GRD, NamingCompute(g) PROVE BaseInv'
  <2> DEFINE d == hist[g][nbase[g]]
             new == calculateNamesAndConditions(d)
  <2>1. d \in Def
    BY <1>8, StoredType DEF NamingCompute, Positions, BasesListed
  <2>2. new \in Def /\ (d.est = "True" => new.est = "True")
    BY <2>1, CalculateType
  <2>3. UNCHANGED <<hist, pos, mut, nq, eq, epc, ebase, faults>>
    BY <1>8 DEF NamingCompute, establishingVars
  <2>4. CASE NamingReturn(g)
    BY <2>3, <2>4 DEF NamingReturn, TypeOK, Positions, BasesListed, ResultIsDef
  <2>5. CASE /\ nres' = [nres EXCEPT ![g] = new]
             /\ npc' = [npc EXCEPT ![g] = "update"]
             /\ UNCHANGED nbase
    <3> HIDE DEF new
    <3>1. TypeOK'
      BY <2>2, <2>3, <2>5 DEF TypeOK
    <3>2. BasesListed'
      BY <1>8, <2>3, <2>5 DEF NamingCompute, TypeOK, BasesListed
    <3>3. ResultIsDef'
      BY <2>2, <2>3, <2>5 DEF TypeOK, ResultIsDef
    <3> QED
      BY <2>3, <3>1, <3>2, <3>3 DEF Positions
  <2> QED
    BY <1>8, <2>4, <2>5 DEF NamingCompute
<1>9. ASSUME NEW g \in GRD, NamingUpdate(g) PROVE BaseInv'
  <2>1. nres[g] \in Def /\ Store(g, nres[g])
    BY <1>9 DEF NamingUpdate, ResultIsDef
  <2>2. hist' \in [GRD -> Seq(Def \cup {Absent})] /\ HistGrows /\ Len(hist'[g]) = Len(hist[g]) + 1
    BY <2>1, StoreStep
  <2>3. requeueAllOtherGroupGRDs(g) \in SUBSET GRD
    BY DEF requeueAllOtherGroupGRDs
  <2>4. nq' \in Seq(GRD)
    BY <1>9, <2>3, EnqueueType DEF NamingUpdate, TypeOK
  <2>5. mut' \in [GRD -> Nat] /\ \A h \in GRD : mut'[h] \in 0 .. Len(hist'[h])
    <3>1. UNCHANGED mut \/ mut' = [mut EXCEPT ![g] = Len(hist[g]) + 1]
      BY <1>9 DEF NamingUpdate
    <3>2. mut \in [GRD -> Nat] /\ \A h \in GRD : mut[h] \in 0 .. Len(hist[h])
      BY DEF TypeOK, Positions
    <3>3. \A h \in GRD : Len(hist[h]) \in Nat /\ Len(hist'[h]) \in Nat /\ Len(hist[h]) <= Len(hist'[h])
      BY <2>2 DEF HistGrows
    <3>4. \A h \in GRD : mut'[h] = mut[h] \/ (h = g /\ mut'[h] = Len(hist[g]) + 1)
      BY <3>1, <3>2
    <3>5. mut' \in [GRD -> Nat]
      BY <3>1, <3>2, <3>3
    <3>6. ASSUME NEW h \in GRD PROVE mut'[h] \in 0 .. Len(hist'[h])
      BY <2>2, <3>2, <3>3, <3>4
    <3> QED
      BY <3>5, <3>6
  <2>6. UNCHANGED <<pos, eq, epc, ebase, faults>>
    BY <1>9 DEF NamingUpdate, establishingVars
  <2>7. NamingReturn(g)
    BY <1>9 DEF NamingUpdate
  <2>8. TypeOK'
    BY <2>2, <2>4, <2>5, <2>6, <2>7 DEF NamingReturn, TypeOK
  <2>9. \A h \in GRD : /\ npc'[h] \in {npc[h], "idle"}
                       /\ npc'[h] # "idle" => nbase'[h] = nbase[h] /\ nres'[h] = nres[h]
    BY <2>7 DEF NamingReturn, TypeOK
  <2>10. Positions' /\ BasesListed' /\ ResultIsDef'
    BY <2>1, <2>5, <2>6, <2>9, BaseStore
  <2> QED
    BY <2>8, <2>10
<1>10. ASSUME NEW g \in GRD, NamingRefused(g) PROVE BaseInv'
  BY <1>10 DEF NamingRefused, NamingReturn, TypeOK, Positions, BasesListed, ResultIsDef, establishingVars
<1>11. ASSUME NEW g \in GRD, NamingError(g) PROVE BaseInv'
  <2>1. nq' \in Seq(GRD)
    BY <1>11, EnqueueType DEF NamingError, TypeOK
  <2>2. TypeOK'
    BY <1>11, <2>1 DEF NamingError, NamingReturn, TypeOK, establishingVars
  <2>3. Positions' /\ ResultIsDef'
    BY <1>11 DEF NamingError, NamingReturn, TypeOK, Positions, ResultIsDef
  <2>4. BasesListed'
    BY <1>11 DEF NamingError, NamingReturn, TypeOK, BasesListed, establishingVars
  <2> QED
    BY <2>2, <2>3, <2>4
<1>12. ASSUME NEW g \in GRD, EstablishGet(g) PROVE BaseInv'
  <2>1. eq \in Seq(GRD) /\ eq' \in Seq(GRD)
    BY <1>12 DEF EstablishGet, TypeOK
  <2>2. \/ UNCHANGED <<epc, ebase>>
        \/ /\ Listed(g) # Absent
           /\ epc' = [epc EXCEPT ![g] = "update"] /\ ebase' = [ebase EXCEPT ![g] = pos[g]]
    BY <1>12 DEF EstablishGet
  <2>3. UNCHANGED <<hist, pos, mut, nq, npc, nbase, nres, faults>>
    BY <1>12 DEF EstablishGet, namingVars
  <2>4. TypeOK'
    BY <2>1, <2>2, <2>3 DEF TypeOK
  <2>5. BasesListed'
    <3>1. /\ epc \in [GRD -> {"idle", "update"}] /\ ebase \in [GRD -> Nat]
      BY DEF TypeOK
    <3>2. pos[g] \in 1 .. pos[g]
      BY StoredType DEF Positions
    <3> QED
      BY <2>2, <2>3, <3>1, <3>2 DEF BasesListed, Listed
  <2> QED
    BY <2>3, <2>4, <2>5 DEF Positions, ResultIsDef
<1>13. ASSUME NEW g \in GRD, EstablishUpdate(g) PROVE BaseInv'
  <2> DEFINE d == [hist[g][ebase[g]] EXCEPT !.est = "True"]
  <2>1. hist[g][ebase[g]] \in Def
    BY <1>13, StoredType DEF EstablishUpdate, Positions, BasesListed
  <2>2. d \in Def
    BY <2>1 DEF Def, Established
  <2>3. Store(g, d)
    BY <1>13 DEF EstablishUpdate
  <2> HIDE DEF d
  <2>4. hist' \in [GRD -> Seq(Def \cup {Absent})] /\ HistGrows
    BY <2>2, <2>3, StoreStep
  <2>5. EstablishReturn(g) /\ UNCHANGED <<pos, mut, nq, npc, nbase, nres, eq, faults>>
    BY <1>13 DEF EstablishUpdate, namingVars
  <2>6. TypeOK'
    BY <2>4, <2>5 DEF EstablishReturn, TypeOK
  <2>7. \A h \in GRD : /\ epc'[h] \in {epc[h], "idle"}
                       /\ epc'[h] # "idle" => ebase'[h] = ebase[h]
    BY <2>5 DEF EstablishReturn, TypeOK
  <2>8. \A h \in GRD : mut'[h] \in 0 .. Len(hist'[h])
    BY <2>4, <2>5 DEF Positions, HistGrows
  <2>9. Positions' /\ BasesListed' /\ ResultIsDef'
    BY <2>2, <2>3, <2>5, <2>7, <2>8, BaseStore
  <2> QED
    BY <2>6, <2>9
<1>14. ASSUME NEW g \in GRD, EstablishRefused(g) PROVE BaseInv'
  BY <1>14 DEF EstablishRefused, EstablishReturn, TypeOK, Positions, BasesListed, ResultIsDef, namingVars
<1>15. ASSUME NEW g \in GRD, EstablishError(g) PROVE BaseInv'
  <2>1. eq' \in Seq(GRD)
    BY <1>15, EnqueueType DEF EstablishError, TypeOK
  <2> QED
    BY <1>15, <2>1 DEF EstablishError, EstablishReturn, TypeOK, Positions, BasesListed, ResultIsDef, namingVars
<1>16. ASSUME Restart PROVE BaseInv'
  <2>1. <<>> \in Seq(GRD)
    OBVIOUS
  <2>2. nq' \in Seq(GRD) /\ eq' \in Seq(GRD)
    BY <1>16, <2>1, EnqueueType DEF Restart
  <2>3. \A g \in GRD : Len(hist[g]) \in Nat /\ 1 <= Len(hist[g])
    BY StoredType
  <2>4. TypeOK'
    BY <1>16, <2>2, <2>3 DEF Restart, TypeOK
  <2>5. Positions'
    BY <1>16, <2>3 DEF Restart, Positions
  <2> QED
    BY <1>16, <2>4, <2>5 DEF Restart, BasesListed, ResultIsDef
<1> QED
  BY <1>1, <1>2, <1>3, <1>4, <1>5, <1>6, <1>7, <1>8, <1>9, <1>10, <1>11, <1>12, <1>13,
     <1>14, <1>15, <1>16 DEF Next

\* Initially nothing is stored but the mark of absence.
LEMMA BaseInit == Init => BaseInv
<1> SUFFICES ASSUME Init PROVE BaseInv
  OBVIOUS
<1>1. <<Absent>> \in Seq(Def \cup {Absent}) /\ Len(<<Absent>>) = 1 /\ <<>> \in Seq(GRD)
  OBVIOUS
<1>2. TypeOK
  BY <1>1 DEF Init, TypeOK
<1> QED
  BY <1>1, <1>2 DEF Init, BaseInv, Positions, BasesListed, ResultIsDef

\* Type correctness: histories hold definitions, queues hold keys, and the
\* workers' copies are what TypeOK says, in every reachable state.
THEOREM TypeCorrect == Spec => []TypeOK
<1>1. Init => BaseInv
  BY BaseInit
<1>2. BaseInv /\ [Next]_vars => BaseInv'
  BY BaseStep
<1>3. BaseInv => TypeOK
  BY DEF BaseInv
<1> QED
  BY <1>1, <1>2, <1>3, PTL DEF Spec

-----------------------------------------------------------------------------
(* Names. *)

\* Absence holds no names, a fresh definition neither, and a change of the spec or
\* of Established leaves the names alone.
LEMMA HeldFacts ==
    ASSUME NEW d \in Def, NEW f \in Field
    PROVE  /\ Held(Absent, f) = {}
           /\ Held(d, f) = UNION {d.acc[x] : x \in Space(f)}
           /\ d.acc = NoNames => Held(d, f) = {}
           /\ \A n \in Names : Held([d EXCEPT !.spec = n], f) = Held(d, f)
           /\ Held([d EXCEPT !.est = "True"], f) = Held(d, f)
<1>1. d # Absent
  BY GRDNamingAssumption
<1>2. Space(f) \subseteq Field
  BY DEF Space, Field
<1>3. Held(Absent, f) = {} /\ Held(d, f) = UNION {d.acc[x] : x \in Space(f)}
  BY <1>1 DEF Held
<1>4. d.acc = NoNames => Held(d, f) = {}
  BY <1>2, <1>3 DEF NoNames
<1>5. ASSUME NEW e \in Def, e.acc = d.acc PROVE Held(e, f) = Held(d, f)
  <2>1. e # Absent
    BY GRDNamingAssumption
  <2> QED
    BY <1>1, <1>5, <2>1 DEF Held
<1>6. ASSUME NEW n \in Names
      PROVE [d EXCEPT !.spec = n] \in Def /\ [d EXCEPT !.spec = n].acc = d.acc
  BY DEF Def
<1>7. [d EXCEPT !.est = "True"] \in Def /\ [d EXCEPT !.est = "True"].acc = d.acc
  BY DEF Def, Established
<1> QED
  BY <1>3, <1>4, <1>5, <1>6, <1>7

\* The worker counts every stored name as used, however far its lister lags.
LEMMA UsedCovers ==
    ASSUME BaseInv, CacheAhead, HeldShrinks, NEW h \in GRD, NEW f \in Field
    PROVE  Held(Stored(h), f) \subseteq Used(f)
<1>1. /\ Len(hist[h]) \in Nat /\ pos[h] \in Nat /\ mut[h] \in Nat
      /\ Listed(h) \in Def \cup {Absent} /\ Known(h) \in Def \cup {Absent}
  BY StoredType DEF BaseInv
<1>2. KnownAt(h) \in 1 .. Len(hist[h])
  BY <1>1 DEF KnownAt, BaseInv, Positions
<1>3. Held(Stored(h), f) \subseteq Held(Known(h), f)
  <2>1. KnownAt(h) \in KnownAt(h) .. Len(hist[h])
    BY <1>1, <1>2
  <2> QED
    BY <2>1 DEF HeldShrinks, Known, KnownAt
<1>4. CASE Listed(h) = Absent
  <2>1. Known(h) = Absent
    BY <1>4 DEF CacheAhead, Known, Listed
  <2> QED
    BY <1>3, <2>1 DEF Held
<1>5. CASE Listed(h) # Absent
  <2>1. Known(h) \in Def
    BY <1>1, <1>5 DEF CacheAhead, Known, Listed
  <2>2. Held(Known(h), f) = UNION {Known(h).acc[x] : x \in Space(f)}
    BY <2>1, HeldFacts
  <2>3. ASSUME NEW x \in Space(f) PROVE Known(h).acc[x] \subseteq Used(f)
    <3>1. h \in {k \in GRD : Listed(k) # Absent}
      BY <1>5
    <3>2. Known(h).acc[x] \in {Known(k).acc[y] : k \in {k \in GRD : Listed(k) # Absent}, y \in Space(f)}
      BY <3>1
    <3> QED
      BY <3>2 DEF Used
  <2>4. ASSUME NEW n \in Held(Known(h), f) PROVE n \in Used(f)
    <3>1. PICK x \in Space(f) : n \in Known(h).acc[x]
      BY <2>2
    <3> QED
      BY <2>3, <3>1
  <2> QED
    BY <1>3, <2>4
<1> QED
  BY <1>4, <1>5

\* What the worker computes from a version that is still stored clashes with no
\* other definition.
LEMMA ComputedDisjoint ==
    ASSUME IInv, NEW g \in GRD, NEW h \in GRD, g # h, Stored(g) \in Def, NEW f \in Field
    PROVE  Held(calculateNamesAndConditions(Stored(g)), f) \cap Held(Stored(h), f) = {}
<1> DEFINE d == Stored(g)
           new == calculateNamesAndConditions(d)
<1>1. new \in Def /\ new.acc = newNames(d)
  BY CalculateType DEF calculateNamesAndConditions
<1> SUFFICES ASSUME NEW n, n \in Held(new, f), n \in Held(Stored(h), f) PROVE FALSE
  OBVIOUS
<1>2. Space(f) \subseteq Field /\ \A x \in Space(f) : Space(x) = Space(f)
  BY DEF Space, Field, ResourceField, KindField
<1>3. PICK x \in Space(f) : n \in newNames(d)[x]
  <2> HIDE DEF new
  <2>1. Held(new, f) = UNION {new.acc[x] : x \in Space(f)}
    BY <1>1, HeldFacts
  <2> QED
    BY <1>1, <2>1
<1>4. n \in IF Clash(d, x) = {} THEN d.spec[x] ELSE d.acc[x]
  BY <1>2, <1>3 DEF newNames
<1>5. CASE n \in d.acc[x]
  <2>1. Held(d, f) = UNION {d.acc[y] : y \in Space(f)}
    BY HeldFacts
  <2>2. n \in Held(d, f)
    BY <1>5, <2>1
  <2> QED
    BY <2>2 DEF IInv, NamingInv, NamesExclusive
<1>6. CASE n \notin d.acc[x]
  <2>1. Clash(d, x) = {} /\ n \in d.spec[x]
    BY <1>4, <1>6
  <2>2. n \notin Used(x)
    BY <1>6, <2>1 DEF Clash
  <2>3. Used(x) = Used(f)
    BY <1>2 DEF Used
  <2> QED
    BY <2>2, <2>3, UsedCovers DEF IInv, NamingInv
<1> QED
  BY <1>5, <1>6

\* A step that stores nothing, moves neither lister nor cache and at most ends a
\* sync.
LEMMA NamingQuiet ==
    ASSUME IInv, UNCHANGED <<hist, pos, mut>>,
           \A h \in GRD : /\ npc'[h] \in {npc[h], "idle"}
                          /\ npc'[h] # "idle" => nbase'[h] = nbase[h] /\ nres'[h] = nres[h]
    PROVE  NamingInv'
<1>1. CacheAhead' /\ HeldShrinks' /\ NamesExclusive'
  BY DEF IInv, NamingInv, CacheAhead, HeldShrinks, KnownAt, NamesExclusive, Stored, Listed
<1>2. OneWorker'
  BY DEF IInv, NamingInv, OneWorker
<1>3. ResultDisjoint'
  <2>1. \A g \in GRD : npc'[g] = "update" =>
            npc[g] = "update" /\ nbase'[g] = nbase[g] /\ nres'[g] = nres[g]
    OBVIOUS
  <2>2. \A h \in GRD : Stored(h)' = Stored(h)
    BY DEF Stored
  <2> QED
    BY <2>1, <2>2 DEF IInv, NamingInv, ResultDisjoint
<1> QED
  BY <1>1, <1>2, <1>3 DEF NamingInv

\* A version that holds no name its predecessor did not hold: users, and the
\* establishing controller.
LEMMA NamingShrinks ==
    ASSUME IInv, NEW g \in GRD, NEW d \in Def \cup {Absent}, Store(g, d),
           \A f \in Field : Held(d, f) \subseteq Held(Stored(g), f),
           UNCHANGED <<pos, mut, npc, nbase, nres>>
    PROVE  NamingInv'
<1>1. /\ HistGrows /\ Len(hist'[g]) = Len(hist[g]) + 1
      /\ hist'[g][Len(hist[g]) + 1] = d
      /\ \A h \in GRD : h # g => hist'[h] = hist[h]
  BY StoreStep DEF IInv, BaseInv
<1>2. ASSUME NEW h \in GRD
      PROVE  /\ Len(hist[h]) \in Nat /\ pos[h] \in 1 .. Len(hist[h]) /\ mut[h] \in 0 .. Len(hist[h])
             /\ pos[h] \in Nat /\ mut[h] \in Nat
  BY StoredType DEF IInv, BaseInv, Positions
<1>3. Stored(g)' = d /\ \A h \in GRD : h # g => Stored(h)' = Stored(h)
  BY <1>1 DEF Stored
<1>4. \A h \in GRD, f \in Field : Held(Stored(h)', f) \subseteq Held(Stored(h), f)
  BY <1>3
<1>5. CacheAhead'
  <2> SUFFICES ASSUME NEW h \in GRD, mut[h] > pos[h]
               PROVE  mut[h] = pos[h] + 1 /\ hist'[h][pos[h]] # Absent /\ hist'[h][mut[h]] # Absent
    BY DEF CacheAhead, Listed
  <2>1. mut[h] = pos[h] + 1 /\ hist[h][pos[h]] # Absent /\ hist[h][mut[h]] # Absent
    BY DEF IInv, NamingInv, CacheAhead, Listed
  <2>2. mut[h] \in 1 .. Len(hist[h]) /\ pos[h] \in 1 .. Len(hist[h])
    BY <1>2, <2>1
  <2> QED
    BY <1>1, <2>1, <2>2 DEF HistGrows
<1>6. HeldShrinks'
  <2> SUFFICES ASSUME NEW h \in GRD, NEW f \in Field, NEW i \in KnownAt(h) .. Len(hist'[h])
               PROVE  Held(Stored(h)', f) \subseteq Held(hist'[h][i], f)
    BY DEF HeldShrinks, KnownAt
  <2>1. KnownAt(h) \in 1 .. Len(hist[h])
    BY <1>2 DEF KnownAt
  <2>2. CASE i \in KnownAt(h) .. Len(hist[h])
    <3>1. Held(Stored(h), f) \subseteq Held(hist[h][i], f)
      BY <2>2 DEF IInv, NamingInv, HeldShrinks
    <3>2. i \in 1 .. Len(hist[h])
      BY <1>2, <2>1, <2>2
    <3>3. hist'[h][i] = hist[h][i]
      BY <1>1, <3>2 DEF HistGrows
    <3> QED
      BY <1>4, <3>1, <3>3
  <2>3. CASE i \notin KnownAt(h) .. Len(hist[h])
    <3>1. h = g
      BY <1>1, <2>3
    <3>2. i = Len(hist[g]) + 1
      BY <1>1, <1>2, <2>1, <2>3, <3>1
    <3> QED
      BY <1>1, <1>3, <3>1, <3>2
  <2> QED
    BY <2>2, <2>3
<1>7. OneWorker'
  BY DEF IInv, NamingInv, OneWorker
<1>8. ResultDisjoint'
  <2> SUFFICES ASSUME NEW p \in GRD, npc[p] = "update", Len(hist'[p]) = nbase[p],
                      NEW h \in GRD, NEW f \in Field, p # h
               PROVE  Held(nres[p], f) \cap Held(Stored(h)', f) = {}
    BY DEF ResultDisjoint
  <2>1. nbase[p] \in 1 .. pos[p]
    BY DEF IInv, BaseInv, BasesListed
  <2>2. p # g
    BY <1>1, <1>2, <2>1
  <2>3. Held(nres[p], f) \cap Held(Stored(h), f) = {}
    BY <1>1, <2>2 DEF IInv, NamingInv, ResultDisjoint
  <2> QED
    BY <1>4, <2>3
<1>9. NamesExclusive'
  <2> SUFFICES ASSUME NEW p \in GRD, NEW h \in GRD, p # h, NEW f \in Field
               PROVE  Held(Stored(p)', f) \cap Held(Stored(h)', f) = {}
    BY DEF NamesExclusive
  <2>1. Held(Stored(p), f) \cap Held(Stored(h), f) = {}
    BY DEF IInv, NamingInv, NamesExclusive
  <2> QED
    BY <1>4, <2>1
<1> QED
  BY <1>5, <1>6, <1>7, <1>8, <1>9 DEF NamingInv

\* The worker's own update adds names: ResultDisjoint is what makes it safe, and
\* the mutation cache is what makes it known.
LEMMA NamingUpdateStep ==
    ASSUME IInv, ~FileBackend, NEW g \in GRD, NamingUpdate(g)
    PROVE  NamingInv'
<1>1. nres[g] \in Def /\ nres[g] # Absent
  BY GRDNamingAssumption DEF IInv, BaseInv, ResultIsDef, NamingUpdate
<1>2. /\ HistGrows /\ Len(hist'[g]) = Len(hist[g]) + 1
      /\ hist'[g][Len(hist[g]) + 1] = nres[g]
      /\ \A h \in GRD : h # g => hist'[h] = hist[h]
  BY <1>1, StoreStep DEF NamingUpdate, IInv, BaseInv
<1>3. ASSUME NEW h \in GRD
      PROVE  /\ Len(hist[h]) \in Nat /\ pos[h] \in 1 .. Len(hist[h])
             /\ pos[h] \in Nat /\ mut[h] \in Nat
  BY StoredType DEF IInv, BaseInv, Positions
<1>4. /\ pos[g] = Len(hist[g]) /\ nbase[g] = Len(hist[g]) /\ Stored(g) # Absent
      /\ npc[g] = "update"
  <2>1. nbase[g] \in 1 .. pos[g]
    BY DEF NamingUpdate, IInv, BaseInv, BasesListed
  <2> QED
    BY <1>3, <2>1 DEF NamingUpdate, Current
<1>5. UNCHANGED pos /\ mut'[g] = Len(hist[g]) + 1 /\ \A h \in GRD : h # g => mut'[h] = mut[h]
  BY DEF NamingUpdate, IInv, BaseInv, TypeOK
<1>6. npc'[g] = "idle" /\ \A h \in GRD : h # g => npc'[h] = npc[h]
  BY DEF NamingUpdate, NamingReturn, IInv, BaseInv, TypeOK
<1>7. Stored(g)' = nres[g] /\ \A h \in GRD : h # g => Stored(h)' = Stored(h)
  BY <1>2 DEF Stored
<1>8. CacheAhead'
  <2>1. Listed(g)' # Absent
    BY <1>2, <1>3, <1>4, <1>5 DEF HistGrows, Listed, Stored
  <2>2. hist'[g][mut'[g]] # Absent
    BY <1>1, <1>2, <1>5
  <2>3. mut'[g] = pos'[g] + 1
    BY <1>4, <1>5
  <2>4. ASSUME NEW h \in GRD, h # g, mut'[h] > pos'[h]
        PROVE  mut'[h] = pos'[h] + 1 /\ Listed(h)' # Absent /\ hist'[h][mut'[h]] # Absent
    BY <1>2, <1>5, <2>4 DEF IInv, NamingInv, CacheAhead, Listed
  <2> QED
    BY <2>1, <2>2, <2>3, <2>4 DEF CacheAhead
<1>9. HeldShrinks'
  <2> SUFFICES ASSUME NEW h \in GRD, NEW f \in Field, NEW i \in KnownAt(h)' .. Len(hist'[h])
               PROVE  Held(Stored(h)', f) \subseteq Held(hist'[h][i], f)
    BY DEF HeldShrinks
  <2>1. CASE h = g
    <3>1. KnownAt(g)' = Len(hist[g]) + 1
      BY <1>3, <1>4, <1>5 DEF KnownAt
    <3>2. i = Len(hist[g]) + 1
      BY <1>2, <1>3, <2>1, <3>1
    <3> QED
      BY <1>2, <1>7, <2>1, <3>2
  <2>2. CASE h # g
    <3>1. KnownAt(h)' = KnownAt(h)
      BY <1>5, <2>2 DEF KnownAt
    <3> QED
      BY <1>2, <1>7, <2>2, <3>1 DEF IInv, NamingInv, HeldShrinks
  <2> QED
    BY <2>1, <2>2
<1>10. \A h \in GRD : npc'[h] = "idle"
  BY <1>4, <1>6 DEF IInv, BaseInv, TypeOK, NamingInv, OneWorker
<1>11. NamesExclusive'
  <2>1. \A h \in GRD, f \in Field : g # h => Held(nres[g], f) \cap Held(Stored(h), f) = {}
    BY <1>4 DEF IInv, NamingInv, ResultDisjoint
  <2>2. \A p, h \in GRD : p # h => \A f \in Field : Held(Stored(p), f) \cap Held(Stored(h), f) = {}
    BY DEF IInv, NamingInv, NamesExclusive
  <2> SUFFICES ASSUME NEW p \in GRD, NEW h \in GRD, p # h, NEW f \in Field
               PROVE  Held(Stored(p)', f) \cap Held(Stored(h)', f) = {}
    BY DEF NamesExclusive
  <2> QED
    BY <1>7, <2>1, <2>2
<1> QED
  BY <1>8, <1>9, <1>10, <1>11 DEF NamingInv, OneWorker, ResultDisjoint

\* Every step keeps the invariant, if UpdateStatus reports what it did.
LEMMA NamingStep ==
    ASSUME ~FileBackend, IInv, [Next]_vars
    PROVE  NamingInv'
<1>1. CASE UNCHANGED vars
  BY <1>1, NamingQuiet DEF vars, namingVars
<1>2. ASSUME NEW g \in GRD, CreateGRD(g) PROVE NamingInv'
  <2>1. PICK n \in Requests[g] :
            Store(g, [spec |-> n, acc |-> NoNames, est |-> "Unset",
                      na |-> [reason |-> "Unset", names |-> {}]])
    BY <1>2 DEF CreateGRD
  <2> DEFINE d == [spec |-> n, acc |-> NoNames, est |-> "Unset",
                   na |-> [reason |-> "Unset", names |-> {}]]
  <2>2. n \in Names
    BY GRDNamingAssumption
  <2>3. d \in Def /\ d.acc = NoNames
    BY <2>2, NewDef
  <2> HIDE DEF d
  <2>4. \A f \in Field : Held(d, f) = {}
    BY <2>3, HeldFacts
  <2>5. Store(g, d)
    BY <2>1 DEF d
  <2> QED
    BY <1>2, <2>3, <2>4, <2>5, NamingShrinks DEF CreateGRD, namingVars
<1>3. ASSUME NEW g \in GRD, UpdateNames(g) PROVE NamingInv'
  <2>1. PICK n \in Requests[g] : Store(g, [Stored(g) EXCEPT !.spec = n])
    BY <1>3 DEF UpdateNames
  <2>2. n \in Names
    BY GRDNamingAssumption
  <2>3. Stored(g) \in Def
    BY <1>3, StoredType DEF UpdateNames, IInv, BaseInv
  <2>4. [Stored(g) EXCEPT !.spec = n] \in Def
    BY <2>2, <2>3 DEF Def
  <2>5. \A f \in Field : Held([Stored(g) EXCEPT !.spec = n], f) = Held(Stored(g), f)
    BY <2>2, <2>3, HeldFacts
  <2> QED
    BY <1>3, <2>1, <2>4, <2>5, NamingShrinks DEF UpdateNames, namingVars
<1>4. ASSUME NEW g \in GRD, RemoveGRD(g) PROVE NamingInv'
  <2>1. \A f \in Field : Held(Absent, f) = {}
    BY DEF Held
  <2> QED
    BY <1>4, <2>1, NamingShrinks DEF RemoveGRD, namingVars
<1>5. ASSUME NEW g \in GRD, Observe(g) PROVE NamingInv'
  <2>1. UNCHANGED <<hist, mut, npc, nbase, nres>> /\ pos'[g] = pos[g] + 1
        /\ \A h \in GRD : h # g => pos'[h] = pos[h]
    BY <1>5 DEF Observe, IInv, BaseInv, TypeOK
  <2>2. \A h \in GRD : Stored(h)' = Stored(h)
    BY <2>1 DEF Stored
  <2>3. /\ pos[g] \in Nat /\ mut[g] \in Nat /\ Len(hist[g]) \in Nat
        /\ mut[g] > pos[g] => mut[g] = pos[g] + 1
    BY StoredType DEF IInv, BaseInv, NamingInv, CacheAhead
  <2>4. CacheAhead'
    BY <2>1, <2>3 DEF IInv, NamingInv, CacheAhead, Listed
  <2>5. HeldShrinks'
    <3> SUFFICES ASSUME NEW h \in GRD, NEW f \in Field, NEW i \in KnownAt(h)' .. Len(hist[h])
                 PROVE  Held(Stored(h), f) \subseteq Held(hist[h][i], f)
      BY <2>1, <2>2 DEF HeldShrinks
    <3>1. i \in KnownAt(h) .. Len(hist[h])
      <4>1. CASE h = g
        BY <2>1, <2>3, <4>1 DEF KnownAt
      <4>2. CASE h # g
        BY <2>1, <4>2 DEF KnownAt
      <4> QED
        BY <4>1, <4>2
    <3> QED
      BY <3>1 DEF IInv, NamingInv, HeldShrinks
  <2>6. OneWorker'
    BY <2>1 DEF IInv, NamingInv, OneWorker
  <2>7. ResultDisjoint' /\ NamesExclusive'
    BY <2>1, <2>2 DEF IInv, NamingInv, ResultDisjoint, NamesExclusive
  <2> QED
    BY <2>4, <2>5, <2>6, <2>7 DEF NamingInv
<1>6. ASSUME NEW g \in GRD, Resync(g) PROVE NamingInv'
  BY <1>6, NamingQuiet DEF Resync
<1>7. ASSUME NEW g \in GRD, NamingGet(g) PROVE NamingInv'
  <2>1. UNCHANGED <<hist, pos, mut>>
    BY <1>7 DEF NamingGet
  <2>2. \/ UNCHANGED npc
        \/ npc' = [npc EXCEPT ![g] = "compute"]
    BY <1>7 DEF NamingGet
  <2>3. \A h \in GRD : npc[h] = "idle" /\ (npc'[h] = "idle" \/ (h = g /\ npc'[h] = "compute"))
    BY <1>7, <2>2 DEF NamingGet, IInv, BaseInv, TypeOK
  <2>4. OneWorker' /\ ResultDisjoint'
    BY <2>3 DEF OneWorker, ResultDisjoint
  <2>5. CacheAhead' /\ HeldShrinks' /\ NamesExclusive'
    BY <2>1 DEF IInv, NamingInv, CacheAhead, HeldShrinks, KnownAt, NamesExclusive, Stored, Listed
  <2> QED
    BY <2>4, <2>5 DEF NamingInv
<1>8. ASSUME NEW g \in GRD, NamingCompute(g) PROVE NamingInv'
  <2> DEFINE d == hist[g][nbase[g]]
             new == calculateNamesAndConditions(d)
  <2>1. UNCHANGED <<hist, pos, mut>> /\ npc[g] = "compute"
    BY <1>8 DEF NamingCompute
  <2>2. CASE NamingReturn(g)
    <3>1. \A h \in GRD : /\ npc'[h] \in {npc[h], "idle"}
                         /\ npc'[h] # "idle" => nbase'[h] = nbase[h] /\ nres'[h] = nres[h]
      BY <2>2 DEF NamingReturn, IInv, BaseInv, TypeOK
    <3> QED
      BY <2>1, <3>1, NamingQuiet
  <2>3. CASE /\ nres' = [nres EXCEPT ![g] = new]
             /\ npc' = [npc EXCEPT ![g] = "update"]
             /\ UNCHANGED nbase
    <3> HIDE DEF new
    <3>1. /\ npc'[g] = "update" /\ nres'[g] = new
          /\ \A h \in GRD : h # g => npc'[h] = npc[h]
      BY <2>3 DEF IInv, BaseInv, TypeOK
    <3>2. \A h \in GRD : h # g => npc[h] = "idle"
      BY <2>1 DEF IInv, NamingInv, OneWorker
    <3>3. OneWorker'
      BY <3>1, <3>2 DEF OneWorker
    <3>4. CacheAhead' /\ HeldShrinks' /\ NamesExclusive'
      BY <2>1 DEF IInv, NamingInv, CacheAhead, HeldShrinks, KnownAt, NamesExclusive, Stored, Listed
    <3>5. ASSUME Len(hist[g]) = nbase[g], NEW h \in GRD, NEW f \in Field, g # h
          PROVE  Held(new, f) \cap Held(Stored(h), f) = {}
      <4>1. d = Stored(g)
        BY <3>5 DEF Stored
      <4>2. d \in Def
        <5>1. d # Absent
          BY <2>1 DEF IInv, BaseInv, BasesListed
        <5>2. Stored(g) \in Def \cup {Absent}
          BY StoredType DEF IInv, BaseInv
        <5> QED
          BY <4>1, <5>1, <5>2
      <4> QED
        BY <3>5, <4>1, <4>2, ComputedDisjoint DEF new
    <3>6. \A h \in GRD : Stored(h)' = Stored(h)
      BY <2>1 DEF Stored
    <3>7. ResultDisjoint'
      BY <2>1, <2>3, <3>1, <3>2, <3>5, <3>6 DEF ResultDisjoint
    <3> QED
      BY <3>3, <3>4, <3>7 DEF NamingInv
  <2> QED
    BY <1>8, <2>2, <2>3 DEF NamingCompute
<1>9. ASSUME NEW g \in GRD, NamingUpdate(g) PROVE NamingInv'
  BY <1>9, NamingUpdateStep
<1>10. ASSUME NEW g \in GRD, NamingRefused(g) \/ NamingError(g) PROVE NamingInv'
  <2>1. UNCHANGED <<hist, pos, mut>> /\ NamingReturn(g)
    BY <1>10 DEF NamingRefused, NamingError
  <2>2. \A h \in GRD : /\ npc'[h] \in {npc[h], "idle"}
                       /\ npc'[h] # "idle" => nbase'[h] = nbase[h] /\ nres'[h] = nres[h]
    BY <2>1 DEF NamingReturn, IInv, BaseInv, TypeOK
  <2> QED
    BY <2>1, <2>2, NamingQuiet
<1>11. ASSUME NEW g \in GRD, EstablishGet(g) \/ EstablishRefused(g) \/ EstablishError(g)
       PROVE  NamingInv'
  BY <1>11, NamingQuiet DEF EstablishGet, EstablishRefused, EstablishError, namingVars
<1>12. ASSUME NEW g \in GRD, EstablishUpdate(g) PROVE NamingInv'
  <2> DEFINE b == hist[g][ebase[g]]
  <2>1. b \in Def /\ b = Stored(g)
    <3>1. ebase[g] = Len(hist[g]) /\ Stored(g) # Absent
      BY <1>12 DEF EstablishUpdate, Current
    <3>2. Stored(g) \in Def \cup {Absent}
      BY StoredType DEF IInv, BaseInv
    <3> QED
      BY <3>1, <3>2 DEF Stored
  <2>2. [b EXCEPT !.est = "True"] \in Def
    BY <2>1 DEF Def, Established
  <2>3. \A f \in Field : Held([b EXCEPT !.est = "True"], f) = Held(Stored(g), f)
    BY <2>1, HeldFacts
  <2> QED
    BY <1>12, <2>2, <2>3, NamingShrinks DEF EstablishUpdate, namingVars
<1>13. ASSUME Restart PROVE NamingInv'
  <2>1. \A h \in GRD : /\ Len(hist[h]) \in Nat /\ pos'[h] = Len(hist[h])
                       /\ mut'[h] = 0 /\ npc'[h] = "idle"
    BY <1>13, StoredType DEF Restart, IInv, BaseInv
  <2>2. UNCHANGED hist /\ \A h \in GRD : Stored(h)' = Stored(h)
    BY <1>13 DEF Restart, Stored
  <2>3. CacheAhead'
    BY <2>1 DEF CacheAhead
  <2>4. HeldShrinks'
    <3> SUFFICES ASSUME NEW h \in GRD, NEW f \in Field, NEW i \in KnownAt(h)' .. Len(hist[h])
                 PROVE  Held(Stored(h), f) \subseteq Held(hist[h][i], f)
      BY <2>2 DEF HeldShrinks
    <3>1. i = Len(hist[h])
      BY <2>1 DEF KnownAt
    <3> QED
      BY <3>1 DEF Stored
  <2>5. OneWorker' /\ ResultDisjoint'
    BY <2>1 DEF OneWorker, ResultDisjoint
  <2>6. NamesExclusive'
    BY <2>2 DEF IInv, NamingInv, NamesExclusive
  <2> QED
    BY <2>3, <2>4, <2>5, <2>6 DEF NamingInv
<1> QED
  BY <1>1, <1>2, <1>3, <1>4, <1>5, <1>6, <1>7, <1>8, <1>9, <1>10, <1>11, <1>12, <1>13 DEF Next

\* The names accepted by stored definitions stay disjoint: with a backend that
\* answers truthfully, one worker and a mutation cache that keeps its entries,
\* a lagging lister cannot make getAcceptedNamesForGroup hand out a name twice.
THEOREM NamesStayExclusive ==
    ASSUME ~FileBackend
    PROVE  Spec => []NamesExclusive
<1>1. Init => IInv
  <2> SUFFICES ASSUME Init PROVE IInv
    OBVIOUS
  <2>1. BaseInv
    BY BaseInit
  <2>2. \A g \in GRD : hist[g] = <<Absent>> /\ pos[g] = 1 /\ mut[g] = 0 /\ npc[g] = "idle"
    BY DEF Init
  <2>3. ASSUME NEW g \in GRD
        PROVE  Stored(g) = Absent /\ Len(hist[g]) = 1 /\ KnownAt(g) = 1 /\ hist[g][1] = Absent
    <3>1. Len(hist[g]) = 1 /\ hist[g][1] = Absent
      BY <2>2
    <3>2. KnownAt(g) = 1
      BY <2>2 DEF KnownAt
    <3> QED
      BY <3>1, <3>2 DEF Stored
  <2>4. CacheAhead /\ OneWorker /\ ResultDisjoint
    BY <2>2 DEF CacheAhead, OneWorker, ResultDisjoint
  <2>5. HeldShrinks /\ NamesExclusive
    BY <2>3 DEF HeldShrinks, NamesExclusive, Held
  <2> QED
    BY <2>1, <2>4, <2>5 DEF IInv, NamingInv
<1>2. IInv /\ [Next]_vars => IInv'
  BY BaseStep, NamingStep DEF IInv
<1>3. IInv => NamesExclusive
  BY DEF IInv, NamingInv
<1> QED
  BY <1>1, <1>2, <1>3, PTL DEF Spec

\* A definition that is Established stays so until it is removed: the status
\* updates of both controllers write copies of what they read earlier, but none
\* of them is accepted unless that is still the stored version.
THEOREM EstablishedStaysTrue == Spec => EstablishedStays
<1> DEFINE Stays == \A g \in GRD : Stored(g) # Absent /\ Stored(g).est = "True"
                       => Stored(g)' = Absent \/ Stored(g)'.est = "True"
<1>1. BaseInv /\ Next => Stays
  <2> SUFFICES ASSUME BaseInv, Next, NEW g \in GRD, Stored(g) # Absent, Stored(g).est = "True"
               PROVE  Stored(g)' = Absent \/ Stored(g)'.est = "True"
    OBVIOUS
  <2>1. ASSUME NEW h \in GRD, NEW d \in Def \cup {Absent}, Store(h, d),
               h = g => d = Absent \/ d.est = "True"
        PROVE  Stored(g)' = Absent \/ Stored(g)'.est = "True"
    BY <2>1, StoreStep DEF Stored, BaseInv
  <2>2. Stored(g) \in Def
    BY StoredType DEF BaseInv
  <2>3. CASE UNCHANGED hist
    BY <2>3 DEF Stored
  <2>4. ASSUME NEW h \in GRD, CreateGRD(h) PROVE Stored(g)' = Absent \/ Stored(g)'.est = "True"
    <3>1. PICK n \in Requests[h] :
              Store(h, [spec |-> n, acc |-> NoNames, est |-> "Unset",
                        na |-> [reason |-> "Unset", names |-> {}]])
      BY <2>4 DEF CreateGRD
    <3>2. n \in Names /\ h # g
      BY <2>4, GRDNamingAssumption DEF CreateGRD
    <3> QED
      BY <2>1, <3>1, <3>2, NewDef
  <2>5. ASSUME NEW h \in GRD, UpdateNames(h) PROVE Stored(g)' = Absent \/ Stored(g)'.est = "True"
    <3>1. PICK n \in Requests[h] : Store(h, [Stored(h) EXCEPT !.spec = n])
      BY <2>5 DEF UpdateNames
    <3>2. n \in Names
      BY GRDNamingAssumption
    <3>3. Stored(h) \in Def
      BY <2>5, StoredType DEF UpdateNames, BaseInv
    <3>4. /\ [Stored(h) EXCEPT !.spec = n] \in Def
          /\ [Stored(h) EXCEPT !.spec = n].est = Stored(h).est
      BY <3>2, <3>3 DEF Def
    <3> QED
      BY <2>1, <3>1, <3>4
  <2>6. ASSUME NEW h \in GRD, RemoveGRD(h) PROVE Stored(g)' = Absent \/ Stored(g)'.est = "True"
    BY <2>1, <2>6 DEF RemoveGRD
  <2>7. ASSUME NEW h \in GRD, NamingUpdate(h) PROVE Stored(g)' = Absent \/ Stored(g)'.est = "True"
    <3>1. nbase[h] = Len(hist[h]) /\ nres[h] \in Def /\ Store(h, nres[h])
      BY <2>7 DEF NamingUpdate, Current, BaseInv, ResultIsDef
    <3>2. h = g => nres[h].est = "True"
      BY <2>7, <3>1 DEF NamingUpdate, BaseInv, ResultIsDef, Stored
    <3> QED
      BY <2>1, <3>1, <3>2
  <2>8. ASSUME NEW h \in GRD, EstablishUpdate(h) PROVE Stored(g)' = Absent \/ Stored(g)'.est = "True"
    <3>1. ebase[h] = Len(hist[h]) /\ Stored(h) # Absent
      BY <2>8 DEF EstablishUpdate, Current
    <3>2. hist[h][ebase[h]] \in Def
      BY <3>1, StoredType DEF BaseInv, Stored
    <3>3. /\ [hist[h][ebase[h]] EXCEPT !.est = "True"] \in Def
          /\ [hist[h][ebase[h]] EXCEPT !.est = "True"].est = "True"
      BY <3>2 DEF Def, Established
    <3> QED
      BY <2>1, <2>8, <3>3 DEF EstablishUpdate
  <2>9. ASSUME NEW h \in GRD,
               \/ Observe(h) \/ Resync(h) \/ NamingGet(h) \/ NamingCompute(h)
               \/ NamingRefused(h) \/ NamingError(h)
               \/ EstablishGet(h) \/ EstablishRefused(h) \/ EstablishError(h)
        PROVE  UNCHANGED hist
    BY <2>9 DEF Observe, Resync, NamingGet, NamingCompute, NamingRefused, NamingError,
                EstablishGet, EstablishRefused, EstablishError
  <2>10. Restart => UNCHANGED hist
    BY DEF Restart
  <2> QED
    BY <2>3, <2>4, <2>5, <2>6, <2>7, <2>8, <2>9, <2>10 DEF Next
<1>2. BaseInv /\ [Next]_vars => [Stays]_vars
  BY <1>1
<1>3. Init => BaseInv
  BY BaseInit
<1>4. BaseInv /\ [Next]_vars => BaseInv'
  BY BaseStep
<1> QED
  BY <1>2, <1>3, <1>4, PTL DEF Spec, EstablishedStays
=============================================================================
