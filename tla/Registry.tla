------------------------------ MODULE Registry ------------------------------
(***************************************************************************)
(* The registries: one definition and one instance of it, read and written *)
(* by clients through the main and the status endpoint, the instance       *)
(* through every version that the definition serves.  What the strategies  *)
(* do to an object on its way in, and what the generic store does around   *)
(* them: the check of the resource version, and no write without a change. *)
(* The codec of instances converts nothing.                                *)
(***************************************************************************)
EXTENDS GRDConversion

CONSTANTS
    Client, Version,
    Subs,          \* subresources of a version
    DefSpecs,      \* v1 specs that clients write
    Labels,        \* metadata that clients write
    Values,        \* contents and statuses that clients write
    MaxRev         \* bound on the revisions of the store

VARIABLES
    rev,           \* the revision of the store
    def, inst,     \* as stored; Nil if there is none
    dcopy, icopy,  \* per client: what it read last
    wasStorage     \* the versions that were the storage version, since a status was last
                   \* written without them

vars == <<rev, def, inst, dcopy, icopy, wasStorage>>

\* The spec of a definition, as far as it matters here.
GrafanaResourceDefinitionSpec ==
    [names : [kind : STRING, singular : STRING, listKind : STRING], preserve : BOOLEAN,
     versions : Seq([name : Version, served : BOOLEAN, storage : BOOLEAN, subs : Subs \cup {Nil}])]

Instances ==
    [rev : 1..MaxRev, born : 1..MaxRev, gen : 1..MaxRev, meta : Labels,
     version : Version, content : Values, status : Values \cup {Nil}]

Definitions ==
    [rev : 1..MaxRev, born : 1..MaxRev, gen : 1..MaxRev, meta : Labels,
     spec : {SetDefaultsSpec(s) : s \in DefSpecs},
     status : [cond : Values \cup {Nil}, stored : SUBSET Version]]

ASSUME RegistryAssumption ==
    /\ DefSpecs \subseteq GrafanaResourceDefinitionSpec /\ MaxRev \in Nat
    /\ Nil \notin Labels \cup Values \cup Version \cup Instances \cup Definitions

RegistryTypeOK ==
    /\ rev \in 0..MaxRev /\ wasStorage \subseteq Version
    /\ def \in Definitions \cup {Nil} /\ inst \in Instances \cup {Nil}
    /\ \A c \in Client : dcopy[c] \in Definitions \cup {Nil} /\ icopy[c] \in Instances \cup {Nil}

Init ==
    /\ rev = 0 /\ def = Nil /\ inst = Nil /\ wasStorage = {}
    /\ dcopy = [c \in Client |-> Nil] /\ icopy = [c \in Client |-> Nil]

-----------------------------------------------------------------------------
(***************************************************************************)
(* Strategies.  new and old are in memory; BeforeUpdate has already put    *)
(* the old generation into new.                                            *)
(***************************************************************************)
\* Seeded fault: only the present one is listed.
StoredNow(o) == [o EXCEPT !.status.stored = GetGRDStorageVersion(o.spec.versions)]

\* The storage version is listed among the stored ones.
Stored(o) == [o EXCEPT !.status.stored = @ \cup GetGRDStorageVersion(o.spec.versions)]

DefPrepareForCreate(o) == Stored([o EXCEPT !.status = [cond |-> Nil, stored |-> {}], !.gen = 1])

\* Seeded fault: the status of the request is taken.
DefPrepareForUpdateAll(new, old) ==
    Stored([new EXCEPT !.gen = IF new.spec # old.spec THEN old.gen + 1 ELSE old.gen])

DefPrepareForUpdate(new, old) ==
    Stored([new EXCEPT !.status = old.status, !.gen = IF new.spec # old.spec THEN old.gen + 1 ELSE old.gen])

\* The metadata is reset to itself, not to that of the old object.
DefStatusPrepareForUpdate(new, old) == [new EXCEPT !.spec = old.spec]

\* The status is a subresource of every version: no strategy is made without.
InstPrepareForCreate(o) == [o EXCEPT !.status = Nil, !.gen = 1]

\* Seeded fault: a change of version is none.
copyContent(o) == <<o.content, o.status>>

copyNonMetadata(o) == <<o.version, o.content, o.status>>

InstPrepareForUpdate(new, old) ==
    LET kept == [new EXCEPT !.status = old.status]
    IN [kept EXCEPT !.gen = IF copyNonMetadata(kept) # copyNonMetadata(old) THEN old.gen + 1 ELSE old.gen]

InstStatusPrepareForUpdate(new, old) == [old EXCEPT !.status = new.status]

-----------------------------------------------------------------------------
(***************************************************************************)
(* The generic store.  No object is created by an update, and none is      *)
(* updated without a resource version, which must be the stored one.       *)
(***************************************************************************)
Conditional(body, stored) == stored # Nil /\ body.rev = stored.rev

\* A body takes what no request may change from the stored object.
BeforeUpdate(body, old) == [body EXCEPT !.gen = old.gen, !.born = old.born]

DefUpdated(body) ==
    LET old == Decode(def) IN Encode(DefPrepareForUpdate(BeforeUpdate(Decode(body), old), old))
DefStatusUpdated(body) ==
    LET old == Decode(def) IN Encode(DefStatusPrepareForUpdate(BeforeUpdate(Decode(body), old), old))
InstUpdated(body) == InstPrepareForUpdate(BeforeUpdate(body, inst), inst)
InstStatusUpdated(body) == InstStatusPrepareForUpdate(BeforeUpdate(body, inst), inst)

\* What is not changed is not written.  (At the bound no write is tried at all.)
WriteDef(new) ==
    /\ rev < MaxRev
    /\ \/ new = def /\ UNCHANGED <<rev, def>>
       \/ new # def /\ rev' = rev + 1 /\ def' = [new EXCEPT !.rev = rev + 1]

WriteInst(new) ==
    /\ rev < MaxRev
    /\ \/ new = inst /\ UNCHANGED <<rev, inst>>
       \/ new # inst /\ rev' = rev + 1 /\ inst' = [new EXCEPT !.rev = rev + 1]

-----------------------------------------------------------------------------
(***************************************************************************)
(* Requests.                                                               *)
(***************************************************************************)
\* A client may change whatever it has read, the list of stored versions included.
DefBody(o, s, m, v, l) == [o EXCEPT !.spec = s, !.meta = m, !.status = [cond |-> v, stored |-> l]]
DefBodies(o) ==
    {DefBody(o, s, m, v, l) :
        s \in DefSpecs \cup {o.spec}, m \in Labels, v \in Values \cup {o.status.cond}, l \in SUBSET Version}

InstBody(o, x, m, v) == [o EXCEPT !.content = x, !.meta = m, !.status = v]
InstBodies(o) == {InstBody(o, x, m, v) : x \in Values, m \in Labels, v \in Values \cup {o.status}}

Forget(copy, c) == [copy EXCEPT ![c] = Nil]

CreateDef ==
    /\ def = Nil /\ rev < MaxRev
    /\ \E s \in DefSpecs, m \in Labels, v \in Values :
        LET body == [rev |-> rev + 1, born |-> rev + 1, gen |-> 1, meta |-> m, spec |-> s,
                     status |-> [cond |-> v, stored |-> {}]]
        IN def' = Encode(DefPrepareForCreate(Decode(body)))
    /\ rev' = rev + 1 /\ wasStorage' = GetGRDStorageVersion(def'.spec.versions)
    /\ UNCHANGED <<inst, dcopy, icopy>>

GetDef(c) ==
    /\ def # Nil /\ dcopy' = [dcopy EXCEPT ![c] = Encode(Decode(def))]
    /\ UNCHANGED <<rev, def, inst, icopy, wasStorage>>

\* The revision in a body is the one that was read.
UpdateDef(c) ==
    /\ dcopy[c] # Nil /\ dcopy' = Forget(dcopy, c) /\ UNCHANGED <<inst, icopy>>
    /\ \/ Conditional(dcopy[c], def) /\ \E body \in DefBodies(dcopy[c]) :
            LET new == DefUpdated(body)
            IN WriteDef(new) /\ wasStorage' = wasStorage \cup GetGRDStorageVersion(new.spec.versions)
       \/ ~Conditional(dcopy[c], def) /\ UNCHANGED <<rev, def, wasStorage>>

\* A status without a list of stored versions has the default one.
UpdateDefStatus(c) ==
    /\ dcopy[c] # Nil /\ dcopy' = Forget(dcopy, c) /\ UNCHANGED <<inst, icopy>>
    /\ \/ Conditional(dcopy[c], def) /\ \E body \in DefBodies(dcopy[c]) :
            WriteDef(DefStatusUpdated(body)) /\ wasStorage' = wasStorage \cap Decode(body).status.stored
       \/ ~Conditional(dcopy[c], def) /\ UNCHANGED <<rev, def, wasStorage>>

\* A definition without a storage version is not served at all.
Served(v) ==
    def # Nil /\ GetGRDStorageVersion(def.spec.versions) # {} /\ HasServedVersion(def.spec.versions, v)

CreateInst(v) ==
    /\ Served(v) /\ inst = Nil /\ rev < MaxRev /\ rev' = rev + 1
    /\ \E x \in Values, m \in Labels, s \in Values :
        inst' = InstPrepareForCreate([rev |-> rev + 1, born |-> rev + 1, gen |-> 1, meta |-> m,
                                      version |-> v, content |-> x, status |-> s])
    /\ UNCHANGED <<def, dcopy, icopy, wasStorage>>

\* Through whichever version: as it is stored.
GetInst(c) ==
    /\ inst # Nil /\ icopy' = [icopy EXCEPT ![c] = inst]
    /\ UNCHANGED <<rev, def, inst, dcopy, wasStorage>>

\* The body must be of the endpoint's version.
UpdateInst(c, v) ==
    /\ Served(v) /\ icopy[c] # Nil /\ icopy' = Forget(icopy, c) /\ UNCHANGED <<def, dcopy, wasStorage>>
    /\ \/ /\ Conditional(icopy[c], inst)
          /\ \E body \in InstBodies([icopy[c] EXCEPT !.version = v]) : WriteInst(InstUpdated(body))
       \/ ~Conditional(icopy[c], inst) /\ UNCHANGED <<rev, inst>>

UpdateInstStatus(c, v) ==
    /\ Served(v) /\ icopy[c] # Nil /\ icopy' = Forget(icopy, c) /\ UNCHANGED <<def, dcopy, wasStorage>>
    /\ \/ /\ Conditional(icopy[c], inst)
          /\ \E body \in InstBodies([icopy[c] EXCEPT !.version = v]) : WriteInst(InstStatusUpdated(body))
       \/ ~Conditional(icopy[c], inst) /\ UNCHANGED <<rev, inst>>

DeleteInst ==
    /\ inst # Nil /\ rev < MaxRev /\ rev' = rev + 1 /\ inst' = Nil
    /\ UNCHANGED <<def, dcopy, icopy, wasStorage>>

Next ==
    \/ CreateDef \/ DeleteInst
    \/ \E v \in Version : CreateInst(v)
    \/ \E c \in Client :
        \/ GetDef(c) \/ UpdateDef(c) \/ UpdateDefStatus(c) \/ GetInst(c)
        \/ \E v \in Version : UpdateInst(c, v) \/ UpdateInstStatus(c, v)

Spec == Init /\ [][Next]_vars

-----------------------------------------------------------------------------
(***************************************************************************)
(* Properties.                                                             *)
(***************************************************************************)

\* A generation stands for one spec: who has seen an object at a generation, and
\* finds it at that generation again, has seen its spec ("any changes to the spec
\* increment the generation number"), whatever conflicting writes came between.
GenerationIdentifiesSpec ==
    \A c \in Client :
        /\ def # Nil /\ dcopy[c] # Nil /\ dcopy[c].gen = def.gen => dcopy[c].spec = def.spec
        /\ inst # Nil /\ icopy[c] # Nil /\ icopy[c].born = inst.born /\ icopy[c].gen = inst.gen =>
            icopy[c].content = inst.content /\ icopy[c].version = inst.version

\* No write mixes the two sides: one that changes a status changes neither the spec
\* nor the generation, and of an instance not the metadata either.
StatusIsSeparate ==
    [][/\ def # Nil /\ def'.status.cond # def.status.cond => def'.spec = def.spec /\ def'.gen = def.gen
       /\ inst # Nil /\ inst' # Nil /\ inst'.status # inst.status =>
            inst' = [inst EXCEPT !.status = inst'.status, !.rev = inst'.rev]]_vars

\* To write back what was read changes nothing but that the storage version is listed
\* (always at the main endpoint, and at that of the status if the list is empty):
\* defaults and conversions of a definition are stable, and the strategies do not take
\* them for changes.
PutBackIsNoOp ==
    /\ def # Nil => /\ DefUpdated(Encode(Decode(def))) = Stored(def)
                    /\ DefStatusUpdated(Encode(Decode(def))) = IF def.status.stored = {} THEN Stored(def) ELSE def
    /\ inst # Nil => InstUpdated(inst) = inst /\ InstStatusUpdated(inst) = inst

\* A version that was the storage version stays listed in storedVersions until a status
\* is written without it (as a migration does that has left no object of it): no write
\* of a spec loses one, whatever list the client sends with it, and from whatever copy.
\* A version that is the storage version again is listed again.
StoredVersionsAreKept == def # Nil => wasStorage \subseteq def.status.stored

(* What types.go says of stored versions and nothing enforces: TLC refutes both. *)

\* "Versions may not be removed from `spec.versions` while they exist in this list", that
\* of storedVersions (types.go).  Nothing is validated.
ListedVersionsAreDefined ==
    [][def # Nil /\ def' # Nil => \A i \in DOMAIN def.spec.versions :
        \/ def.spec.versions[i].name \notin def.status.stored
        \/ \E j \in DOMAIN def'.spec.versions : def'.spec.versions[j].name = def.spec.versions[i].name]_vars

\* "storedVersions lists all versions of GrafanaResources that were ever persisted"
\* (types.go).  An instance is persisted as of the version of its endpoint.
PersistedVersionsAreListed == def # Nil /\ inst # Nil => inst.version \in def.status.stored
=============================================================================
