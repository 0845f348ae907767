-------------------------- MODULE PublishingProofs --------------------------
(***************************************************************************)
(* Proofs about Publishing, for any definitions, versions, subresources    *)
(* and bounds.                                                             *)
(*                                                                         *)
(* Discovery: whatever changes the document of a version changes a         *)
(* definition that has the version before or after, and the event handler  *)
(* queues both.  A sync under way publishes what it has listed, so the     *)
(* same must be said of its list.  For the initial sync nothing may rest   *)
(* on the queue; there the untouched versions are either done, or still    *)
(* to be done.                                                             *)
(*                                                                         *)
(* Registration: what users made is never labelled as managed, a call is   *)
(* made only on what is labelled, and the UID in the precondition tells    *)
(* the two apart when one has taken the place of the other.                *)
(***************************************************************************)
EXTENDS Publishing, TLAPS

\* The definitions from which the document of version v is made.
Serving(ds, v) == {g \in Published(ds) : HasServedGRDVersion(ds[g], v)}

\* What discovery says of a definition.
Entries(g, d) ==
    {<<g, "", verb>> : verb \in Verbs(d)}
    \cup UNION {{<<g, sub, verb>> : verb \in SubresourceVerbs(sub)} : sub \in Subresources[g]}

AnyDefinition == (UNION {Definition(g) : g \in GRD}) \cup {Absent}

ListerOK ==
    /\ defs \in [GRD -> AnyDefinition]
    /\ ~synced => dstate = "waiting"

\* Nothing is published before the first sync; a sync is of one version.
BeforeSync ==
    /\ dstate \in {"waiting", "initial", "running"}
    /\ dstate = "waiting" => dkey = {} /\ groupDoc = {} /\ \A v \in Version : versionDoc[v] = {}
    /\ dkey \subseteq Version

\* Stale documents are queued or in a sync, and what the sync has listed is queued
\* once it is stale.
StaleQueued ==
    /\ \A v \in Version : versionDoc[v] # VersionDocument(defs, v) => v \in dq \cup dkey
    /\ \A v \in dkey : VersionDocument(dseen, v) # VersionDocument(defs, v) => v \in dq
    /\ groupDoc # GroupDocument(defs) => dq \cup dkey # {}
    /\ dkey # {} /\ GroupDocument(dseen) # GroupDocument(defs) => dq # {}

\* A version that has not changed is published once its turn has come.
Settled(v) == dstate = "running" \/ (dstate = "initial" /\ v \notin dtodo \cup dkey)

UntouchedPublished ==
    \A v \in Version \ touched :
        /\ Settled(v) => versionDoc[v] = VersionDocument(defs, v) /\ (v \in GroupDocument(defs) => v \in groupDoc)
        /\ v \in dkey => VersionDocument(dseen, v) = VersionDocument(defs, v)
        /\ dkey # {} /\ v \in GroupDocument(defs) => v \in GroupDocument(dseen)

DInv == ListerOK /\ BeforeSync /\ StaleQueued /\ UntouchedPublished

\* APIServices: a UID stands for one service, and what a user made is not labelled.
ServicesOf(v) == {svc[v], slister[v], opOn[v]} \ {None}

Distinct(S, n) ==
    /\ S \subseteq Service
    /\ \A s \in S : s.uid <= n /\ (s.foreign => s.label = "")
    /\ \A s, t \in S : s.uid = t.uid => s.foreign = t.foreign

RegistrationOK ==
    /\ uids \in 0 .. MaxServices /\ edits \in Nat
    /\ svc \in [Registered -> Service \cup {None}]
    /\ slister \in [Registered -> Service \cup {None}]
    /\ opOn \in [Registered -> Service \cup {None}]
    /\ op \in [Registered -> {"idle", "create", "delete", "update"}]

\* A service is deleted or updated only if it was seen with the label.
CallsOnLabelled ==
    \A v \in Registered : op[v] \in {"delete", "update"} => opOn[v] # None /\ opOn[v].label # ""

RInv == RegistrationOK /\ CallsOnLabelled /\ \A v \in Registered : Distinct(ServicesOf(v), uids)

-----------------------------------------------------------------------------
(***************************************************************************)
(* Documents.                                                              *)
(***************************************************************************)

\* The document of a version says what is there of the definitions that serve it.
LEMMA DocumentEntries ==
    ASSUME NEW ds, NEW v
    PROVE  \A e : e \in VersionDocument(ds, v) <=> \E g \in Serving(ds, v) : e \in Entries(g, ds[g])
<1>1. VersionDocument(ds, v) = UNION {Entries(g, ds[g]) : g \in Serving(ds, v)}
  BY DEF VersionDocument, Serving, Entries
<1> QED
  BY <1>1

\* Two lists that agree on the definitions that serve a version give it the same
\* document, and the group the version or not.
LEMMA SameDocument ==
    ASSUME NEW ds, NEW es, NEW v \in Version,
           \A g \in GRD : g \in Serving(ds, v) \/ g \in Serving(es, v) => ds[g] = es[g]
    PROVE  /\ VersionDocument(ds, v) = VersionDocument(es, v)
           /\ v \in GroupDocument(ds) <=> v \in GroupDocument(es)
<1>1. \A g : g \in Serving(ds, v) \/ g \in Serving(es, v) => g \in GRD
  BY DEF Serving, Published
<1>2. Serving(ds, v) = Serving(es, v) /\ \A g \in Serving(ds, v) : ds[g] = es[g]
  BY <1>1 DEF Serving, Published
<1>3. VersionDocument(ds, v) = VersionDocument(es, v)
  <2>1. \A e : e \in VersionDocument(ds, v) <=> \E g \in Serving(ds, v) : e \in Entries(g, ds[g])
    BY DocumentEntries
  <2>2. \A e : e \in VersionDocument(es, v) <=> \E g \in Serving(es, v) : e \in Entries(g, es[g])
    BY DocumentEntries
  <2>3. \A e : e \in VersionDocument(ds, v) <=> e \in VersionDocument(es, v)
    BY <1>2, <2>1, <2>2
  <2> QED
    BY <2>3 DEF VersionDocument
<1>4. \A ls : v \in GroupDocument(ls) <=> Serving(ls, v) # {}
  BY DEF GroupDocument, Serving
<1> QED
  BY <1>2, <1>3, <1>4

\* Only what some definition has is published.
LEMMA PublishedVersions ==
    ASSUME NEW ds, NEW v \in Version, v \notin AllVersions(ds)
    PROVE  VersionDocument(ds, v) = {} /\ v \notin GroupDocument(ds)
<1>1. Serving(ds, v) = {}
  BY DEF AllVersions, Versions, Serving, Published, HasServedGRDVersion
<1>2. \A e : e \notin VersionDocument(ds, v)
  BY <1>1, DocumentEntries
<1>3. v \notin GroupDocument(ds)
  BY <1>1 DEF GroupDocument, Serving
<1> QED
  BY <1>2, <1>3 DEF VersionDocument

\* A change of one definition changes the documents of the versions it had or has.
LEMMA ChangedDocument ==
    ASSUME NEW ds, NEW es, NEW g \in GRD, \A h \in GRD : h # g => es[h] = ds[h],
           NEW v \in Version, v \notin Versions(ds[g]) \cup Versions(es[g])
    PROVE  /\ VersionDocument(ds, v) = VersionDocument(es, v)
           /\ v \in GroupDocument(ds) <=> v \in GroupDocument(es)
<1>1. g \notin Serving(ds, v) /\ g \notin Serving(es, v)
  BY DEF Serving, Versions, HasServedGRDVersion
<1> QED
  BY <1>1, SameDocument

-----------------------------------------------------------------------------
(***************************************************************************)
(* Discovery.                                                              *)
(***************************************************************************)
LEMMA DiscoveryInitially == Init => DInv
<1> SUFFICES ASSUME Init PROVE DInv
  OBVIOUS
<1> USE DEF Init, ListerInit, DiscoveryInit
<1>1. \A v \in Version : VersionDocument(defs, v) = {} /\ v \notin GroupDocument(defs)
  <2>1. AllVersions(defs) = {}
    BY DEF AllVersions, Versions, Exists
  <2> QED
    BY <2>1, PublishedVersions
<1>2. GroupDocument(defs) = {}
  BY <1>1 DEF GroupDocument
<1>3. ListerOK
  <2>1. Absent \in AnyDefinition
    BY DEF AnyDefinition
  <2> QED
    BY <2>1 DEF ListerOK
<1>4. BeforeSync
  BY DEF BeforeSync
<1>5. StaleQueued /\ UntouchedPublished
  BY <1>1, <1>2 DEF StaleQueued, UntouchedPublished, Settled
<1> QED
  BY <1>3, <1>4, <1>5 DEF DInv

\* The informer.
LEMMA ListInitiallyInv ==
    ASSUME DInv, ListInitially
    PROVE  DInv'
<1> USE DEF DInv
<1>1. /\ ~synced /\ synced' = TRUE /\ dq' = dq \cup AllVersions(defs')
      /\ UNCHANGED <<dstate, dtodo, dkey, dseen, groupDoc, versionDoc, healthy, touched>>
  BY DEF ListInitially, FirstList
<1>2. dstate = "waiting" /\ dkey = {} /\ groupDoc = {} /\ \A v \in Version : versionDoc[v] = {}
  BY <1>1 DEF ListerOK, BeforeSync
<1>3. ListerOK'
  BY <1>1 DEF ListInitially, FirstList, ListerOK, AnyDefinition
<1>4. \A v \in Version : v \notin dq' => VersionDocument(defs', v) = {} /\ v \notin GroupDocument(defs')
  BY <1>1, PublishedVersions
<1>5. GroupDocument(defs') # {} => dq' # {}
  BY <1>4 DEF GroupDocument
<1> QED
  BY <1>1, <1>2, <1>3, <1>4, <1>5 DEF BeforeSync, StaleQueued, UntouchedPublished, Settled

\* A change of one definition.
LEMMA ObserveInv ==
    ASSUME DInv, NEW g \in GRD, Observe(g)
    PROVE  DInv'
<1> USE DEF DInv
<1>1. PICK d \in Definition(g) \cup {Absent} : Changed(g, d)
  BY DEF Observe
<1> DEFINE changed == Versions(defs[g]) \cup Versions(defs'[g])
<1>2. /\ synced /\ synced' = synced /\ defs' = [defs EXCEPT ![g] = d] /\ dq' = dq \cup changed
         /\ touched' = touched \cup changed
      /\ UNCHANGED <<dstate, dtodo, dkey, dseen, groupDoc, versionDoc, healthy>>
  BY <1>1 DEF Observe, Changed, Enqueue
<1>3. defs' \in [GRD -> AnyDefinition] /\ \A h \in GRD : h # g => defs'[h] = defs[h]
  <2>1. d \in AnyDefinition
    BY <1>1 DEF AnyDefinition
  <2> QED
    BY <1>2, <2>1 DEF ListerOK
<1> HIDE DEF changed
<1>4. \A v \in Version \ changed :
        /\ VersionDocument(defs, v) = VersionDocument(defs', v)
        /\ v \in GroupDocument(defs) <=> v \in GroupDocument(defs')
  BY <1>3, ChangedDocument DEF changed
<1>5. changed = {} => GroupDocument(defs) = GroupDocument(defs')
  <2>1. GroupDocument(defs) \subseteq Version /\ GroupDocument(defs') \subseteq Version
    BY DEF GroupDocument
  <2> QED
    BY <1>4, <2>1
<1>6. ListerOK' /\ BeforeSync'
  BY <1>2, <1>3 DEF ListerOK, BeforeSync
<1>7. StaleQueued'
  <2>1. dkey \subseteq Version
    BY DEF BeforeSync
  <2>2. \A v \in Version : versionDoc[v] # VersionDocument(defs', v) => v \in dq' \cup dkey
    BY <1>2, <1>4 DEF StaleQueued
  <2>3. \A v \in dkey : VersionDocument(dseen, v) # VersionDocument(defs', v) => v \in dq'
    BY <1>2, <1>4, <2>1 DEF StaleQueued
  <2>4. groupDoc # GroupDocument(defs') => dq' \cup dkey # {}
    BY <1>2, <1>5 DEF StaleQueued
  <2>5. dkey # {} /\ GroupDocument(dseen) # GroupDocument(defs') => dq' # {}
    BY <1>2, <1>5 DEF StaleQueued
  <2> QED
    BY <1>2, <2>2, <2>3, <2>4, <2>5 DEF StaleQueued
<1>8. UntouchedPublished'
  <2> SUFFICES ASSUME NEW v \in Version \ touched'
               PROVE  /\ Settled(v) => versionDoc[v] = VersionDocument(defs', v)
                         /\ (v \in GroupDocument(defs') => v \in groupDoc)
                      /\ v \in dkey => VersionDocument(dseen, v) = VersionDocument(defs', v)
                      /\ dkey # {} /\ v \in GroupDocument(defs') => v \in GroupDocument(dseen)
    BY <1>2 DEF UntouchedPublished, Settled
  <2>1. v \in Version \ touched /\ v \notin changed
    BY <1>2
  <2> QED
    BY <1>4, <2>1 DEF UntouchedPublished
<1> QED
  BY <1>6, <1>7, <1>8

\* The controller.
LEMMA SyncInv ==
    ASSUME DInv, UNCHANGED listerVars,
           SyncPublish \/ \E v \in Version : InitialSync(v) \/ WorkerSync(v)
    PROVE  DInv'
<1> USE DEF DInv
<1>1. UNCHANGED <<started, synced, defs, changes>>
  BY DEF listerVars
<1>2. CASE SyncPublish
  <2>1. /\ dkey # {} /\ groupDoc' = GroupDocument(dseen) /\ dkey' = {}
        /\ \A v \in Version : versionDoc'[v] = IF v \in dkey THEN VersionDocument(dseen, v) ELSE versionDoc[v]
        /\ UNCHANGED <<dq, dstate, dtodo, healthy, touched>>
    BY <1>2 DEF SyncPublish
  <2>2. dstate # "waiting"
    BY <2>1 DEF BeforeSync
  <2>3. ListerOK' /\ BeforeSync'
    BY <1>1, <2>1, <2>2 DEF ListerOK, BeforeSync
  <2>4. StaleQueued'
    BY <1>1, <2>1 DEF StaleQueued
  <2>5. UntouchedPublished'
    <3> SUFFICES ASSUME NEW v \in Version \ touched, Settled(v)'
                 PROVE  versionDoc'[v] = VersionDocument(defs, v) /\ (v \in GroupDocument(defs) => v \in groupDoc')
      BY <1>1, <2>1 DEF UntouchedPublished
    <3>1. Settled(v) \/ v \in dkey
      BY <2>1 DEF Settled
    <3> QED
      BY <2>1, <3>1 DEF UntouchedPublished
  <2> QED
    BY <2>3, <2>4, <2>5
<1>3. ASSUME NEW v \in Version, InitialSync(v) \/ WorkerSync(v) PROVE DInv'
  <2>1. /\ dkey = {} /\ dkey' = {v} /\ dseen' = defs /\ dq \subseteq dq' \cup {v}
        /\ dtodo \subseteq dtodo' \cup {v} /\ dtodo' \subseteq dtodo /\ dstate \in {"initial", "running"}
        /\ UNCHANGED <<dstate, groupDoc, versionDoc, healthy, touched>>
    BY <1>3 DEF InitialSync, WorkerSync, SyncList
  <2>2. ListerOK' /\ BeforeSync'
    BY <1>1, <2>1 DEF ListerOK, BeforeSync
  <2>3. StaleQueued'
    BY <1>1, <2>1 DEF StaleQueued
  <2>4. UntouchedPublished'
    <3>1. ASSUME NEW w \in Version PROVE Settled(w)' => Settled(w)
      BY <2>1 DEF Settled
    <3> QED
      BY <1>1, <2>1, <3>1 DEF UntouchedPublished
  <2> QED
    BY <2>2, <2>3, <2>4
<1> QED
  BY <1>2, <1>3

\* The phases of Run, and the health of the server.
LEMMA RunInv ==
    ASSUME DInv, UNCHANGED listerVars, RunInitial \/ RunWorker \/ BecomeHealthy
    PROVE  DInv'
<1> USE DEF DInv
<1>1. UNCHANGED <<started, synced, defs, changes>>
  BY DEF listerVars
<1>2. CASE RunInitial
  <2>1. /\ dstate = "waiting" /\ synced /\ dstate' = "initial" /\ dtodo' = AllVersions(defs)
        /\ UNCHANGED <<dq, dkey, dseen, groupDoc, versionDoc, healthy, touched>>
    BY <1>2 DEF RunInitial
  <2>2. ListerOK' /\ BeforeSync' /\ StaleQueued'
    BY <1>1, <2>1 DEF ListerOK, BeforeSync, StaleQueued
  <2>3. UntouchedPublished'
    <3>1. dkey = {} /\ groupDoc = {} /\ \A v \in Version : versionDoc[v] = {}
      BY <2>1 DEF BeforeSync
    <3>2. ASSUME NEW v \in Version, Settled(v)'
          PROVE  VersionDocument(defs, v) = {} /\ v \notin GroupDocument(defs)
      BY <2>1, <3>2, PublishedVersions DEF Settled
    <3> QED
      BY <1>1, <2>1, <3>1, <3>2 DEF UntouchedPublished
  <2> QED
    BY <2>2, <2>3
<1>3. CASE RunWorker
  <2>1. /\ dstate = "initial" /\ dtodo = {} /\ dkey = {} /\ dstate' = "running"
        /\ UNCHANGED <<dq, dtodo, dkey, dseen, groupDoc, versionDoc, healthy, touched>>
    BY <1>3 DEF RunWorker
  <2>2. \A v : Settled(v)
    BY <2>1 DEF Settled
  <2> QED
    BY <1>1, <2>1, <2>2 DEF ListerOK, BeforeSync, StaleQueued, UntouchedPublished
<1>4. CASE BecomeHealthy
  <2>1. UNCHANGED <<dq, dstate, dtodo, dkey, dseen, groupDoc, versionDoc, touched>>
    BY <1>4 DEF BecomeHealthy
  <2> QED
    BY <1>1, <2>1 DEF ListerOK, BeforeSync, StaleQueued, UntouchedPublished, Settled
<1> QED
  BY <1>2, <1>3, <1>4

\* Every other step leaves discovery alone, or queues more.
LEMMA OtherInv ==
    ASSUME DInv, \/ StartInformers \/ Resync \/ Registration \/ Environment
                 \/ UNCHANGED vars
    PROVE  DInv'
<1> USE DEF DInv
<1>1. /\ UNCHANGED <<synced, defs, dstate, dtodo, dkey, dseen, groupDoc, versionDoc, healthy, touched>>
      /\ dq \subseteq dq'
  BY DEF StartInformers, Start, Resync, Registration, Environment, vars, listerVars, discoveryVars
<1> QED
  BY <1>1 DEF ListerOK, BeforeSync, StaleQueued, UntouchedPublished, Settled

\* All steps.
LEMMA DiscoveryStepInv == DInv /\ [Next]_vars => DInv'
  BY ListInitiallyInv, ObserveInv, SyncInv, RunInv, OtherInv DEF Next, DiscoveryController, DiscoveryStep

\* A document that is not what the definitions call for is written again
\* (DiscoveryController.sync and its event handlers).
THEOREM DiscoveryCatchesUp == Spec => []StaleDiscoveryIsQueued
<1>1. DInv => StaleDiscoveryIsQueued
  BY DEF DInv, StaleQueued, StaleDiscoveryIsQueued
<1> QED
  BY <1>1, DiscoveryInitially, DiscoveryStepInv, PTL DEF Spec

\* Once the server is healthy, what was there at the start is published
\* (DiscoveryController.Run closes synchedCh after its initial sync).
THEOREM HealthyAfterInitialSync == Spec => HealthyMeansPublished
<1> DEFINE A == healthy' # healthy =>
        \A v \in Version \ touched : versionDoc[v] = VersionDocument(defs, v)
          /\ (v \in GroupDocument(defs) => v \in groupDoc)
<1>1. DInv /\ [Next]_vars => [A]_vars
  <2> SUFFICES ASSUME DInv, Next, healthy' # healthy PROVE A
    BY DEF vars, discoveryVars
  <2>1. CASE BecomeHealthy
    <3>1. \A v : Settled(v)
      BY <2>1 DEF BecomeHealthy, Settled
    <3> QED
      BY <3>1 DEF DInv, UntouchedPublished
  <2>2. CASE ~BecomeHealthy
    BY <2>2 DEF Next, StartInformers, ListInitially, Resync, Observe, DiscoveryController, Registration, Environment,
                discoveryVars, DiscoveryStep, SyncPublish, RunInitial, RunWorker, InitialSync, WorkerSync
  <2> QED
    BY <2>1, <2>2
<1>2. Spec => [][A]_vars
  BY <1>1, DiscoveryInitially, DiscoveryStepInv, PTL DEF Spec
<1> QED
  BY <1>2 DEF HealthyMeansPublished

\* Every verb that a document has is dispatched to a storage, whether or not the
\* definition is terminating (grdHandler.ServeHTTP beside DiscoveryController.sync).
LEMMA EntriesDispatched ==
    ASSUME NEW g \in GRD, NEW d, NEW e \in Entries(g, d), e[2] # "scale"
    PROVE  e[1] = g /\ Dispatch(e[2], e[3], Subresources[g], d.term) \notin {NotFound, MethodNotSupported}
<1> USE DEF Dispatch, serveResource, serveStatus, serveRef, serveHistory, NotFound, MethodNotSupported
<1>1. CASE e \in {<<g, "", verb>> : verb \in Verbs(d)}
  <2>1. PICK verb \in Verbs(d) : e = <<g, "", verb>>
    BY <1>1
  <2>2. verb \in {"get", "list", "watch", "update", "patch", "delete", "deletecollection"}
          \/ (verb = "create" /\ ~d.term)
    BY DEF Verbs
  <2> QED
    BY <2>1, <2>2
<1>2. CASE e \in UNION {{<<g, sub, verb>> : verb \in SubresourceVerbs(sub)} : sub \in Subresources[g]}
  <2>1. PICK sub \in Subresources[g] : \E verb \in SubresourceVerbs(sub) : e = <<g, sub, verb>>
    BY <1>2
  <2>2. sub \in {"status", "ref", "history"}
    BY <2>1, DiscoveryAssumption
  <2>3. PICK verb \in SubresourceVerbs(sub) : e = <<g, sub, verb>>
    BY <2>1
  <2>4. Dispatch(sub, verb, Subresources[g], d.term) \in {"status", "ref", "history"}
    BY <2>1, <2>2, <2>3 DEF SubresourceVerbs
  <2> QED
    BY <2>3, <2>4
<1> QED
  BY <1>1, <1>2 DEF Entries

\* What discovery advertises, the request handler serves.
THEOREM DocumentsAreServed == Spec => []AdvertisedIsServed
<1>1. AdvertisedIsServed
  <2> SUFFICES ASSUME NEW v \in Version, NEW e \in VersionDocument(defs, v), e[2] # "scale"
               PROVE  Dispatch(e[2], e[3], Subresources[e[1]], defs[e[1]].term) \notin {NotFound, MethodNotSupported}
    BY DEF AdvertisedIsServed
  <2>1. PICK g \in Serving(defs, v) : e \in Entries(g, defs[g])
    BY DocumentEntries
  <2>2. g \in GRD
    BY DEF Serving, Published
  <2> QED
    BY <2>1, <2>2, EntriesDispatched
<1> QED
  BY <1>1, PTL

-----------------------------------------------------------------------------
(***************************************************************************)
(* Registration.                                                           *)
(***************************************************************************)

\* Numbers given out.
LEMMA LeqTransitive == \A k, m, n \in Nat : k <= m /\ m <= n => k <= n
  OBVIOUS

\* The number after those given out.
LEMMA NextNumber ==
    \A n \in Nat : n + 1 \in Nat /\ n + 1 <= n + 1 /\ \A k \in Nat : k <= n => k <= n + 1 /\ k # n + 1
  OBVIOUS

\* It is within the bound.
LEMMA NextWithin == \A n \in 0 .. MaxServices : n < MaxServices => n + 1 \in 0 .. MaxServices
  BY RegistrationAssumption

\* What is used of a service.
LEMMA ServiceFields ==
    \A s \in Service : s.uid \in Nat /\ s.uid <= MaxServices /\ s.label \in {"", "onstart", "true"}
<1> SUFFICES ASSUME NEW s \in Service PROVE s.uid \in Nat /\ s.uid <= MaxServices
                      /\ s.label \in {"", "onstart", "true"}
  OBVIOUS
<1>1. s.uid \in 0 .. MaxServices /\ s.label \in {"", "onstart", "true"}
  BY DEF Service
<1>2. \A n \in 0 .. MaxServices : n \in Nat /\ n <= MaxServices
  BY RegistrationAssumption
<1> QED
  BY <1>1, <1>2, Zenon

\* Services copied, or taken out of management, stay distinct; also when others are made.
LEMMA CopiesDistinct ==
    ASSUME NEW S, NEW T \in SUBSET Service, NEW m \in Nat, NEW n \in Nat, m <= n, Distinct(S, m),
           \A s \in T : \E t \in S : s.uid = t.uid /\ s.foreign = t.foreign /\ s.label \in {t.label, ""}
    PROVE  Distinct(T, n)
<1>1. ASSUME NEW s \in T PROVE s.uid <= n /\ (s.foreign => s.label = "")
  <2>1. PICK t \in S : s.uid = t.uid /\ s.foreign = t.foreign /\ s.label \in {t.label, ""}
    OBVIOUS
  <2>2. t.uid <= m /\ (t.foreign => t.label = "") /\ t.uid \in Nat
    BY ServiceFields DEF Distinct
  <2>3. t.uid <= n
    BY <2>2, LeqTransitive, Zenon
  <2> QED
    BY <2>1, <2>2, <2>3
<1>2. ASSUME NEW s \in T, NEW t \in T, s.uid = t.uid PROVE s.foreign = t.foreign
  <2>1. PICK x \in S : s.uid = x.uid /\ s.foreign = x.foreign
    OBVIOUS
  <2>2. PICK y \in S : t.uid = y.uid /\ t.foreign = y.foreign
    OBVIOUS
  <2> QED
    BY <1>2, <2>1, <2>2 DEF Distinct
<1> QED
  BY <1>1, <1>2, Zenon DEF Distinct

\* A service that is made has a UID of its own.
LEMMA NewDistinct ==
    ASSUME NEW S, NEW s \in Service, NEW n \in Nat, Distinct(S, n), s.uid = n + 1, s.foreign => s.label = ""
    PROVE  Distinct(S \cup {s}, n + 1)
<1> DEFINE next == n + 1
<1>1. next \in Nat /\ next <= next /\ \A k \in Nat : k <= n => k <= next /\ k # next
  BY NextNumber, Zenon
<1>2. s.uid = next
  BY Zenon
<1> HIDE DEF next
<1>3. ASSUME NEW t \in S PROVE t \in Service /\ t.uid <= next /\ t.uid # s.uid
  <2>1. t \in Service /\ t.uid <= n
    BY DEF Distinct
  <2>2. t.uid \in Nat
    BY <2>1, ServiceFields
  <2> QED
    BY <1>1, <1>2, <2>1, <2>2, Zenon
<1>4. s.uid <= next
  BY <1>1, <1>2, Zenon
<1>5. \A t, u \in S \cup {s} : t.uid = u.uid => t.foreign = u.foreign
  <2>1. ASSUME NEW t \in S \cup {s}, NEW u \in S \cup {s}, t.uid = u.uid PROVE t.foreign = u.foreign
    BY <1>3, <2>1 DEF Distinct
  <2> QED
    BY <2>1
<1>6. \A t \in S \cup {s} : t.uid <= next /\ (t.foreign => t.label = "")
  BY <1>3, <1>4, Zenon DEF Distinct
<1>7. S \cup {s} \subseteq Service
  BY <1>3
<1> QED
  BY <1>5, <1>6, <1>7, Zenon DEF Distinct, next

\* The services at the start.
LEMMA RegistrationInitially == Init => RInv
<1> SUFFICES ASSUME Init PROVE RInv
  OBVIOUS
<1> USE DEF Init, RegistrationInit
<1> DEFINE S == [uid : {0}, label : {"onstart", "true"}, ours : {FALSE}, foreign : {FALSE}]
<1>1. S \subseteq Service
  <2>1. 0 \in 0 .. MaxServices
    BY RegistrationAssumption
  <2> QED
    BY <2>1 DEF Service
<1>2. svc \in [Registered -> Service \cup {None}]
  <2>1. svc \in [Registered -> {None} \cup S]
    OBVIOUS
  <2> HIDE DEF S, Init
  <2> QED
    BY <1>1, <2>1
<1>3. uids \in 0 .. MaxServices /\ edits \in Nat
  BY RegistrationAssumption
<1>4. RegistrationOK /\ CallsOnLabelled
  BY <1>2, <1>3 DEF RegistrationOK, CallsOnLabelled
<1>5. \A v \in Registered : ServicesOf(v) \subseteq S
  BY DEF ServicesOf
<1>6. ASSUME NEW T \in SUBSET S PROVE Distinct(T, 0)
  <2>1. \A s \in T : s.uid = 0 /\ s.foreign = FALSE
    OBVIOUS
  <2>2. T \subseteq Service
    BY <1>1
  <2> HIDE DEF S, Init
  <2>3. 0 <= 0
    OBVIOUS
  <2> QED
    BY <2>1, <2>2, <2>3 DEF Distinct
<1>7. uids = 0
  OBVIOUS
<1> QED
  BY <1>4, <1>5, <1>6, <1>7 DEF RInv

\* What RegistrationOK gives.
LEMMA Typed ==
    ASSUME RegistrationOK
    PROVE  uids \in Nat /\ uids <= uids /\ \A v \in Registered : ServicesOf(v) \subseteq Service
<1>1. uids \in Nat /\ uids <= uids
  BY RegistrationAssumption DEF RegistrationOK
<1>2. \A v \in Registered : ServicesOf(v) \subseteq Service
  BY DEF RegistrationOK, ServicesOf
<1> QED
  BY <1>1, <1>2

\* The same after a step.
LEMMA TypedNext ==
    ASSUME RegistrationOK'
    PROVE  uids' \in Nat /\ uids' <= uids' /\ \A v \in Registered : ServicesOf(v)' \subseteq Service
<1>1. uids' \in Nat /\ uids' <= uids'
  BY RegistrationAssumption DEF RegistrationOK
<1>2. \A v \in Registered : ServicesOf(v)' \subseteq Service
  BY DEF RegistrationOK, ServicesOf
<1> QED
  BY <1>1, <1>2

\* Steps that make no service: what there is after them comes from what there was.
LEMMA CopyStep ==
    ASSUME RInv, RegistrationOK', CallsOnLabelled', uids' = uids,
           \A v \in Registered : \A s \in ServicesOf(v)' :
               \E t \in ServicesOf(v) : s.uid = t.uid /\ s.foreign = t.foreign /\ s.label \in {t.label, ""}
    PROVE  RInv'
<1> SUFFICES ASSUME NEW v \in Registered PROVE Distinct(ServicesOf(v)', uids')
  BY DEF RInv
<1>1. uids \in Nat /\ uids <= uids
  BY Typed DEF RInv
<1>2. ServicesOf(v)' \subseteq Service /\ Distinct(ServicesOf(v), uids)
  BY TypedNext DEF RInv
<1> QED
  BY <1>1, <1>2, CopiesDistinct

\* Steps that make one.
LEMMA MakeStep ==
    ASSUME RInv, RegistrationOK', CallsOnLabelled', uids' = uids + 1, NEW v \in Registered,
           NEW s \in Service, s.uid = uids + 1, s.foreign => s.label = "",
           ServicesOf(v)' \subseteq ServicesOf(v) \cup {s},
           \A w \in Registered \ {v} : ServicesOf(w)' \subseteq ServicesOf(w)
    PROVE  RInv'
<1>1. uids \in Nat /\ uids' \in Nat /\ uids <= uids' /\ uids' <= uids'
  BY Typed, TypedNext, NextNumber, Zenon DEF RInv
<1>2. \A w \in Registered : ServicesOf(w)' \subseteq Service /\ Distinct(ServicesOf(w), uids)
  BY TypedNext DEF RInv
<1>3. \A w \in Registered \ {v} : Distinct(ServicesOf(w)', uids')
  BY <1>1, <1>2, CopiesDistinct
<1>4. Distinct(ServicesOf(v) \cup {s}, uids')
  BY <1>1, <1>2, NewDistinct
<1>5. Distinct(ServicesOf(v)', uids')
  BY <1>1, <1>2, <1>4, CopiesDistinct
<1> QED
  BY <1>3, <1>5 DEF RInv

\* The controllers, up to the calls.
LEMMA ControllerInv ==
    ASSUME RInv, \/ RegistrationRun \/ AutoRegisterRun
                 \/ \E v \in Registered : \/ handleVersionUpdate(v) \/ AddAPIServiceToSync(v)
                                          \/ RemoveAPIServiceToSync(v)
                                          \/ checkAPIService(v) \/ ObserveService(v)
    PROVE  RInv'
<1>1. CASE \/ RegistrationRun
           \/ \E v \in Registered : \/ handleVersionUpdate(v) \/ AddAPIServiceToSync(v)
                                    \/ RemoveAPIServiceToSync(v)
  <2>1. UNCHANGED <<svc, slister, op, opOn, uids, edits>>
    BY <1>1 DEF RegistrationRun, handleVersionUpdate, AddAPIServiceToSync, RemoveAPIServiceToSync, sVars,
       aggregatorVars
  <2> QED
    BY <2>1 DEF RInv, RegistrationOK, CallsOnLabelled, ServicesOf
<1>2. CASE AutoRegisterRun
  <2>1. slister' = svc /\ UNCHANGED <<svc, op, opOn, uids, edits>>
    BY <1>2 DEF AutoRegisterRun, aggregatorVars
  <2>2. RegistrationOK' /\ CallsOnLabelled'
    BY <2>1 DEF RInv, RegistrationOK, CallsOnLabelled
  <2>3. \A v \in Registered : ServicesOf(v)' \subseteq ServicesOf(v)
    BY <2>1 DEF ServicesOf
  <2> QED
    BY <2>1, <2>2, <2>3, CopyStep
<1>3. ASSUME NEW v \in Registered, ObserveService(v) PROVE RInv'
  <2>1. slister' = [slister EXCEPT ![v] = svc[v]] /\ UNCHANGED <<svc, op, opOn, uids, edits>>
    BY <1>3 DEF ObserveService, aggregatorVars
  <2>2. RegistrationOK' /\ CallsOnLabelled'
    BY <2>1 DEF RInv, RegistrationOK, CallsOnLabelled
  <2>3. \A w \in Registered : ServicesOf(w)' \subseteq ServicesOf(w)
    BY <2>1 DEF ServicesOf, RInv, RegistrationOK
  <2> QED
    BY <2>1, <2>2, <2>3, CopyStep
<1>4. ASSUME NEW v \in Registered, checkAPIService(v) PROVE RInv'
  <2>1. UNCHANGED <<svc, slister, uids, edits>>
    BY <1>4 DEF checkAPIService, aggregatorVars
  <2>2. Decide(v) \in {"nothing", "create", "delete", "update"}
    BY DEF Decide
  <2>3. Decide(v) \in {"delete", "update"} => slister[v] # None /\ slister[v].label # ""
    BY DEF Decide
  <2>4. \/ UNCHANGED <<op, opOn>>
        \/ /\ Decide(v) # "nothing"
           /\ op' = [op EXCEPT ![v] = Decide(v)] /\ opOn' = [opOn EXCEPT ![v] = slister[v]]
    BY <1>4 DEF checkAPIService
  <2>5. RegistrationOK'
    BY <2>1, <2>2, <2>4 DEF RInv, RegistrationOK
  <2>6. CallsOnLabelled'
    BY <2>3, <2>4 DEF RInv, RegistrationOK, CallsOnLabelled
  <2>7. \A w \in Registered : ServicesOf(w)' \subseteq ServicesOf(w)
    BY <2>1, <2>4 DEF ServicesOf, RInv, RegistrationOK
  <2> QED
    BY <2>1, <2>5, <2>6, <2>7, CopyStep
<1> QED
  BY <1>1, <1>2, <1>3, <1>4

\* A service with another spec, or taken out of management, is the same service.
LEMMA EditedService ==
    ASSUME NEW s \in Service, NEW r, \/ \E b \in BOOLEAN : r = [s EXCEPT !.ours = b]
                                     \/ r = [s EXCEPT !.label = ""]
    PROVE  r \in Service /\ r.uid = s.uid /\ r.foreign = s.foreign /\ r.label \in {s.label, ""}
  BY DEF Service

\* One name's service is replaced or removed, and its call may have returned.
LEMMA EditInv ==
    ASSUME RInv, NEW v \in Registered, NEW r, svc' = [svc EXCEPT ![v] = r],
           \/ r = None
           \/ /\ svc[v] # None /\ r \in Service /\ r.uid = svc[v].uid /\ r.foreign = svc[v].foreign
              /\ r.label \in {svc[v].label, ""},
           \/ UNCHANGED <<op, opOn>>
           \/ op' = [op EXCEPT ![v] = "idle"] /\ opOn' = [opOn EXCEPT ![v] = None],
           slister' = slister, uids' = uids, edits' \in Nat
    PROVE  RInv'
<1>1. RegistrationOK'
  BY DEF RInv, RegistrationOK
<1>2. CallsOnLabelled'
  BY DEF RInv, RegistrationOK, CallsOnLabelled
<1>3. ASSUME NEW w \in Registered, NEW s \in ServicesOf(w)'
      PROVE  \E t \in ServicesOf(w) : s.uid = t.uid /\ s.foreign = t.foreign /\ s.label \in {t.label, ""}
  <2>1. CASE w = v /\ s = r
    <3>1. r # None
      BY <2>1 DEF ServicesOf
    <3>2. svc[v] \in ServicesOf(v)
      BY <3>1 DEF ServicesOf
    <3> QED
      BY <2>1, <3>1, <3>2
  <2>2. CASE w # v \/ s # r
    <3>1. s \in ServicesOf(w)
      BY <2>2 DEF ServicesOf, RInv, RegistrationOK
    <3> QED
      BY <3>1
  <2> QED
    BY <2>1, <2>2
<1> QED
  BY <1>1, <1>2, <1>3, CopyStep

\* The same when nothing happens to the service.
LEMMA ReturnedInv ==
    ASSUME RInv, NEW v \in Registered, UNCHANGED <<svc, slister, uids, edits>>,
           op' = [op EXCEPT ![v] = "idle"] /\ opOn' = [opOn EXCEPT ![v] = None]
    PROVE  RInv'
<1>1. RegistrationOK' /\ CallsOnLabelled'
  BY DEF RInv, RegistrationOK, CallsOnLabelled
<1>2. \A w \in Registered : ServicesOf(w)' \subseteq ServicesOf(w)
  BY DEF ServicesOf, RInv, RegistrationOK
<1> QED
  BY <1>1, <1>2, CopyStep

\* What the controller and the users make.
LEMMA MadeService ==
    ASSUME NEW n \in 0 .. MaxServices, NEW s,
           s = [uid |-> n, label |-> "true", ours |-> TRUE, foreign |-> FALSE] \/ s = Foreign(n)
    PROVE  s \in Service /\ s.uid = n /\ (s.foreign => s.label = "")
<1>1. CASE s = [uid |-> n, label |-> "true", ours |-> TRUE, foreign |-> FALSE]
  <2>1. s \in Service
    BY <1>1 DEF Service
  <2>2. s.uid = n /\ s.foreign = FALSE
    BY <1>1
  <2> QED
    BY <2>1, <2>2
<1>2. CASE s = Foreign(n)
  <2>1. s \in Service
    BY <1>2 DEF Service, Foreign
  <2>2. s.uid = n /\ s.label = ""
    BY <1>2 DEF Foreign
  <2> QED
    BY <2>1, <2>2
<1> QED
  BY <1>1, <1>2

\* A service is made, by the controller or a user.
LEMMA MadeInv ==
    ASSUME RInv, NEW v \in Registered, NEW s, svc' = [svc EXCEPT ![v] = s],
           uids < MaxServices, uids' = uids + 1, edits' \in Nat, slister' = slister,
           \/ s = [uid |-> uids + 1, label |-> "true", ours |-> TRUE, foreign |-> FALSE]
           \/ s = Foreign(uids + 1),
           \/ UNCHANGED <<op, opOn>>
           \/ op' = [op EXCEPT ![v] = "idle"] /\ opOn' = [opOn EXCEPT ![v] = None]
    PROVE  RInv'
<1>1. uids + 1 \in 0 .. MaxServices
  BY NextWithin, Zenon DEF RInv, RegistrationOK
<1>2. s \in Service /\ s.uid = uids + 1 /\ (s.foreign => s.label = "")
  BY <1>1, MadeService, Zenon
<1>3. RegistrationOK'
  BY <1>1, <1>2 DEF RInv, RegistrationOK
<1>4. CallsOnLabelled'
  BY DEF RInv, RegistrationOK, CallsOnLabelled
<1>5. ServicesOf(v)' \subseteq ServicesOf(v) \cup {s}
        /\ \A w \in Registered \ {v} : ServicesOf(w)' \subseteq ServicesOf(w)
  BY DEF ServicesOf, RInv, RegistrationOK
<1> QED
  BY <1>2, <1>3, <1>4, <1>5, MakeStep

\* The calls of the controller.
LEMMA CallsInv ==
    ASSUME RInv, NEW v \in Registered, CreateService(v) \/ DeleteService(v) \/ UpdateService(v) \/ CallFails(v)
    PROVE  RInv'
<1>1. /\ op' = [op EXCEPT ![v] = "idle"] /\ opOn' = [opOn EXCEPT ![v] = None]
      /\ slister' = slister /\ edits' = edits
  BY DEF CreateService, DeleteService, UpdateService, CallFails, Returned
<1>2. edits \in Nat /\ svc \in [Registered -> Service \cup {None}] /\ opOn[v] \in Service \cup {None}
  BY DEF RInv, RegistrationOK
<1>3. CASE CreateService(v)
  <2>1. CASE UNCHANGED <<svc, uids>>
    BY <1>1, <2>1, ReturnedInv
  <2>2. CASE ~UNCHANGED <<svc, uids>>
    BY <1>1, <1>2, <1>3, <2>2, MadeInv DEF CreateService
  <2> QED
    BY <2>1, <2>2
<1>4. CASE DeleteService(v)
  <2>1. uids' = uids
    BY <1>4 DEF DeleteService
  <2>2. svc' = svc \/ svc' = [svc EXCEPT ![v] = None]
    BY <1>2, <1>4 DEF DeleteService
  <2> QED
    BY <1>1, <1>2, <2>1, <2>2, ReturnedInv, EditInv
<1>5. CASE UpdateService(v)
  <2>1. uids' = uids
    BY <1>5 DEF UpdateService
  <2>2. CASE ~(svc[v] # None /\ svc[v] = opOn[v])
    <3>1. svc' = [svc EXCEPT ![v] = svc[v]]
      BY <1>5, <2>2 DEF UpdateService
    <3>2. svc' = svc
      BY <1>2, <3>1
    <3> QED
      BY <1>1, <2>1, <3>2, ReturnedInv
  <2>3. CASE svc[v] # None /\ svc[v] = opOn[v]
    <3> DEFINE r == [opOn[v] EXCEPT !.ours = TRUE]
    <3>1. opOn[v] \in Service /\ svc' = [svc EXCEPT ![v] = r]
      BY <1>2, <1>5, <2>3 DEF UpdateService
    <3>2. r \in Service /\ r.uid = svc[v].uid /\ r.foreign = svc[v].foreign /\ r.label \in {svc[v].label, ""}
      BY <2>3, <3>1, EditedService
    <3> HIDE DEF r
    <3> QED
      BY <1>1, <1>2, <2>1, <2>3, <3>1, <3>2, EditInv
  <2> QED
    BY <2>2, <2>3
<1>6. CASE CallFails(v)
  BY <1>1, <1>6, ReturnedInv DEF CallFails
<1> QED
  BY <1>3, <1>4, <1>5, <1>6

\* What users do.
LEMMA UserEditsInv ==
    ASSUME RInv, NEW v \in Registered, UserEdits(v)
    PROVE  RInv'
<1>1. /\ UNCHANGED <<op, opOn, slister>> /\ edits' = edits + 1
  BY DEF UserEdits, sVars
<1>2. edits' \in Nat /\ svc[v] \in Service \cup {None}
  <2>1. edits \in Nat
    BY DEF RInv, RegistrationOK
  <2>2. edits + 1 \in Nat
    BY <2>1, NextNumber, Zenon
  <2> QED
    BY <1>1, <2>2 DEF RInv, RegistrationOK
<1>3. \/ uids < MaxServices /\ uids' = uids + 1 /\ svc' = [svc EXCEPT ![v] = Foreign(uids + 1)]
      \/ /\ svc[v] # None /\ uids' = uids
         /\ \/ svc' = [svc EXCEPT ![v] = [svc[v] EXCEPT !.ours = FALSE]]
            \/ svc' = [svc EXCEPT ![v] = [svc[v] EXCEPT !.label = ""]]
            \/ svc' = [svc EXCEPT ![v] = None]
  BY DEF UserEdits
<1>4. CASE uids < MaxServices /\ uids' = uids + 1 /\ svc' = [svc EXCEPT ![v] = Foreign(uids + 1)]
  BY <1>1, <1>2, <1>4, MadeInv
<1>5. CASE svc' = [svc EXCEPT ![v] = None] /\ uids' = uids
  BY <1>1, <1>2, <1>5, EditInv
<1>6. ASSUME svc[v] # None, uids' = uids,
             NEW r, r = [svc[v] EXCEPT !.ours = FALSE]
               \/ r = [svc[v] EXCEPT !.label = ""], svc' = [svc EXCEPT ![v] = r]
      PROVE  RInv'
  <2>1. r \in Service /\ r.uid = svc[v].uid /\ r.foreign = svc[v].foreign /\ r.label \in {svc[v].label, ""}
    BY <1>2, <1>6, EditedService
  <2> QED
    BY <1>1, <1>2, <1>6, <2>1, EditInv
<1> QED
  BY <1>3, <1>4, <1>5, <1>6

\* All steps.
LEMMA RegistrationStepInv == RInv /\ [Next]_vars => RInv'
<1> SUFFICES ASSUME RInv, [Next]_vars PROVE RInv'
  OBVIOUS
<1>1. CASE \/ StartInformers \/ ListInitially \/ Resync \/ (\E g \in GRD : Observe(g))
           \/ DiscoveryController \/ UNCHANGED vars
  <2>1. UNCHANGED <<svc, slister, op, opOn, uids, edits>>
    BY <1>1 DEF StartInformers, ListInitially, Resync, Observe, DiscoveryController, vars, registrationVars, sVars,
       aggregatorVars
  <2> QED
    BY <2>1 DEF RInv, RegistrationOK, CallsOnLabelled, ServicesOf
<1>2. CASE Registration
  BY <1>2, ControllerInv, CallsInv DEF Registration, RegistrationStep
<1>3. CASE Environment
  BY <1>3, UserEditsInv, CallsInv DEF Environment
<1> QED
  BY <1>1, <1>2, <1>3 DEF Next

\* The controller leaves alone what users made and did not label (the UID in the
\* preconditions of AutoRegisterController's deletions, the version in its updates).
THEOREM UsersKeepTheirs == Spec => ForeignServicesAreKept
<1> DEFINE A == \A v \in Registered : svc[v] # None /\ svc[v].foreign /\ edits' = edits => svc'[v] = svc[v]
<1>1. RInv /\ [Next]_vars => [A]_vars
  <2> SUFFICES ASSUME RInv, Next, NEW v \in Registered, svc[v] # None, svc[v].foreign, edits' = edits
               PROVE  svc'[v] = svc[v]
    OBVIOUS
  <2>1. svc \in [Registered -> Service \cup {None}]
    BY DEF RInv, RegistrationOK
  <2>2. op[v] \in {"delete", "update"} =>
            opOn[v] # None /\ svc[v] # opOn[v] /\ svc[v].uid # opOn[v].uid
    <3> SUFFICES ASSUME op[v] \in {"delete", "update"}
                 PROVE  opOn[v] # None /\ svc[v] # opOn[v] /\ svc[v].uid # opOn[v].uid
      OBVIOUS
    <3>1. opOn[v] # None /\ opOn[v].label # ""
      BY DEF RInv, CallsOnLabelled
    <3>2. svc[v] \in ServicesOf(v) /\ opOn[v] \in ServicesOf(v)
      BY <3>1 DEF ServicesOf
    <3>3. ~opOn[v].foreign
      BY <3>1, <3>2 DEF RInv, Distinct
    <3>4. svc[v].uid # opOn[v].uid
      BY <3>2, <3>3 DEF RInv, Distinct
    <3> QED
      BY <3>1, <3>4
  <2>3. CASE svc' = svc
    BY <2>3
  <2>4. ASSUME NEW w \in Registered, CreateService(w) \/ DeleteService(w) \/ UpdateService(w) PROVE svc'[v] = svc[v]
    BY <2>1, <2>2, <2>4 DEF CreateService, DeleteService, UpdateService
  <2>5. ASSUME NEW w \in Registered, UserEdits(w) PROVE FALSE
    <3>1. edits \in Nat /\ edits # edits + 1
      BY DEF RInv, RegistrationOK
    <3> QED
      BY <2>5, <3>1 DEF UserEdits
  <2> QED
    BY <2>3, <2>4, <2>5
       DEF Next, StartInformers, ListInitially, Resync, Observe, DiscoveryController, Registration, Environment,
           registrationVars, RegistrationStep, RegistrationRun, AutoRegisterRun, handleVersionUpdate,
           AddAPIServiceToSync, RemoveAPIServiceToSync, checkAPIService, ObserveService, CallFails, aggregatorVars
<1>2. Spec => [][A]_vars
  BY <1>1, RegistrationInitially, RegistrationStepInv, PTL DEF Spec
<1> QED
  BY <1>2 DEF ForeignServicesAreKept
=============================================================================
