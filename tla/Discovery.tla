----------------------------- MODULE Discovery -----------------------------
(***************************************************************************)
(* DiscoveryController publishes, per version of the group, the resources  *)
(* and verbs that are served, and for the group its versions.  It goes     *)
(* through all versions once before the server reports healthy, and then   *)
(* follows the definitions with a queue of versions and one worker.        *)
(***************************************************************************)
EXTENDS GRDLister, RequestDispatch

CONSTANT Subresources   \* per definition: the subresources of its versions

ASSUME DiscoveryAssumption ==
    \A g \in GRD : Subresources[g] \subseteq {"status", "ref", "history", "scale"}

VARIABLES
    dq,           \* the queue
    dstate,       \* Run: "waiting" for the lister, "initial" sync, "running"
    dtodo,        \* versions still to be synced initially
    dkey,         \* the version in a sync, as a set
    dseen,        \* what that sync has listed
    groupDoc,     \* group discovery: the versions, {} for none
    versionDoc,   \* version discovery: resources and verbs, {} for none
    healthy,      \* the post-start hooks have returned
    touched       \* versions of definitions that changed since the first list

discoveryVars == <<dq, dstate, dtodo, dkey, dseen, groupDoc, versionDoc, healthy, touched>>

NoDefs == [g \in GRD |-> Absent]

DiscoveryInit ==
    /\ dq = {} /\ dstate = "waiting" /\ dtodo = {} /\ dkey = {} /\ dseen = NoDefs
    /\ groupDoc = {} /\ versionDoc = [v \in Version |-> {}] /\ healthy = FALSE /\ touched = {}

-----------------------------------------------------------------------------
(***************************************************************************)
(* The documents for a list of definitions.                                *)
(***************************************************************************)
Published(ds) == {g \in GRD : Exists(ds[g]) /\ ds[g].est}

Verbs(d) ==
    {"delete", "deletecollection", "get", "list", "watch"} \cup (IF d.term THEN {} ELSE {"patch", "create", "update"})

SubresourceVerbs(sub) == IF sub \in {"ref", "history"} THEN {"get"} ELSE {"get", "patch", "update"}

GroupDocument(ds) == {v \in Version : \E g \in Published(ds) : HasServedGRDVersion(ds[g], v)}

VersionDocument(ds, v) ==
    UNION {{<<g, "", verb>> : verb \in Verbs(ds[g])}
           \cup UNION {{<<g, sub, verb>> : verb \in SubresourceVerbs(sub)} : sub \in Subresources[g]} :
           g \in {h \in Published(ds) : HasServedGRDVersion(ds[h], v)}}

-----------------------------------------------------------------------------
\* Seeded fault: versions that an update takes away are not queued.
EnqueueNew(old, new) == dq' = dq \cup Versions(new)

\* Event handlers: the versions before and after.
Enqueue(old, new) == dq' = dq \cup Versions(old) \cup Versions(new)

\* sync lists the definitions ...
SyncList(v) == dkey' = {v} /\ dseen' = defs

\* ... and publishes; a group without a served version is withdrawn.
SyncPublish ==
    /\ dkey # {}
    /\ groupDoc' = GroupDocument(dseen)
    /\ versionDoc' = [v \in Version |-> IF v \in dkey THEN VersionDocument(dseen, v) ELSE versionDoc[v]]
    /\ dkey' = {} /\ dseen' = NoDefs
    /\ UNCHANGED <<dq, dstate, dtodo, healthy, touched>>

\* Run: every version of every definition, in turn.
RunInitial ==
    /\ dstate = "waiting" /\ synced
    /\ dstate' = "initial" /\ dtodo' = AllVersions(defs)
    /\ UNCHANGED <<dq, dkey, dseen, groupDoc, versionDoc, healthy, touched>>

InitialSync(v) ==
    /\ dstate = "initial" /\ dkey = {} /\ v \in dtodo
    /\ dtodo' = dtodo \ {v} /\ SyncList(v)
    /\ UNCHANGED <<dq, dstate, groupDoc, versionDoc, healthy, touched>>

\* synchedCh is closed, and the worker starts.
RunWorker ==
    /\ dstate = "initial" /\ dtodo = {} /\ dkey = {}
    /\ dstate' = "running"
    /\ UNCHANGED <<dq, dtodo, dkey, dseen, groupDoc, versionDoc, healthy, touched>>

\* Seeded fault: the controllers' hook returns without waiting for synchedCh.
HealthyEarly ==
    /\ dstate \in {"initial", "running"} /\ synced /\ ~healthy /\ healthy' = TRUE
    /\ UNCHANGED <<dq, dstate, dtodo, dkey, dseen, groupDoc, versionDoc, touched>>

\* All post-start hooks have returned.
BecomeHealthy ==
    /\ dstate = "running" /\ synced /\ ~healthy /\ healthy' = TRUE
    /\ UNCHANGED <<dq, dstate, dtodo, dkey, dseen, groupDoc, versionDoc, touched>>

WorkerSync(v) ==
    /\ dstate = "running" /\ dkey = {} /\ v \in dq
    /\ dq' = dq \ {v} /\ SyncList(v)
    /\ UNCHANGED <<dstate, dtodo, groupDoc, versionDoc, healthy, touched>>

DiscoveryStep ==
    \/ SyncPublish \/ RunInitial \/ RunWorker \/ BecomeHealthy
    \/ \E v \in Version : InitialSync(v) \/ WorkerSync(v)
=============================================================================
