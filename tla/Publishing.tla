----------------------------- MODULE Publishing -----------------------------
(***************************************************************************)
(* How clients find out what is served: the discovery documents of the     *)
(* server and the APIServices of the aggregator in front of it, both kept  *)
(* from one informer, from the start of the server on.                     *)
(***************************************************************************)
EXTENDS Discovery, APIRegistration

vars == <<listerVars, discoveryVars, registrationVars>>

Init == ListerInit /\ DiscoveryInit /\ RegistrationInit

\* Notifications reach both queues.
StartInformers == Start /\ UNCHANGED <<discoveryVars, registrationVars>>

ListInitially ==
    /\ FirstList
    /\ dq' = dq \cup AllVersions(defs') /\ EnqueueVersions(AllVersions(defs'))
    /\ UNCHANGED <<dstate, dtodo, dkey, dseen, groupDoc, versionDoc, healthy, touched,
                   rstate, rdo, desired, sq, sVars, aggregatorVars, errors>>

Observe(g) ==
    /\ \E d \in Definition(g) \cup {Absent} : Changed(g, d)
    /\ Enqueue(defs[g], defs'[g]) /\ EnqueueVersions(Versions(defs[g]) \cup Versions(defs'[g]))
    /\ touched' = touched \cup Versions(defs[g]) \cup Versions(defs'[g])
    /\ UNCHANGED <<dstate, dtodo, dkey, dseen, groupDoc, versionDoc, healthy,
                   rstate, rdo, desired, sq, sVars, aggregatorVars, errors>>

\* Every five minutes: an update from what is there to itself.
Resync ==
    /\ synced /\ rstate = "running"
    /\ dq' = dq \cup AllVersions(defs) /\ EnqueueVersions(AllVersions(defs))
    /\ UNCHANGED <<listerVars, dstate, dtodo, dkey, dseen, groupDoc, versionDoc, healthy, touched,
                   rstate, rdo, desired, sq, sVars, aggregatorVars, errors>>

DiscoveryController == DiscoveryStep /\ UNCHANGED <<listerVars, registrationVars>>
Registration == RegistrationStep /\ UNCHANGED <<listerVars, discoveryVars>>
Environment == (\E v \in Registered : UserEdits(v) \/ CallFails(v)) /\ UNCHANGED <<listerVars, discoveryVars>>

Next ==
    \/ StartInformers \/ ListInitially \/ Resync \/ (\E g \in GRD : Observe(g))
    \/ DiscoveryController \/ Registration \/ Environment

Spec == Init /\ [][Next]_vars

\* Hooks, informers, resyncs and every worker go on.
FairSpec ==
    /\ Spec /\ WF_vars(StartInformers) /\ WF_vars(ListInitially) /\ WF_vars(Resync)
    /\ WF_vars(RegistrationRun /\ UNCHANGED <<listerVars, discoveryVars>>)
    /\ WF_vars(AutoRegisterRun /\ UNCHANGED <<listerVars, discoveryVars>>)
    /\ \A v \in Registered :
        /\ WF_vars((handleVersionUpdate(v) \/ AddAPIServiceToSync(v) \/ RemoveAPIServiceToSync(v))
                   /\ UNCHANGED <<listerVars, discoveryVars>>)
        /\ WF_vars((checkAPIService(v) \/ CreateService(v) \/ DeleteService(v) \/ UpdateService(v))
                   /\ UNCHANGED <<listerVars, discoveryVars>>)
        /\ WF_vars(ObserveService(v) /\ UNCHANGED <<listerVars, discoveryVars>>)

-----------------------------------------------------------------------------
(***************************************************************************)
(* Properties.                                                             *)
(***************************************************************************)

\* A document that is not what the definitions call for is about to be written
\* again: a version of the group is queued or in a sync.  (sync writes the group's
\* document for whichever version it is called with; updates queue the versions
\* before and after.)
StaleDiscoveryIsQueued ==
    dstate = "running" =>
        /\ \A v \in Version : versionDoc[v] # VersionDocument(defs, v) => v \in dq \cup dkey
        /\ groupDoc # GroupDocument(defs) => dq \cup dkey # {}

\* When the server goes healthy, the versions that were there at the start and
\* have not changed since are in discovery ("we won't go healthy until we can
\* handle the ones already present", apiserver.go).
HealthyMeansPublished ==
    [][healthy' # healthy =>
        \A v \in Version \ touched : versionDoc[v] = VersionDocument(defs, v) /\ (v \in GroupDocument(defs) => v \in groupDoc)]_vars

\* What discovery advertises of a definition, the request handler dispatches,
\* also while it is terminating (scale, which is advertised and never served, set
\* apart).
AdvertisedIsServed ==
    \A v \in Version : versionDoc[v] = VersionDocument(defs, v) =>
        \A e \in versionDoc[v] : e[2] # "scale" =>
            Dispatch(e[2], e[3], Subresources[e[1]], defs[e[1]].term) \notin {NotFound, MethodNotSupported}

\* Every version that some definition serves ends up with an APIService, and one
\* that is managed continuously with the right spec, though the controller gets no
\* events from APIServices, takes every Conflict for success, and users interfere.
ServedVersionsAreRegistered ==
    <>[](\A v \in Registered : (\E g \in GRD : HasServedGRDVersion(defs[g], v)) =>
            svc[v] # None /\ (svc[v].label = "true" => svc[v].ours))

\* An APIService that a user made and nobody asked to manage is left alone, also
\* when it takes the place of a managed one while a call is under way.
ForeignServicesAreKept ==
    [][\A v \in Registered : svc[v] # None /\ svc[v].foreign /\ edits' = edits => svc'[v] = svc[v]]_vars
=============================================================================
