---------------------------- MODULE GRDLifecycle ----------------------------
(***************************************************************************)
(* A definition from its creation to its deletion: users, the finalizer    *)
(* and the approval controller, all driven by one shared informer.         *)
(***************************************************************************)
EXTENDS GRDFinalizer, APIApproval

vars == <<storeVars, finalizerVars, approvalVars>>

\* Types; and a copy from which an update is accepted is what is stored, so that
\* a status update takes nothing back (UpdateStatus of both controllers sends the
\* whole definition it has read).
LifecycleTypeOK ==
    /\ StoreTypeOK /\ FinalizerTypeOK /\ ApprovalTypeOK
    /\ Exists(fobj) /\ "finalizer" \in fresh => fobj = Stored
    /\ apc = "update" /\ "approval" \in fresh => aobj = Stored

Init == StoreInit /\ FinalizerInit /\ ApprovalInit

\* What the handlers do with the change of the lister from old to new: an
\* addition or update reaches both queues, a deletion the approval controller.
Handlers(old, new) ==
    /\ fq' = (fq \/ Queued(old, new))
    /\ aq' = (aq \/ Exists(new))
    /\ lastSeen' = Forget(new)
    /\ UNCHANGED <<builtIn, requestVars, workerVars, apc, aobj>>

\* A list finds what is stored now: a deletion and a new creation in between are
\* one update to the handlers.
Observe == (NextEvent \/ NewList) /\ Handlers(Listed, Listed')

\* Every five minutes the informer repeats what it has.
Resync == Exists(Listed) /\ Handlers(Listed, Listed) /\ UNCHANGED storeVars

\* The registry, the other controllers and the users.
Registry ==
    /\ CreateGRD \/ AnnotateGRD \/ ReleaseGRD \/ AcceptNames \/ Establish
    /\ UNCHANGED <<finalizerVars, approvalVars>>

Requests ==
    /\ \/ \E x \in Deleter : DeleteGet(x) \/ DeleteUpdate(x)
       \/ \E c \in Creator : CheckCreate(c) \/ StoreInstance(c) \/ ReleaseInstance(c)
    /\ UNCHANGED approvalVars

Finalizer == (FinalizerStep \/ FinalizerError) /\ UNCHANGED approvalVars
ApprovalController == (ApprovalStep \/ ApprovalError) /\ UNCHANGED finalizerVars

Next == Observe \/ Resync \/ Registry \/ Requests \/ Finalizer \/ ApprovalController

Spec == Init /\ [][Next]_vars

\* Watches, resyncs and workers go on; requests under way end; whoever holds an
\* instance or the definition lets go of it.
Fairness ==
    /\ WF_vars(NextEvent /\ Handlers(Listed, Listed')) /\ WF_vars(Resync)
    /\ WF_vars(FinalizerStep /\ UNCHANGED approvalVars)
    /\ WF_vars(ApprovalStep /\ UNCHANGED finalizerVars)
    /\ WF_vars(ReleaseGRD /\ UNCHANGED <<finalizerVars, approvalVars>>)
    /\ \A c \in Creator :
        WF_vars((StoreInstance(c) \/ ReleaseInstance(c)) /\ UNCHANGED approvalVars)

FairSpec == Spec /\ Fairness

-----------------------------------------------------------------------------
(***************************************************************************)
(* Properties.                                                             *)
(***************************************************************************)

\* When the finalizer lets go of an established definition, the only instances
\* left are of POSTs that were admitted before it took the definition up,
\* whatever was deleted, marked twice, retried after failures or listed late
\* meanwhile, and whether or not the definition goes away with that update
\* (GRDFinalizer.sync, deleteInstances, the Terminating check of serveResource).
NoOrphans ==
    [][ToFinalize(Stored) /\ ~ToFinalize(Stored') /\ Stored.est /\ ~builtIn => Instances \subseteq late]_vars

\* Deletion sticks: no update of a stale copy, by any controller or user, takes
\* back the deletion timestamp, nor the cleanup finalizer and Terminating before
\* the finalizer is done, and no definition disappears that nobody has asked to
\* delete or that a finalizer still holds.
DeletionSticks ==
    [][Exists(Stored) =>
         IF Exists(Stored')
         THEN /\ Stored'.uid = Stored.uid /\ (Stored.del => Stored'.del)
              /\ ToFinalize(Stored) => fpc = "remove" \/ (ToFinalize(Stored') /\ IsTerminating(Stored'))
         ELSE Stored.del /\ IF Stored.fin THEN fpc = "remove" /\ ~Stored.other ELSE Stored.other]_vars

\* A definition that is being deleted goes away in the end, though every
\* controller takes a Conflict for a reason to do nothing, and the finalizer drops
\* the events that only change Terminating.
DeletionCompletes == []<>~Deleting(Stored)

\* The first incarnation of a definition ends up with the approval condition
\* that its annotation calls for, whatever sequence of annotations, stale listers
\* and refused updates lastSeenProtectedAnnotation was recorded in.
ApprovalConverges ==
    <>[](Exists(Stored) /\ Stored.uid = 1 => Stored.appr = calculateCondition(Stored))

\* What Terminating is documented to mean: no instance is admitted for a definition
\* that the lister shows as deleted.  It does not hold: with somebody else's
\* finalizer the definition stays when GRDFinalizer is done, Terminating False, and
\* the request handler does not look at the deletion timestamp
\* (types.go, Terminating; GRDFinalizer.sync; serveResource).
NoCreateWhileDeleting ==
    [][\A c \in Creator : cpc[c] # "creating" /\ cpc'[c] = "creating" => ~Deleting(Listed)]_vars
=============================================================================
