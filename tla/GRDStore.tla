------------------------------ MODULE GRDStore ------------------------------
(***************************************************************************)
(* One GrafanaResourceDefinition in the API server's registry, and the     *)
(* shared informer that follows it.  hist holds the versions from the one  *)
(* in the lister to the one that is stored.  A controller that has read a  *)
(* version may update it as long as it is the stored one (resourceVersion).*)
(* The definition may be deleted and created again under its name: uid     *)
(* tells the incarnations apart.                                           *)
(***************************************************************************)
EXTENDS Naturals, Sequences

CONSTANTS
    Absent,        \* not stored
    Annotation,    \* values of the api-approved annotation
    NewAnnotation, \* those that a definition is created with
    OtherFinalizer,\* whether a definition is created with a finalizer of somebody else
    Backends,      \* subset of {"etcd", "file"}
    MaxUID,        \* bound on how often the definition is created
    MaxChanges,    \* bound on annotation changes by users
    MaxFaults      \* bound on failed calls and broken watches

\* The Terminating condition, by its reason.  Done is that of the finalizer's last
\* update, with which the condition is False: InstanceDeletionCompleted,
\* OverlappingBuiltInResource or NeverEstablished.
Pending == "InstanceDeletionPending"
InProgress == "InstanceDeletionInProgress"
Failed == "InstanceDeletionFailed"
Check == "InstanceDeletionCheck"
Done == "InstanceDeletionCompleted"
Term == {"Unset", Pending, InProgress, Failed, Check, Done}

\* The KubernetesAPIApprovalPolicyConformant condition, by the annotation it was
\* calculated from ("Unset": no condition).
Approval == Annotation \cup {"Unset"}

\* del: there is a deletion timestamp; fin, other: the cleanup finalizer and one of
\* somebody else; accepted, est: the conditions NamesAccepted and Established are True.
Definition ==
    [uid : 1..MaxUID, del : BOOLEAN, fin : BOOLEAN, other : BOOLEAN, accepted : BOOLEAN,
     est : BOOLEAN, term : Term, ann : Annotation, appr : Approval]

ASSUME GRDStoreAssumption ==
    /\ Absent \notin Definition /\ "Unset" \notin Annotation /\ NewAnnotation \subseteq Annotation
    /\ OtherFinalizer \subseteq BOOLEAN
    /\ Backends \subseteq {"etcd", "file"}
    /\ MaxUID \in Nat /\ MaxChanges \in Nat /\ MaxFaults \in Nat

VARIABLES
    backend,   \* the storage behind the registry
    hist,      \* versions of the definition, from the lister's to the stored one
    fresh,     \* controllers whose copy of the definition is the stored version
    uids,      \* incarnations so far
    changes,   \* annotation changes so far
    faults     \* failed calls and broken watches so far

storeVars == <<backend, hist, fresh, uids, changes, faults>>

StoreTypeOK ==
    /\ backend \in Backends
    /\ hist \in Seq(Definition \cup {Absent}) /\ hist # <<>>
    /\ fresh \subseteq {"finalizer", "approval"}
    /\ uids \in 0..MaxUID /\ changes \in 0..MaxChanges /\ faults \in 0..MaxFaults

StoreInit ==
    /\ backend \in Backends
    /\ hist = <<Absent>> /\ fresh = {}
    /\ uids = 0 /\ changes = 0 /\ faults = 0

Stored == hist[Len(hist)]
Listed == Head(hist)

Exists(d) == d # Absent
Deleting(d) == Exists(d) /\ d.del
IsTerminating(d) == Exists(d) /\ d.term \notin {"Unset", Done}

Store(d) == hist' = Append(hist, d) /\ fresh' = {}

\* What an update to d leaves: with the last finalizer goes a definition that is
\* being deleted.
Left(d) == IF d.del /\ ~d.fin /\ ~d.other THEN Absent ELSE d

\* Seeded fault: what the lister returns passes for the stored version.
ReadWithoutVersion(c) == fresh' = fresh \cup {c}

\* Controller c takes its copy from the lister.
Read(c) == fresh' = IF Len(hist) = 1 THEN fresh \cup {c} ELSE fresh \ {c}

\* Seeded fault: an update is accepted whatever it is based on.
Unconditional(c) == Exists(Stored)

\* An update by c of its copy is accepted; otherwise NotFound or Conflict.
Current(c) == Exists(Stored) /\ c \in fresh

\* An accepted update to d by the controllers in by: what was stored already is
\* not written again.
Write(by, d) ==
    IF d = Stored THEN UNCHANGED <<hist, fresh>> ELSE hist' = Append(hist, d) /\ fresh' = by

\* The file backend answers Conflict to an update it has stored.
SpuriousConflict(d) == backend = "file" /\ d # Stored

Fault == faults < MaxFaults /\ faults' = faults + 1

-----------------------------------------------------------------------------
\* A new definition: status is cleared and no deletion is under way.
Fresh(o, a) ==
    [uid |-> uids + 1, del |-> FALSE, fin |-> FALSE, other |-> o, accepted |-> FALSE,
     est |-> FALSE, term |-> "Unset", ann |-> a, appr |-> "Unset"]

\* POST.
CreateGRD ==
    /\ ~Exists(Stored) /\ uids < MaxUID
    /\ \E a \in NewAnnotation, o \in OtherFinalizer : Store(Fresh(o, a))
    /\ uids' = uids + 1
    /\ UNCHANGED <<backend, changes, faults>>

\* PUT of the definition with another annotation: the status stays.
AnnotateGRD ==
    /\ Exists(Stored) /\ changes < MaxChanges
    /\ \E a \in Annotation \ {Stored.ann} : Store([Stored EXCEPT !.ann = a])
    /\ changes' = changes + 1
    /\ UNCHANGED <<backend, uids, faults>>

\* PUT by the owner of the other finalizer, without it.
ReleaseGRD ==
    /\ Exists(Stored) /\ Stored.other
    /\ Store(Left([Stored EXCEPT !.other = FALSE]))
    /\ UNCHANGED <<backend, uids, changes, faults>>

\* NamingConditionController accepts the names, EstablishingController establishes.
AcceptNames ==
    /\ Exists(Stored) /\ ~Stored.accepted
    /\ Store([Stored EXCEPT !.accepted = TRUE])
    /\ UNCHANGED <<backend, uids, changes, faults>>

Establish ==
    /\ Exists(Stored) /\ Stored.accepted /\ ~Stored.est
    /\ Store([Stored EXCEPT !.est = TRUE])
    /\ UNCHANGED <<backend, uids, changes, faults>>

\* REST.Delete, the update function of its GuaranteedUpdate.  It changes what is
\* stored in place, which the file backend takes for no change.
MarkDeleted(d) ==
    IF backend = "file" THEN d ELSE [d EXCEPT !.del = TRUE, !.fin = TRUE, !.term = Pending]

\* The informer: the next watch event, or a list after the watch broke.
NextEvent ==
    /\ Len(hist) > 1 /\ hist' = Tail(hist)
    /\ UNCHANGED <<backend, fresh, uids, changes, faults>>

NewList ==
    /\ Len(hist) > 2 /\ hist' = <<Stored>> /\ Fault
    /\ UNCHANGED <<backend, fresh, uids, changes>>
=============================================================================
