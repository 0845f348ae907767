----------------------------- MODULE APIApproval -----------------------------
(***************************************************************************)
(* KubernetesAPIApprovalPolicyConformantConditionController: computes a    *)
(* condition from the api-approved annotation of a definition in a         *)
(* protected group, and remembers for which annotation it has done so.     *)
(***************************************************************************)
EXTENDS GRDStore

CONSTANT None

VARIABLES
    aq,        \* the controller's queue holds the definition
    apc,       \* where the worker is with it
    aobj,      \* the copy the worker has in its hands
    lastSeen   \* lastSeenProtectedAnnotation of the definition's name

approvalVars == <<aq, apc, aobj, lastSeen>>

ApprovalTypeOK ==
    /\ aq \in BOOLEAN
    /\ apc \in {"idle", "update", "record"}
    /\ aobj \in Definition \cup {Absent}
    /\ lastSeen \in Annotation \cup {None}

ApprovalInit == aq = FALSE /\ apc = "idle" /\ aobj = Absent /\ lastSeen = None

\* Missing, unapproved, a URL or invalid: the condition says which, and its
\* message repeats the annotation.
calculateCondition(d) == d.ann

\* The entry goes with the definition.
Forget(new) == IF new = Absent THEN None ELSE lastSeen

ApprovalReturn(again) == apc' = "idle" /\ aobj' = Absent /\ aq' = (aq \/ again)

\* sync up to the update: nothing to do for an annotation seen before, nor when
\* the condition is what it should be.
Needed(d) == Exists(d) /\ d.ann # lastSeen /\ d.appr # calculateCondition(d)

ApprovalGet ==
    /\ aq /\ apc = "idle"
    /\ aq' = FALSE
    /\ \/ /\ Needed(Listed)
          /\ apc' = "update" /\ aobj' = Listed /\ Read("approval")
       \/ /\ ~Needed(Listed)
          /\ UNCHANGED <<apc, aobj, fresh>>
    /\ UNCHANGED <<backend, hist, uids, changes, faults, lastSeen>>

ApprovalUpdate ==
    /\ apc = "update" /\ Current("approval")
    /\ LET d == [aobj EXCEPT !.appr = calculateCondition(aobj)] IN
       /\ Write({"approval"}, d)
       /\ \/ /\ SpuriousConflict(d)
             /\ ApprovalReturn(FALSE)
          \/ /\ ~SpuriousConflict(d)
             /\ apc' = "record"
             /\ UNCHANGED <<aq, aobj>>
    /\ UNCHANGED <<backend, uids, changes, faults, lastSeen>>

\* Seeded fault: the annotation is recorded although the update was refused.
ApprovalRefusedRecords ==
    /\ apc = "update" /\ ~Current("approval")
    /\ lastSeen' = aobj.ann
    /\ ApprovalReturn(FALSE)
    /\ UNCHANGED storeVars

\* "deleted or changed in the meantime, we'll get called again"
ApprovalRefused ==
    /\ apc = "update" /\ ~Current("approval")
    /\ ApprovalReturn(FALSE)
    /\ UNCHANGED <<storeVars, lastSeen>>

ApprovalError ==
    /\ apc = "update" /\ Fault
    /\ ApprovalReturn(TRUE)
    /\ UNCHANGED <<backend, hist, fresh, uids, changes, lastSeen>>

ApprovalRecord ==
    /\ apc = "record"
    /\ lastSeen' = aobj.ann
    /\ ApprovalReturn(FALSE)
    /\ UNCHANGED storeVars

ApprovalStep == ApprovalGet \/ ApprovalUpdate \/ ApprovalRefused \/ ApprovalRecord
=============================================================================
