---------------------------- MODULE GRDFinalizer ----------------------------
(***************************************************************************)
(* Deleting a definition.  REST.Delete does not remove it: it sets the     *)
(* deletion timestamp, the cleanup finalizer and Terminating.  The request *)
(* handler then refuses new instances, and GRDFinalizer deletes the ones   *)
(* there are, waits until none is left, and removes its finalizer: with    *)
(* it goes the definition, unless somebody else's finalizer keeps it,      *)
(* whose instances may then be created again.  All of them look at a       *)
(* lister that lags.                                                       *)
(***************************************************************************)
EXTENDS GRDStore

CONSTANTS
    Overlapping,   \* possible values of OverlappingBuiltInResources for the definition
    Deleter,       \* DELETE requests for the definition
    Creator,       \* POST requests for an instance
    Namespace, NamespaceOf   \* [Creator -> Namespace]

ASSUME FinalizerAssumption ==
    NamespaceOf \in [Creator -> Namespace] /\ Overlapping \subseteq BOOLEAN

VARIABLES
    builtIn,   \* the resource overlaps a built-in one
    dpc, duid, \* per DELETE: where it is, and the UID it read
    cpc,       \* per POST: where it is
    inst,      \* per POST: the instance it created
    late,      \* POSTs that were under way when the worker took up the definition
    fq,        \* the finalizer's queue holds the definition
    fpc,       \* where the worker is with it
    fobj,      \* the copy the worker has in its hands
    ftodo,     \* namespaces still to be emptied
    fterm      \* the failure to be reported

requestVars == <<dpc, duid, cpc, inst>>
workerVars == <<late, fpc, fobj, ftodo, fterm>>
finalizerVars == <<builtIn, requestVars, fq, workerVars>>

FinalizerTypeOK ==
    /\ builtIn \in BOOLEAN
    /\ dpc \in [Deleter -> {"idle", "update", "done"}]
    /\ duid \in [Deleter -> 0..MaxUID]
    /\ cpc \in [Creator -> {"idle", "creating", "done"}]
    /\ inst \in [Creator -> {"none", "live", "held", "deleting"}]
    /\ late \subseteq Creator
    /\ fq \in BOOLEAN
    /\ fpc \in {"idle", "mark", "list", "delete", "poll", "report", "remove"}
    /\ fobj \in Definition \cup {Absent}
    /\ ftodo \subseteq Namespace
    /\ fterm \in {"Unset", Failed, Check}

FinalizerInit ==
    /\ builtIn \in Overlapping
    /\ dpc = [x \in Deleter |-> "idle"] /\ duid = [x \in Deleter |-> 0]
    /\ cpc = [c \in Creator |-> "idle"] /\ inst = [c \in Creator |-> "none"] /\ late = {}
    /\ fq = FALSE /\ fpc = "idle" /\ fobj = Absent /\ ftodo = {} /\ fterm = "Unset"

Instances == {c \in Creator : inst[c] # "none"}

-----------------------------------------------------------------------------
(***************************************************************************)
(* REST.Delete: what Get returns decides whether this is the first request *)
(* (the others wait for the finalizer); the UID is a precondition of the   *)
(* update, which may find a definition marked by somebody else.  The file  *)
(* backend compares the updated object with itself and writes nothing.     *)
(***************************************************************************)
DeleteGet(x) ==
    /\ dpc[x] = "idle" /\ Exists(Stored)
    /\ dpc' = [dpc EXCEPT ![x] = IF Stored.del THEN "done" ELSE "update"]
    /\ duid' = [duid EXCEPT ![x] = Stored.uid]
    /\ UNCHANGED <<storeVars, builtIn, cpc, inst, fq, workerVars>>

DeleteUpdate(x) ==
    /\ dpc[x] = "update"
    /\ dpc' = [dpc EXCEPT ![x] = "done"]
    /\ IF Exists(Stored) /\ Stored.uid = duid[x]
          THEN Write({}, MarkDeleted(Stored)) ELSE UNCHANGED <<hist, fresh>>
    /\ UNCHANGED <<backend, uids, changes, faults, builtIn, duid, cpc, inst, fq, workerVars>>

(***************************************************************************)
(* POST of an instance.  The handler looks at the lister once; between     *)
(* that and the storing it may sleep for two seconds (serveResource).      *)
(***************************************************************************)
Served(d) == Exists(d) /\ (d.accepted \/ d.est)

CheckCreate(c) ==
    /\ cpc[c] = "idle" /\ Exists(Listed)
    /\ cpc' = [cpc EXCEPT ![c] = IF Served(Listed) /\ ~IsTerminating(Listed) THEN "creating" ELSE "done"]
    /\ UNCHANGED <<storeVars, builtIn, dpc, duid, inst, fq, workerVars>>

\* An instance may carry a finalizer of its own.
StoreInstance(c) ==
    /\ cpc[c] = "creating"
    /\ cpc' = [cpc EXCEPT ![c] = "done"]
    /\ \E i \in {"live", "held"} : inst' = [inst EXCEPT ![c] = i]
    /\ UNCHANGED <<storeVars, builtIn, dpc, duid, fq, workerVars>>

\* Its owner removes it: the instance goes away if it has been deleted.
ReleaseInstance(c) ==
    /\ inst[c] \in {"held", "deleting"}
    /\ inst' = [inst EXCEPT ![c] = IF @ = "held" THEN "live" ELSE "none"]
    /\ UNCHANGED <<storeVars, builtIn, dpc, duid, cpc, fq, workerVars>>

-----------------------------------------------------------------------------
(***************************************************************************)
(* Event handlers.                                                         *)
(***************************************************************************)
ToFinalize(d) == Deleting(d) /\ d.fin

\* Seeded fault: a resync is no reason to look again.
QueuedUnlessSame(old, new) ==
    ToFinalize(new) /\ (~Exists(old) \/ [old EXCEPT !.term = "Unset"] # [new EXCEPT !.term = "Unset"])

\* Additions; resyncs; updates of something else than Terminating.
Queued(old, new) ==
    /\ ToFinalize(new)
    /\ \/ ~Exists(old)
       \/ old = new
       \/ [old EXCEPT !.term = "Unset"] # [new EXCEPT !.term = "Unset"]

-----------------------------------------------------------------------------
(***************************************************************************)
(* The worker.  (Five of them, but a key is with one at a time.)           *)
(***************************************************************************)
Return(again) ==
    /\ fpc' = "idle" /\ fobj' = Absent /\ late' = {} /\ ftodo' = {} /\ fterm' = "Unset"
    /\ fq' = (fq \/ again)

\* sync begins: from the lister.
FinalizerGet ==
    /\ fq /\ fpc = "idle"
    /\ fq' = FALSE
    /\ \/ /\ ~ToFinalize(Listed)
          /\ UNCHANGED <<workerVars, fresh>>
       \/ /\ ToFinalize(Listed)
          /\ fpc' = "mark" /\ fobj' = Listed /\ Read("finalizer")
          /\ late' = {c \in Creator : cpc[c] = "creating"}
          /\ UNCHANGED <<ftodo, fterm>>
    /\ UNCHANGED <<backend, hist, uids, changes, faults, builtIn, requestVars>>

\* Instances of a definition that overlaps, or that was never established, stay.
AfterMark(d) == IF ~builtIn /\ d.est THEN "list" ELSE "remove"

FinalizerMark ==
    /\ fpc = "mark" /\ Current("finalizer")
    /\ LET d == [fobj EXCEPT !.term = InProgress] IN
       /\ Write({"finalizer"}, d)
       /\ \/ /\ SpuriousConflict(d)
             /\ Return(FALSE)
          \/ /\ ~SpuriousConflict(d)
             /\ fpc' = AfterMark(d) /\ fobj' = d
             /\ UNCHANGED <<late, ftodo, fterm, fq>>
    /\ UNCHANGED <<backend, uids, changes, faults, builtIn, requestVars>>

\* "deleted or changed in the meantime, we'll get called again"
FinalizerRefused ==
    /\ fpc \in {"mark", "remove"} /\ ~Current("finalizer")
    /\ Return(FALSE)
    /\ UNCHANGED <<storeVars, builtIn, requestVars>>

FinalizerError ==
    /\ fpc \in {"mark", "remove"} /\ Fault
    /\ Return(TRUE)
    /\ UNCHANGED <<backend, hist, fresh, uids, changes, builtIn, requestVars>>

\* deleteInstances: the storage comes from the request handler, which gets the
\* definition from the lister; then all instances are listed.
FinalizerList ==
    /\ fpc = "list"
    /\ \/ /\ Exists(Listed)
          /\ fpc' = "delete"
          /\ ftodo' = {NamespaceOf[c] : c \in Instances}
          /\ UNCHANGED <<fterm, faults>>
       \/ /\ ~Exists(Listed) \/ faults < MaxFaults
          /\ faults' = IF Exists(Listed) THEN faults + 1 ELSE faults
          /\ fpc' = "report" /\ fterm' = Failed
          /\ UNCHANGED ftodo
    /\ UNCHANGED <<backend, hist, fresh, uids, changes, builtIn, requestVars, late, fq, fobj>>

\* DeleteCollection in one namespace; a failure is remembered, and the other
\* namespaces are still emptied.
FinalizerDelete ==
    /\ fpc = "delete" /\ ftodo # {}
    /\ \E n \in ftodo :
        /\ ftodo' = ftodo \ {n}
        /\ \/ /\ inst' = [c \in Creator |->
                            CASE NamespaceOf[c] = n /\ inst[c] = "live" -> "none"
                              [] NamespaceOf[c] = n /\ inst[c] = "held" -> "deleting"
                              [] OTHER -> inst[c]]
              /\ UNCHANGED <<fterm, faults>>
           \/ /\ Fault /\ fterm' = Failed
              /\ UNCHANGED inst
    /\ UNCHANGED <<backend, hist, fresh, uids, changes, builtIn, dpc, duid, cpc, late, fq, fpc, fobj>>

FinalizerDeleted ==
    /\ fpc = "delete" /\ ftodo = {}
    /\ fpc' = IF fterm = Failed THEN "report" ELSE "poll"
    /\ UNCHANGED <<storeVars, builtIn, requestVars, late, fq, fobj, ftodo, fterm>>

\* Seeded fault: what DeleteCollection has marked is as good as gone.
LiveInstances == {c \in Creator : inst[c] \in {"live", "held"}}

\* What the poll waits for.
Remaining == Instances

\* The poll ends when a list is empty, or fails: after a minute, or with a list.
FinalizerPoll ==
    /\ fpc = "poll"
    /\ \/ /\ Remaining = {}
          /\ fpc' = "remove"
          /\ UNCHANGED <<fterm, faults>>
       \/ /\ IF Remaining # {} THEN UNCHANGED faults ELSE Fault
          /\ fpc' = "report" /\ fterm' = Check
    /\ UNCHANGED <<backend, hist, fresh, uids, changes, builtIn, requestVars, late, fq, fobj, ftodo>>

\* The failure goes into the status if it can; the key is queued again.
FinalizerReport ==
    /\ fpc = "report"
    /\ IF Current("finalizer")
          THEN Write({"finalizer"}, [fobj EXCEPT !.term = fterm]) ELSE UNCHANGED <<hist, fresh>>
    /\ Return(TRUE)
    /\ UNCHANGED <<backend, uids, changes, faults, builtIn, requestVars>>

\* Terminating becomes False and the cleanup finalizer goes, in one update.
FinalizerRemove ==
    /\ fpc = "remove" /\ Current("finalizer")
    /\ Store(Left([fobj EXCEPT !.fin = FALSE, !.term = Done]))
    /\ Return(FALSE)
    /\ UNCHANGED <<backend, uids, changes, faults, builtIn, requestVars>>

FinalizerStep ==
    \/ FinalizerGet \/ FinalizerMark \/ FinalizerRefused \/ FinalizerList
    \/ FinalizerDelete \/ FinalizerDeleted \/ FinalizerPoll \/ FinalizerReport \/ FinalizerRemove
=============================================================================
