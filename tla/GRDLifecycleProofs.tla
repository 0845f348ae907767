------------------------- MODULE GRDLifecycleProofs -------------------------
(***************************************************************************)
(* Proofs about GRDLifecycle, for any number of DELETE and POST requests,  *)
(* any annotations, either backend and any bounds.                         *)
(*                                                                         *)
(* The updates of the controllers replace the whole definition, so what    *)
(* they keep of it depends on what they hold: a copy whose version is the  *)
(* stored one is the stored definition, and the finalizer holds only       *)
(* definitions that were completely marked as deleted when the lister had  *)
(* them.  NoOrphans further needs that while the finalizer works every     *)
(* version between the lister's and the stored one is Terminating, so that *)
(* no POST is admitted, and that from the poll to the removal of the       *)
(* finalizer the instances that exist are the ones counted as late.        *)
(***************************************************************************)
EXTENDS GRDLifecycle, TLAPS

\* The deletion timestamp never stands alone: REST.Delete sets it together with the
\* finalizer and Terminating, and both go in one update, which leaves a definition
\* only if there is another finalizer.
Complete(d) == Deleting(d) => IF d.fin THEN IsTerminating(d) ELSE d.other /\ d.term = Done

HistoryOK ==
    /\ hist \in Seq(Definition \cup {Absent}) /\ hist # <<>>
    /\ \A i \in 1 .. Len(hist) : Complete(hist[i])

TypeInv == StoreTypeOK /\ FinalizerTypeOK /\ ApprovalTypeOK

\* The worker holds something to finalize from its first step to its last, and a
\* reason to report.
WorkerHolds ==
    /\ fpc = "idle" => fobj = Absent
    /\ fpc # "idle" => ToFinalize(fobj) /\ Complete(fobj)
    /\ fpc = "report" => fterm # "Unset"
    /\ apc # "idle" => Exists(aobj) /\ Complete(aobj)

CopiesAreStored ==
    /\ Exists(fobj) /\ "finalizer" \in fresh => fobj = Stored
    /\ apc = "update" /\ "approval" \in fresh => aobj = Stored

\* Once the poll has found nothing, only late instances exist.
PolledEmpty == fpc = "remove" /\ fobj.est /\ ~builtIn => Instances \subseteq late

AllToFinalize == \A i \in 1 .. Len(hist) : ToFinalize(hist[i])

\* While the worker can go on, all versions that the lister has or will get are to
\* be finalized, and the POSTs under way are those it counts as late.
AtWork == fpc \notin {"idle", "mark"} \/ (fpc = "mark" /\ "finalizer" \in fresh)
UnderWay == {c \in Creator : cpc[c] = "creating"}
Finalizing == AtWork => AllToFinalize /\ UnderWay \subseteq late

IInv == TypeInv /\ HistoryOK /\ WorkerHolds /\ CopiesAreStored /\ PolledEmpty /\ Finalizing

-----------------------------------------------------------------------------
(***************************************************************************)
(* The history.                                                            *)
(***************************************************************************)

\* What is stored and what is listed are versions of the definition.
LEMMA StoredListed ==
    ASSUME HistoryOK
    PROVE  /\ Stored \in Definition \cup {Absent} /\ Complete(Stored)
           /\ Listed \in Definition \cup {Absent} /\ Complete(Listed)
           /\ Len(hist) = 1 => Listed = Stored
           /\ AllToFinalize => ToFinalize(Stored) /\ ToFinalize(Listed)
           /\ Len(hist) = 1 /\ ToFinalize(Listed) => AllToFinalize
  BY DEF HistoryOK, Stored, Listed, AllToFinalize

\* Storing a version makes it the stored one, and leaves the lister alone.
LEMMA AppendVersion ==
    ASSUME HistoryOK, NEW d \in Definition \cup {Absent}, Complete(d), hist' = Append(hist, d)
    PROVE  /\ HistoryOK' /\ Stored' = d
           /\ AllToFinalize /\ ToFinalize(d) => AllToFinalize'
<1>1. hist' \in Seq(Definition \cup {Absent}) /\ hist' # <<>> /\ Len(hist') = Len(hist) + 1
  BY DEF HistoryOK
<1>2. hist'[Len(hist')] = d
  BY <1>1 DEF HistoryOK
<1>3. ASSUME NEW i \in 1 .. Len(hist') PROVE Complete(hist'[i])
  <2>1. CASE i = Len(hist')
    BY <1>2, <2>1
  <2>2. CASE i # Len(hist')
    BY <1>1, <2>2 DEF HistoryOK
  <2> QED
    BY <2>1, <2>2
<1>4. ASSUME AllToFinalize, ToFinalize(d), NEW i \in 1 .. Len(hist')
      PROVE  ToFinalize(hist'[i])
  <2>1. CASE i = Len(hist')
    BY <1>2, <1>4, <2>1
  <2>2. CASE i # Len(hist')
    BY <1>1, <1>4, <2>2 DEF HistoryOK, AllToFinalize
  <2> QED
    BY <2>1, <2>2
<1>5. AllToFinalize /\ ToFinalize(d) => AllToFinalize'
  BY <1>4 DEF AllToFinalize, ToFinalize, Deleting, Exists
<1> QED
  BY <1>1, <1>2, <1>3, <1>5 DEF HistoryOK, Stored, Complete, Deleting, Exists, IsTerminating

\* The informer moves the lister forward, never what is stored.
LEMMA InformerVersion ==
    ASSUME HistoryOK, NextEvent \/ NewList
    PROVE  HistoryOK' /\ Stored' = Stored /\ (AllToFinalize => AllToFinalize')
<1>1. CASE NextEvent
  <2>1. /\ hist' \in Seq(Definition \cup {Absent}) /\ hist' # <<>>
        /\ Len(hist') = Len(hist) - 1
        /\ \A i \in 1 .. Len(hist') : hist'[i] = hist[i + 1]
    <3>1. hist \in Seq(Definition \cup {Absent}) /\ Len(hist) > 1 /\ hist' = Tail(hist)
      BY <1>1 DEF NextEvent, HistoryOK
    <3>2. hist' \in Seq(Definition \cup {Absent}) /\ Len(hist') = Len(hist) - 1
      BY <3>1
    <3>3. \A i \in 1 .. Len(hist') : hist'[i] = hist[i + 1]
      BY <3>1, <3>2
    <3>4. Len(hist') # 0 /\ Len(<<>>) = 0
      BY <3>1, <3>2
    <3>5. hist' # <<>>
      BY <3>4
    <3> QED
      BY <3>2, <3>3, <3>5
  <2>2. Stored' = Stored
    BY <2>1 DEF Stored, HistoryOK
  <2>3. \A i \in 1 .. Len(hist') : i + 1 \in 1 .. Len(hist)
    BY <2>1 DEF HistoryOK
  <2> QED
    BY <2>1, <2>2, <2>3 DEF HistoryOK, AllToFinalize, ToFinalize, Complete, Deleting, Exists, IsTerminating
<1>2. CASE NewList
  <2>1. hist' = <<Stored>>
    BY <1>2 DEF NewList
  <2>2. hist' \in Seq(Definition \cup {Absent}) /\ hist' # <<>> /\ Len(hist') = 1 /\ hist'[1] = Stored
    BY <2>1, StoredListed
  <2> QED
    BY <2>2, StoredListed
       DEF HistoryOK, AllToFinalize, ToFinalize, Stored, Complete, Deleting, Exists, IsTerminating
<1> QED
  BY <1>1, <1>2

\* An accepted update makes d the stored version, and by the controllers that have it,
\* unless it was stored already.
LEMMA WriteVersion ==
    ASSUME HistoryOK, NEW d \in Definition \cup {Absent}, Complete(d), NEW by, Write(by, d)
    PROVE  /\ HistoryOK' /\ Stored' = d
           /\ fresh' = by \/ (Stored' = Stored /\ fresh' = fresh)
           /\ AllToFinalize /\ ToFinalize(d) => AllToFinalize'
<1>1. CASE d = Stored
  BY <1>1 DEF Write, HistoryOK, Stored, AllToFinalize, ToFinalize, Complete, Deleting, Exists, IsTerminating
<1>2. CASE d # Stored
  BY <1>2, AppendVersion DEF Write
<1> QED
  BY <1>1, <1>2

-----------------------------------------------------------------------------
(***************************************************************************)
(* What a step does to the stored definition.                              *)
(***************************************************************************)
Sticks ==
    Exists(Stored) =>
        IF Exists(Stored')
        THEN /\ Stored'.uid = Stored.uid /\ (Stored.del => Stored'.del)
             /\ ToFinalize(Stored) => fpc = "remove" \/ (ToFinalize(Stored') /\ IsTerminating(Stored'))
        ELSE Stored.del /\ IF Stored.fin THEN fpc = "remove" /\ ~Stored.other ELSE Stored.other

LeavesNothing ==
    ToFinalize(Stored) /\ ~ToFinalize(Stored') /\ Stored.est /\ ~builtIn => Instances \subseteq late

StepOK == IInv' /\ Sticks /\ LeavesNothing

\* A step that leaves the stored definition alone, or changes its fields but not its
\* identity, its deletion or its finalizer, has both.
LEMMA KeptVersion ==
    ASSUME HistoryOK, HistoryOK',
           \/ Stored' = Stored
           \/ /\ Exists(Stored')
              /\ Exists(Stored) => /\ Stored'.uid = Stored.uid /\ (Stored.del => Stored'.del)
                                   /\ ToFinalize(Stored) => Stored'.fin
    PROVE  Sticks /\ LeavesNothing
<1>1. Complete(Stored)
  BY StoredListed
<1>2. Complete(Stored') /\ Stored' \in Definition \cup {Absent}
  <2>1. Len(hist') \in 1 .. Len(hist')
    BY DEF HistoryOK
  <2> QED
    BY <2>1 DEF HistoryOK, Stored, Complete, Deleting, Exists, IsTerminating
<1>3. ASSUME Exists(Stored) PROVE Stored.del \in BOOLEAN /\ Stored.fin \in BOOLEAN
  BY <1>3, StoredListed DEF Exists, Definition
<1>4. ASSUME Exists(Stored') PROVE Stored'.del \in BOOLEAN /\ Stored'.fin \in BOOLEAN
  BY <1>2, <1>4 DEF Exists, Definition
<1>5. CASE Stored' = Stored
  BY <1>1, <1>5 DEF Sticks, LeavesNothing, ToFinalize, Deleting, Complete
<1>6. CASE ~Exists(Stored)
  BY <1>6 DEF Sticks, LeavesNothing, ToFinalize, Deleting
<1>7. CASE /\ Exists(Stored) /\ Exists(Stored')
           /\ Exists(Stored) => /\ Stored'.uid = Stored.uid /\ (Stored.del => Stored'.del)
                                /\ ToFinalize(Stored) => Stored'.fin
  <2>1. ToFinalize(Stored) => ToFinalize(Stored')
    <3>1. ASSUME Stored.del PROVE Stored'.del
      BY <1>7, <3>1
    <3>2. ToFinalize(Stored) => Stored'.fin
      BY <1>7
    <3> QED
      BY <1>7, <3>1, <3>2 DEF ToFinalize, Deleting
  <2>2. ToFinalize(Stored') => IsTerminating(Stored')
    BY <1>2 DEF ToFinalize, Complete
  <2> QED
    BY <1>7, <2>1, <2>2, Zenon DEF Sticks, LeavesNothing
<1> QED
  BY <1>5, <1>6, <1>7

-----------------------------------------------------------------------------
\* Init establishes the invariant.
LEMMA InitInv == Init => IInv
<1> SUFFICES ASSUME Init PROVE IInv
  OBVIOUS
<1> USE DEF Init, StoreInit, FinalizerInit, ApprovalInit
<1>1. HistoryOK
  <2>1. hist \in Seq(Definition \cup {Absent}) /\ Len(hist) = 1 /\ hist[1] = Absent
    OBVIOUS
  <2>2. hist # <<>>
    OBVIOUS
  <2> QED
    BY <2>1, <2>2 DEF HistoryOK, Complete, Deleting, Exists
<1>2. StoreTypeOK
  BY <1>1, GRDStoreAssumption DEF StoreTypeOK, HistoryOK
<1>3. FinalizerTypeOK
  <2>1. builtIn \in BOOLEAN
    BY FinalizerAssumption
  <2>2. duid \in [Deleter -> 0 .. MaxUID]
    BY GRDStoreAssumption
  <2> QED
    BY <2>1, <2>2 DEF FinalizerTypeOK
<1>4. ApprovalTypeOK
  BY DEF ApprovalTypeOK
<1> QED
  BY <1>1, <1>2, <1>3, <1>4 DEF IInv, TypeInv, WorkerHolds, CopiesAreStored, PolledEmpty, Finalizing, AtWork, Exists

\* The informer.
LEMMA InformerInv ==
    ASSUME IInv, Observe \/ Resync
    PROVE  StepOK
<1> USE DEF IInv
<1>1. HistoryOK' /\ Stored' = Stored /\ fresh' = fresh /\ (AllToFinalize => AllToFinalize')
  <2>1. CASE Observe
    BY <2>1, InformerVersion DEF Observe, NextEvent, NewList
  <2>2. CASE Resync
    BY <2>2 DEF Resync, storeVars, HistoryOK, AllToFinalize, ToFinalize, Stored, Complete, Deleting, Exists,
       IsTerminating
  <2> QED
    BY <2>1, <2>2
<1>2. Handlers(Listed, Listed') \/ Handlers(Listed, Listed)
  BY DEF Observe, Resync
<1>3. TypeInv'
  <2>1. StoreTypeOK'
    BY <1>1, GRDStoreAssumption
       DEF Observe, Resync, NextEvent, NewList, Fault, storeVars, TypeInv, StoreTypeOK, HistoryOK
  <2>2. FinalizerTypeOK'
    BY <1>2 DEF Handlers, requestVars, workerVars, TypeInv, FinalizerTypeOK, Queued, ToFinalize, Deleting, Exists
  <2>3. ApprovalTypeOK'
    BY <1>2 DEF Handlers, Forget, TypeInv, ApprovalTypeOK, Exists
  <2> QED
    BY <2>1, <2>2, <2>3 DEF TypeInv
<1>4. WorkerHolds' /\ CopiesAreStored' /\ PolledEmpty'
  BY <1>1, <1>2 DEF Handlers, requestVars, workerVars, WorkerHolds, CopiesAreStored, PolledEmpty, Instances,
                    ToFinalize, Complete, Deleting, Exists, IsTerminating
<1>5. Finalizing'
  BY <1>1, <1>2 DEF Handlers, requestVars, workerVars, Finalizing, AtWork, UnderWay
<1> QED
  BY <1>1, <1>3, <1>4, <1>5, KeptVersion DEF StepOK

\* The changes made to the registry by users and by the other controllers.
LEMMA RegistryInv ==
    ASSUME IInv, Registry
    PROVE  StepOK
<1> USE DEF IInv
<1>1. PICK d \in Definition \cup {Absent} :
        /\ hist' = Append(hist, d) /\ fresh' = {} /\ Complete(d)
        /\ ToFinalize(Stored) => ToFinalize(d)
        /\ \/ d = Absent /\ Exists(Stored) /\ Stored.del /\ Stored.other /\ ~Stored.fin
           \/ Exists(d) /\ (Exists(Stored) => d.uid = Stored.uid /\ (Stored.del => d.del))
  <2>1. CASE CreateGRD
    <3>1. PICK a \in NewAnnotation, o \in OtherFinalizer : Store(Fresh(o, a))
      BY <2>1 DEF CreateGRD
    <3> DEFINE d == Fresh(o, a)
    <3>2. d \in Definition /\ ~d.del
      BY <2>1, GRDStoreAssumption DEF CreateGRD, Fresh, TypeInv, StoreTypeOK, Definition, Term, Approval
    <3>3. hist' = Append(hist, d) /\ fresh' = {} /\ ~Exists(Stored)
      BY <2>1, <3>1 DEF CreateGRD, Store
    <3> HIDE DEF d
    <3>4. Exists(d) /\ Complete(d)
      BY <3>2, GRDStoreAssumption DEF Complete, Deleting, Exists
    <3> QED
      BY <3>2, <3>3, <3>4 DEF ToFinalize, Deleting
  <2>2. CASE AnnotateGRD \/ AcceptNames \/ Establish
    <3>1. Stored \in Definition /\ Complete(Stored)
      BY <2>2, StoredListed DEF AnnotateGRD, AcceptNames, Establish, Exists
    <3>2. PICK a \in Annotation, p \in BOOLEAN, e \in BOOLEAN :
            Store([Stored EXCEPT !.ann = a, !.accepted = p, !.est = e])
      BY <2>2, <3>1 DEF AnnotateGRD, AcceptNames, Establish, Definition
    <3> DEFINE d == [Stored EXCEPT !.ann = a, !.accepted = p, !.est = e]
    <3>3. /\ d \in Definition /\ d.uid = Stored.uid /\ d.del = Stored.del /\ d.fin = Stored.fin
          /\ d.other = Stored.other /\ d.term = Stored.term
      BY <3>1 DEF Definition
    <3>4. hist' = Append(hist, d) /\ fresh' = {}
      BY <3>2 DEF Store
    <3> HIDE DEF d
    <3>5. Exists(d) /\ Exists(Stored)
      BY <3>1, <3>3, GRDStoreAssumption DEF Exists
    <3>6. Complete(d) /\ (ToFinalize(Stored) => ToFinalize(d))
      BY <3>1, <3>3, <3>5 DEF Complete, ToFinalize, Deleting, IsTerminating
    <3> QED
      BY <3>3, <3>4, <3>5, <3>6
  <2>3. CASE ReleaseGRD
    <3>1. Stored \in Definition /\ Complete(Stored) /\ Exists(Stored) /\ Stored.other
      BY <2>3, StoredListed DEF ReleaseGRD, Exists
    <3> DEFINE e == [Stored EXCEPT !.other = FALSE]
    <3>2. /\ e \in Definition /\ e.uid = Stored.uid /\ e.del = Stored.del /\ e.fin = Stored.fin
          /\ e.term = Stored.term /\ ~e.other
      BY <3>1 DEF Definition
    <3>3. hist' = Append(hist, Left(e)) /\ fresh' = {}
      BY <2>3 DEF ReleaseGRD, Store
    <3> HIDE DEF e
    <3>4. Exists(e)
      BY <3>2, GRDStoreAssumption DEF Exists
    <3>5. CASE e.del /\ ~e.fin
      <4>1. Left(e) = Absent
        BY <3>2, <3>5 DEF Left
      <4>2. Complete(Absent) /\ ~ToFinalize(Stored)
        BY <3>2, <3>5 DEF Complete, ToFinalize, Deleting, Exists
      <4> QED
        BY <3>1, <3>2, <3>3, <3>5, <4>1, <4>2
    <3>6. CASE ~(e.del /\ ~e.fin)
      <4>1. Left(e) = e
        BY <3>6 DEF Left
      <4>2. Complete(e) /\ (ToFinalize(Stored) => ToFinalize(e))
        BY <3>1, <3>2, <3>4, <3>6 DEF Complete, ToFinalize, Deleting, IsTerminating
      <4> QED
        BY <3>2, <3>3, <3>4, <4>1, <4>2
    <3> QED
      BY <3>5, <3>6
  <2> QED
    BY <2>1, <2>2, <2>3 DEF Registry
<1>2. HistoryOK' /\ Stored' = d /\ (AllToFinalize => AllToFinalize')
  BY <1>1, AppendVersion, StoredListed
<1>3. TypeInv'
  <2>1. StoreTypeOK'
    BY <1>1, <1>2, GRDStoreAssumption
       DEF Registry, CreateGRD, AnnotateGRD, ReleaseGRD, AcceptNames, Establish, TypeInv, StoreTypeOK, HistoryOK
  <2> QED
    BY <2>1 DEF Registry, TypeInv, FinalizerTypeOK, ApprovalTypeOK, finalizerVars, requestVars, workerVars,
       approvalVars
<1>4. WorkerHolds' /\ CopiesAreStored' /\ PolledEmpty'
  BY <1>1 DEF Registry, finalizerVars, requestVars, workerVars, approvalVars, WorkerHolds, CopiesAreStored,
              PolledEmpty, Instances, ToFinalize, Complete, Deleting, Exists, IsTerminating
<1>5. Finalizing'
  BY <1>1, <1>2 DEF Registry, finalizerVars, requestVars, workerVars, Finalizing, AtWork, UnderWay
<1>6. Sticks /\ LeavesNothing
  <2>1. CASE Exists(d)
    BY <1>1, <1>2, <2>1, KeptVersion DEF ToFinalize, Exists
  <2>2. CASE ~Exists(d)
    BY <1>1, <1>2, <2>2 DEF Sticks, LeavesNothing, ToFinalize
  <2> QED
    BY <2>1, <2>2
<1> QED
  BY <1>2, <1>3, <1>4, <1>5, <1>6 DEF StepOK

\* DELETE requests for the definition and POST requests for instances.
LEMMA RequestsInv ==
    ASSUME IInv, Requests
    PROVE  StepOK
<1> USE DEF IInv
<1>1. ASSUME NEW x \in Deleter, DeleteGet(x) PROVE StepOK
  <2>1. HistoryOK' /\ Stored' = Stored
    BY <1>1 DEF DeleteGet, storeVars, HistoryOK, Stored, Complete, Deleting, Exists, IsTerminating
  <2> USE DEF Finalizing, AtWork, UnderWay, AllToFinalize
  <2>2. Stored \in Definition
    BY <1>1, StoredListed DEF DeleteGet, Exists
  <2>3. TypeInv'
    <3>1. dpc' \in [Deleter -> {"idle", "update", "done"}]
      BY <1>1 DEF DeleteGet, TypeInv, FinalizerTypeOK
    <3>2. duid' \in [Deleter -> 0 .. MaxUID]
      BY <1>1, <2>2, GRDStoreAssumption DEF DeleteGet, TypeInv, FinalizerTypeOK, Definition
    <3> QED
      BY <1>1, <3>1, <3>2 DEF DeleteGet, Requests, TypeInv, StoreTypeOK, FinalizerTypeOK, ApprovalTypeOK, storeVars,
         workerVars, approvalVars
  <2>4. WorkerHolds' /\ CopiesAreStored' /\ PolledEmpty' /\ Finalizing'
    BY <1>1, <2>1 DEF DeleteGet, Requests, storeVars, workerVars, approvalVars, WorkerHolds, CopiesAreStored,
       PolledEmpty,
                      Instances, ToFinalize, Complete, Deleting, Exists, IsTerminating
  <2> QED
    BY <2>1, <2>3, <2>4, KeptVersion DEF StepOK
<1>2. ASSUME NEW x \in Deleter, DeleteUpdate(x) PROVE StepOK
  <2>1. /\ HistoryOK' /\ fresh' \subseteq fresh /\ (AllToFinalize => AllToFinalize')
        /\ "finalizer" \in fresh' \/ "approval" \in fresh' => Stored' = Stored
        /\ \/ Stored' = Stored
           \/ /\ Exists(Stored') /\ Exists(Stored)
              /\ Stored'.uid = Stored.uid /\ (Stored.del => Stored'.del) /\ (Stored.fin => Stored'.fin)
    <3>1. CASE Exists(Stored) /\ Stored.uid = duid[x]
      <4>1. Stored \in Definition /\ Complete(Stored)
        BY <3>1, StoredListed DEF Exists
      <4> DEFINE d == MarkDeleted(Stored)
      <4>2. d \in Definition /\ Complete(d) /\ d.uid = Stored.uid /\ (Stored.del => d.del) /\ (Stored.fin => d.fin)
        <5>1. CASE backend = "file"
          BY <4>1, <5>1 DEF MarkDeleted
        <5>2. CASE backend # "file"
          <6>1. d = [Stored EXCEPT !.del = TRUE, !.fin = TRUE, !.term = Pending]
            BY <5>2 DEF MarkDeleted
          <6>2. d \in Definition /\ d.uid = Stored.uid /\ d.del /\ d.fin /\ d.term = Pending
            BY <4>1, <6>1 DEF Definition, Term
          <6> QED
            BY <6>2 DEF Complete, Deleting, IsTerminating, Exists, Pending, Done
        <5> QED
          BY <5>1, <5>2
      <4>3. Exists(d) /\ (AllToFinalize => ToFinalize(d))
        BY <4>2, StoredListed, GRDStoreAssumption DEF ToFinalize, Deleting, Exists
      <4>4. Write({}, d)
        BY <1>2, <3>1 DEF DeleteUpdate
      <4> HIDE DEF d
      <4>5. /\ HistoryOK' /\ Stored' = d /\ (fresh' = {} \/ (Stored' = Stored /\ fresh' = fresh))
            /\ AllToFinalize => AllToFinalize'
        BY <4>2, <4>3, <4>4, WriteVersion
      <4> QED
        BY <3>1, <4>2, <4>3, <4>5 DEF Exists
    <3>2. CASE ~(Exists(Stored) /\ Stored.uid = duid[x])
      <4>1. UNCHANGED <<hist, fresh>>
        BY <1>2, <3>2 DEF DeleteUpdate
      <4> QED
        BY <4>1 DEF HistoryOK, AllToFinalize, ToFinalize, Stored, Complete, Deleting, Exists, IsTerminating
    <3> QED
      BY <3>1, <3>2
  <2>2. TypeInv'
    <3>1. dpc' \in [Deleter -> {"idle", "update", "done"}]
      BY <1>2 DEF DeleteUpdate, TypeInv, FinalizerTypeOK
    <3> QED
      BY <1>2, <2>1, <3>1 DEF DeleteUpdate, Requests, TypeInv, StoreTypeOK, FinalizerTypeOK, ApprovalTypeOK,
         HistoryOK,
                              workerVars, approvalVars
  <2>3. WorkerHolds' /\ CopiesAreStored' /\ PolledEmpty'
    BY <1>2, <2>1 DEF DeleteUpdate, Requests, workerVars, approvalVars, WorkerHolds, CopiesAreStored, PolledEmpty,
                      Instances, ToFinalize, Complete, Deleting, Exists, IsTerminating
  <2>4. Finalizing'
    BY <1>2, <2>1 DEF DeleteUpdate, workerVars, Finalizing, AtWork, UnderWay
  <2> QED
    BY <2>1, <2>2, <2>3, <2>4, KeptVersion DEF StepOK, ToFinalize
<1>3. ASSUME NEW c \in Creator, CheckCreate(c) \/ StoreInstance(c) \/ ReleaseInstance(c) PROVE StepOK
  <2>1. UNCHANGED <<storeVars, builtIn, dpc, duid, fq, late, fpc, fobj, ftodo, fterm>>
    BY <1>3 DEF CheckCreate, StoreInstance, ReleaseInstance, workerVars
  <2>2. HistoryOK' /\ Stored' = Stored /\ fresh' = fresh /\ (AllToFinalize => AllToFinalize')
    BY <2>1 DEF storeVars, HistoryOK, AllToFinalize, ToFinalize, Stored, Complete, Deleting, Exists, IsTerminating
  <2>3. /\ cpc' \in [Creator -> {"idle", "creating", "done"}]
        /\ inst' \in [Creator -> {"none", "live", "held", "deleting"}]
    BY <1>3 DEF CheckCreate, StoreInstance, ReleaseInstance, workerVars, TypeInv, FinalizerTypeOK
  <2>4. AtWork => UnderWay' \subseteq UnderWay
    <3>1. AtWork => IsTerminating(Listed)
      BY StoredListed DEF Finalizing, ToFinalize, Complete
    <3> QED
      BY <1>3, <3>1 DEF CheckCreate, StoreInstance, ReleaseInstance, TypeInv, FinalizerTypeOK, UnderWay
  <2>7. Instances' \subseteq Instances \cup UnderWay
    BY <1>3 DEF CheckCreate, StoreInstance, ReleaseInstance, TypeInv, FinalizerTypeOK, Instances, UnderWay
  <2>8. Finalizing'
    BY <2>1, <2>2, <2>4 DEF Finalizing, AtWork
  <2>5. TypeInv'
    BY <2>1, <2>3 DEF Requests, TypeInv, StoreTypeOK, FinalizerTypeOK, ApprovalTypeOK, storeVars, approvalVars
  <2>6. WorkerHolds' /\ CopiesAreStored' /\ PolledEmpty'
    BY <2>1, <2>2, <2>7 DEF Requests, approvalVars, WorkerHolds, CopiesAreStored, PolledEmpty, Finalizing, AtWork,
                            ToFinalize, Complete, Deleting, Exists, IsTerminating
  <2> QED
    BY <2>2, <2>5, <2>6, <2>8, KeptVersion DEF StepOK
<1> QED
  BY <1>1, <1>2, <1>3 DEF Requests

-----------------------------------------------------------------------------
(***************************************************************************)
(* The worker of the finalizer.                                            *)
(***************************************************************************)

\* The worker holds the stored definition when its update would be accepted.
LEMMA HoldsStored ==
    ASSUME IInv, fpc # "idle"
    PROVE  /\ fobj \in Definition /\ fobj.del /\ fobj.fin /\ Complete(fobj)
           /\ Current("finalizer") => fobj = Stored
  BY DEF IInv, TypeInv, FinalizerTypeOK, WorkerHolds, CopiesAreStored, ToFinalize, Deleting, Exists, Current

\* A definition with another Terminating reason is as complete.
LEMMA WithTerm ==
    ASSUME NEW d \in Definition, d.del, d.fin, NEW t \in Term \ {"Unset", Done}
    PROVE  LET e == [d EXCEPT !.term = t] IN
           /\ e \in Definition /\ Exists(e) /\ ToFinalize(e) /\ Complete(e)
           /\ e.uid = d.uid /\ e.est = d.est
<1> DEFINE e == [d EXCEPT !.term = t]
<1>1. e \in Definition /\ e.del /\ e.fin /\ e.term = t /\ e.uid = d.uid /\ e.est = d.est
  BY DEF Definition
<1>2. Exists(e)
  BY <1>1, GRDStoreAssumption DEF Exists
<1> HIDE DEF e
<1>3. ToFinalize(e) /\ Complete(e)
  BY <1>1, <1>2 DEF ToFinalize, Complete, Deleting, IsTerminating
<1> QED
  BY <1>1, <1>2, <1>3 DEF e

\* Returning leaves the worker without a copy; queues and types are kept.
LEMMA Returned ==
    ASSUME IInv, NEW again \in BOOLEAN, Return(again), HistoryOK',
           fresh' \subseteq {"finalizer", "approval"}, faults' \in 0 .. MaxFaults,
           UNCHANGED <<backend, uids, changes, builtIn, requestVars, approvalVars>>,
           "approval" \in fresh' => Stored' = Stored /\ "approval" \in fresh
    PROVE  IInv'
<1> USE DEF IInv
<1>1. StoreTypeOK'
  BY DEF TypeInv, StoreTypeOK, HistoryOK
<1>2. fq' \in BOOLEAN
  BY DEF Return, TypeInv, FinalizerTypeOK
<1>3. FinalizerTypeOK' /\ ApprovalTypeOK'
  BY <1>2 DEF Return, TypeInv, FinalizerTypeOK, ApprovalTypeOK, requestVars, approvalVars
<1>4. WorkerHolds' /\ CopiesAreStored' /\ PolledEmpty' /\ Finalizing'
  BY DEF Return, approvalVars, WorkerHolds, CopiesAreStored, PolledEmpty, Finalizing, AtWork, Complete, Deleting,
     IsTerminating, Exists
<1> QED
  BY <1>1, <1>3, <1>4 DEF TypeInv

\* The steps of sync that leave the store alone and do not return.
LEMMA FinalizerWorksInv ==
    ASSUME IInv, UNCHANGED approvalVars,
           FinalizerGet \/ FinalizerList \/ FinalizerDelete \/ FinalizerDeleted \/ FinalizerPoll
    PROVE  StepOK
<1> USE DEF IInv
<1>1. HistoryOK' /\ Stored' = Stored /\ Listed' = Listed /\ (AllToFinalize => AllToFinalize')
  BY DEF FinalizerGet, FinalizerList, FinalizerDelete, FinalizerDeleted, FinalizerPoll, storeVars,
         HistoryOK, AllToFinalize, ToFinalize, Stored, Listed, Complete, Deleting, Exists, IsTerminating
<1>2. CASE FinalizerGet
  <2>1. TypeInv'
    <3>1. fresh' \subseteq {"finalizer", "approval"}
      BY <1>2 DEF FinalizerGet, Read, TypeInv, StoreTypeOK
    <3>2. fobj' \in Definition \cup {Absent}
      BY <1>2, StoredListed DEF FinalizerGet, workerVars, TypeInv, FinalizerTypeOK
    <3>3. StoreTypeOK' /\ ApprovalTypeOK'
      BY <1>2, <3>1 DEF FinalizerGet, TypeInv, StoreTypeOK, ApprovalTypeOK, approvalVars
    <3>4. FinalizerTypeOK'
      BY <1>2, <3>2 DEF FinalizerGet, TypeInv, FinalizerTypeOK, requestVars, workerVars
    <3> QED
      BY <3>3, <3>4 DEF TypeInv
  <2>2. WorkerHolds'
    BY <1>2, StoredListed DEF FinalizerGet, workerVars, approvalVars, WorkerHolds, ToFinalize, Complete, Deleting,
       Exists, IsTerminating
  <2>3. CopiesAreStored'
    BY <1>1, <1>2, StoredListed DEF FinalizerGet, Read, workerVars, approvalVars, CopiesAreStored, Exists
  <2>4. PolledEmpty'
    BY <1>2 DEF FinalizerGet, workerVars, requestVars, PolledEmpty, Instances
  <2>5. Finalizing'
    <3>1. CASE ToFinalize(Listed) /\ fpc' = "mark" /\ Read("finalizer") /\ late' = UnderWay
      <4>1. "finalizer" \in fresh' => AllToFinalize
        BY <3>1, StoredListed DEF Read
      <4> QED
        BY <1>1, <1>2, <3>1, <4>1 DEF FinalizerGet, requestVars, Finalizing, AtWork, UnderWay
    <3>2. CASE UNCHANGED <<workerVars, fresh>>
      BY <1>2, <3>2 DEF FinalizerGet, workerVars, Finalizing, AtWork
    <3> QED
      BY <1>2, <3>1, <3>2 DEF FinalizerGet, UnderWay
  <2> QED
    BY <1>1, <2>1, <2>2, <2>3, <2>4, <2>5, KeptVersion DEF StepOK
<1>3. CASE FinalizerList \/ FinalizerDelete \/ FinalizerDeleted \/ FinalizerPoll
  <2>1. faults' \in 0 .. MaxFaults
    BY <1>3, GRDStoreAssumption
       DEF FinalizerList, FinalizerDelete, FinalizerDeleted, FinalizerPoll, Fault, storeVars, TypeInv, StoreTypeOK
  <2>2. inst' \in [Creator -> {"none", "live", "held", "deleting"}]
    BY <1>3 DEF FinalizerList, FinalizerDelete, FinalizerDeleted, FinalizerPoll, requestVars, TypeInv, FinalizerTypeOK
  <2>3. ftodo' \subseteq Namespace
    BY <1>3, FinalizerAssumption
       DEF FinalizerList, FinalizerDelete, FinalizerDeleted, FinalizerPoll, TypeInv, FinalizerTypeOK, Instances
  <2>4. /\ fpc' \in {"list", "delete", "poll", "report", "remove"}
        /\ fterm' \in {"Unset", Failed, Check}
        /\ fpc \notin {"idle", "mark"} /\ (fpc' = "report" => fterm' # "Unset")
        /\ fpc' = "remove" => Instances = {} /\ inst' = inst
    BY <1>3 DEF FinalizerList, FinalizerDelete, FinalizerDeleted, FinalizerPoll, requestVars, TypeInv,
       FinalizerTypeOK, Remaining,
                Failed, Check
  <2>5. UNCHANGED <<backend, hist, fresh, uids, changes, builtIn, dpc, duid, cpc, late, fq, fobj>>
    BY <1>3 DEF FinalizerList, FinalizerDelete, FinalizerDeleted, FinalizerPoll, requestVars, storeVars
  <2>6. TypeInv'
    BY <2>1, <2>2, <2>3, <2>4, <2>5 DEF TypeInv, StoreTypeOK, FinalizerTypeOK, ApprovalTypeOK, approvalVars
  <2>7. WorkerHolds' /\ CopiesAreStored'
    BY <1>1, <2>4, <2>5 DEF approvalVars, WorkerHolds, CopiesAreStored, ToFinalize, Complete, Deleting, Exists,
       IsTerminating
  <2>8. PolledEmpty'
    BY <2>4 DEF PolledEmpty, Instances
  <2>9. Finalizing'
    BY <1>1, <2>4, <2>5 DEF Finalizing, AtWork, UnderWay
  <2> QED
    BY <1>1, <2>6, <2>7, <2>8, <2>9, KeptVersion DEF StepOK
<1> QED
  BY <1>2, <1>3

\* The steps of sync that write, or end it.
LEMMA FinalizerWritesInv ==
    ASSUME IInv, UNCHANGED approvalVars,
           FinalizerMark \/ FinalizerRefused \/ FinalizerError \/ FinalizerReport \/ FinalizerRemove
    PROVE  StepOK
<1> USE DEF IInv
<1>1. CASE FinalizerMark
  <2> DEFINE d == [fobj EXCEPT !.term = InProgress]
  <2>1. fobj = Stored /\ fobj \in Definition /\ fobj.del /\ fobj.fin
    BY <1>1, HoldsStored DEF FinalizerMark
  <2>2. /\ d \in Definition /\ Exists(d) /\ ToFinalize(d) /\ Complete(d)
        /\ d.uid = Stored.uid /\ d.est = fobj.est /\ d.del
    <3>1. InProgress \in Term \ {"Unset", Done}
      BY DEF InProgress, Term, Done
    <3> QED
      BY <2>1, <3>1, WithTerm DEF ToFinalize, Deleting
  <2>3. /\ Write({"finalizer"}, d)
        /\ \/ SpuriousConflict(d) /\ Return(FALSE)
           \/ fpc' = AfterMark(d) /\ fobj' = d /\ UNCHANGED <<late, ftodo, fterm, fq>>
        /\ UNCHANGED <<backend, uids, changes, faults, builtIn, requestVars>>
    BY <1>1 DEF FinalizerMark
  <2> HIDE DEF d
  <2>4. /\ HistoryOK' /\ Stored' = d /\ (fresh' = {"finalizer"} \/ (Stored' = Stored /\ fresh' = fresh))
        /\ AllToFinalize => AllToFinalize'
    BY <2>2, <2>3, WriteVersion
  <2>5. Sticks /\ LeavesNothing
    BY <2>2, <2>4, KeptVersion DEF ToFinalize, Deleting
  <2>6. CASE Return(FALSE)
    <3>1. fresh' \subseteq {"finalizer", "approval"} /\ faults' \in 0 .. MaxFaults
      BY <2>3, <2>4 DEF TypeInv, StoreTypeOK
    <3> QED
      BY <2>3, <2>4, <2>5, <2>6, <3>1, Returned DEF StepOK
  <2>7. CASE fpc' = AfterMark(d) /\ fobj' = d /\ UNCHANGED <<late, ftodo, fterm, fq>>
    <3>1. TypeInv'
      BY <2>2, <2>3, <2>4, <2>7
         DEF AfterMark, TypeInv, StoreTypeOK, FinalizerTypeOK, ApprovalTypeOK, HistoryOK, requestVars, approvalVars
    <3>2. WorkerHolds'
      BY <2>2, <2>7 DEF AfterMark, approvalVars, WorkerHolds, ToFinalize, Complete, Deleting, IsTerminating, Exists
    <3>3. CopiesAreStored'
      BY <2>4, <2>7 DEF approvalVars, CopiesAreStored, Exists
    <3>4. PolledEmpty'
      BY <2>3, <2>7 DEF AfterMark, PolledEmpty
    <3>5. Finalizing'
      <4>1. AtWork
        BY <1>1 DEF FinalizerMark, Current, AtWork
      <4> QED
        BY <2>3, <2>4, <2>7, <4>1 DEF requestVars, Finalizing, UnderWay
    <3> QED
      BY <2>4, <2>5, <3>1, <3>2, <3>3, <3>4, <3>5 DEF StepOK
  <2> QED
    BY <2>3, <2>6, <2>7
<1>2. CASE FinalizerRefused \/ FinalizerError
  <2>1. HistoryOK' /\ Stored' = Stored /\ fresh' = fresh
    BY <1>2 DEF FinalizerRefused, FinalizerError, storeVars, HistoryOK, Stored, Complete, Deleting, Exists,
       IsTerminating
  <2>2. faults' \in 0 .. MaxFaults /\ fresh' \subseteq {"finalizer", "approval"}
    <3>1. faults' = faults \/ (faults < MaxFaults /\ faults' = faults + 1)
      BY <1>2 DEF FinalizerRefused, FinalizerError, Fault, storeVars
    <3> QED
      BY <2>1, <3>1, GRDStoreAssumption DEF TypeInv, StoreTypeOK
  <2>3. UNCHANGED <<backend, uids, changes, builtIn, requestVars, approvalVars>>
    BY <1>2 DEF FinalizerRefused, FinalizerError, storeVars
  <2>4. Return(FALSE) \/ Return(TRUE)
    BY <1>2 DEF FinalizerRefused, FinalizerError
  <2>5. IInv'
    BY <2>1, <2>2, <2>3, <2>4, Returned
  <2> QED
    BY <2>1, <2>5, KeptVersion DEF StepOK
<1>3. CASE FinalizerReport
  <2>1. /\ HistoryOK' /\ fresh' \subseteq {"finalizer", "approval"}
        /\ "approval" \in fresh' => Stored' = Stored /\ "approval" \in fresh
        /\ \/ Stored' = Stored
           \/ Exists(Stored') /\ Stored'.uid = Stored.uid /\ Stored'.del /\ Stored'.fin
    <3>1. CASE Current("finalizer") /\ fterm # "Unset"
      <4> DEFINE d == [fobj EXCEPT !.term = fterm]
      <4>1. fobj = Stored /\ fobj \in Definition /\ fobj.del /\ fobj.fin
        BY <1>3, <3>1, HoldsStored DEF FinalizerReport
      <4>2. fterm \in Term \ {"Unset", Done}
        BY <3>1 DEF TypeInv, FinalizerTypeOK, Term, Failed, Check, Done
      <4>3. d \in Definition /\ Exists(d) /\ Complete(d) /\ d.uid = Stored.uid /\ d.del /\ d.fin
        BY <4>1, <4>2, WithTerm DEF ToFinalize, Deleting
      <4>4. Write({"finalizer"}, d)
        BY <1>3, <3>1 DEF FinalizerReport
      <4> HIDE DEF d
      <4>5. HistoryOK' /\ Stored' = d /\ (fresh' = {"finalizer"} \/ (Stored' = Stored /\ fresh' = fresh))
        BY <4>3, <4>4, WriteVersion
      <4> QED
        BY <4>3, <4>5 DEF TypeInv, StoreTypeOK, Exists
    <3>2. CASE ~Current("finalizer")
      <4>1. UNCHANGED <<hist, fresh>>
        BY <1>3, <3>2 DEF FinalizerReport
      <4> QED
        BY <4>1 DEF HistoryOK, Stored, Complete, Deleting, Exists, IsTerminating, TypeInv, StoreTypeOK
    <3> QED
      BY <1>3, <3>1, <3>2 DEF FinalizerReport, WorkerHolds
  <2>2. Return(TRUE) /\ UNCHANGED <<backend, uids, changes, faults, builtIn, requestVars>>
    BY <1>3 DEF FinalizerReport
  <2>3. faults' \in 0 .. MaxFaults
    BY <2>2 DEF TypeInv, StoreTypeOK
  <2>4. IInv'
    BY <2>1, <2>2, <2>3, Returned
  <2> QED
    BY <2>1, <2>4, KeptVersion DEF StepOK
<1>4. CASE FinalizerRemove
  <2> DEFINE e == [fobj EXCEPT !.fin = FALSE, !.term = Done]
  <2>1. fobj = Stored /\ fobj \in Definition /\ fobj.del /\ fobj.fin
    BY <1>4, HoldsStored DEF FinalizerRemove
  <2>2. /\ e \in Definition /\ e.del /\ ~e.fin /\ e.term = Done
        /\ e.other = fobj.other /\ e.uid = fobj.uid
    <3>1. Done \in Term
      BY DEF Term
    <3> QED
      BY <2>1, <3>1 DEF Definition
  <2>3. /\ hist' = Append(hist, Left(e)) /\ fresh' = {} /\ fpc = "remove" /\ Return(FALSE)
        /\ UNCHANGED <<backend, uids, changes, faults, builtIn, requestVars>>
    BY <1>4 DEF FinalizerRemove, Store
  <2> HIDE DEF e
  <2>4. Left(e) \in Definition \cup {Absent} /\ Complete(Left(e))
    BY <2>2 DEF Left, Complete, Deleting, Exists
  <2>5. HistoryOK' /\ Stored' = Left(e)
    BY <2>3, <2>4, AppendVersion
  <2>6. IInv'
    <3>1. faults' \in 0 .. MaxFaults
      BY <2>3 DEF TypeInv, StoreTypeOK
    <3> QED
      BY <2>3, <2>5, <3>1, Returned
  <2>7. Sticks
    <3>1. CASE fobj.other
      <4>1. Stored' = e
        BY <2>2, <2>5, <3>1 DEF Left
      <4> QED
        BY <2>1, <2>2, <2>3, <4>1, GRDStoreAssumption DEF Sticks, Exists
    <3>2. CASE ~fobj.other
      <4>1. Stored' = Absent
        BY <2>2, <2>5, <3>2 DEF Left
      <4> QED
        BY <2>1, <2>3, <3>2, <4>1 DEF Sticks, Exists
    <3> QED
      BY <3>1, <3>2
  <2>8. LeavesNothing
    BY <2>1, <2>3 DEF LeavesNothing, PolledEmpty
  <2> QED
    BY <2>6, <2>7, <2>8 DEF StepOK
<1> QED
  BY <1>1, <1>2, <1>3, <1>4

-----------------------------------------------------------------------------
\* The approval controller.
LEMMA ApprovalInv ==
    ASSUME IInv, ApprovalController
    PROVE  StepOK
<1> USE DEF IInv
<1>1. UNCHANGED <<backend, uids, changes, finalizerVars>>
  BY DEF ApprovalController, ApprovalStep, ApprovalGet, ApprovalUpdate, ApprovalRefused, ApprovalError,
     ApprovalRecord, storeVars
<1>2. /\ aq' \in BOOLEAN
      /\ apc' \in {"idle", "update", "record"}
      /\ faults' \in 0 .. MaxFaults
  <2>1. faults' = faults \/ (faults < MaxFaults /\ faults' = faults + 1)
    BY DEF ApprovalController, ApprovalStep, ApprovalGet, ApprovalUpdate, ApprovalRefused, ApprovalError,
           ApprovalRecord, Fault, storeVars
  <2>2. aq' \in BOOLEAN
    BY DEF ApprovalController, ApprovalStep, ApprovalGet, ApprovalUpdate, ApprovalRefused, ApprovalError,
           ApprovalRecord, ApprovalReturn, TypeInv, ApprovalTypeOK
  <2>3. apc' \in {"idle", "update", "record"}
    BY DEF ApprovalController, ApprovalStep, ApprovalGet, ApprovalUpdate, ApprovalRefused, ApprovalError,
           ApprovalRecord, ApprovalReturn, TypeInv, ApprovalTypeOK
  <2> QED
    BY <2>1, <2>2, <2>3, GRDStoreAssumption DEF TypeInv, StoreTypeOK
<1>3. /\ HistoryOK' /\ fresh' \subseteq {"finalizer", "approval"}
      /\ aobj' \in Definition \cup {Absent} /\ lastSeen' \in Annotation \cup {None}
      /\ AllToFinalize => AllToFinalize'
      /\ \/ Stored' = Stored
         \/ Exists(Stored') /\ Stored'.uid = Stored.uid /\ Stored'.del = Stored.del /\ Stored'.fin = Stored.fin
      /\ ("finalizer" \in fresh' => Stored' = Stored /\ "finalizer" \in fresh)
      /\ (apc' # "idle" => Exists(aobj') /\ Complete(aobj'))
      /\ (apc' = "update" /\ "approval" \in fresh' => aobj' = Stored')
  <2>1. CASE ApprovalGet
    <3>1. HistoryOK' /\ Stored' = Stored /\ (AllToFinalize => AllToFinalize')
      BY <2>1 DEF ApprovalGet, HistoryOK, AllToFinalize, ToFinalize, Stored, Complete, Deleting, Exists, IsTerminating
    <3>2. CASE Needed(Listed) /\ apc' = "update" /\ aobj' = Listed /\ Read("approval")
      BY <2>1, <3>1, <3>2, StoredListed
         DEF ApprovalGet, Needed, Read, TypeInv, StoreTypeOK, ApprovalTypeOK, Complete, Deleting, Exists, IsTerminating
    <3>3. CASE UNCHANGED <<apc, aobj, fresh>>
      BY <2>1, <3>1, <3>3 DEF ApprovalGet, TypeInv, StoreTypeOK, ApprovalTypeOK, WorkerHolds, CopiesAreStored,
         Complete, Deleting, Exists, IsTerminating
    <3> QED
      BY <2>1, <3>2, <3>3 DEF ApprovalGet
  <2>2. CASE ApprovalUpdate
    <3> DEFINE d == [aobj EXCEPT !.appr = calculateCondition(aobj)]
    <3>1. aobj = Stored /\ aobj \in Definition /\ Complete(aobj)
      BY <2>2 DEF ApprovalUpdate, Current, WorkerHolds, CopiesAreStored, TypeInv, ApprovalTypeOK, Exists
    <3>2. /\ d \in Definition /\ d.uid = aobj.uid /\ d.del = aobj.del /\ d.fin = aobj.fin
          /\ d.other = aobj.other /\ d.term = aobj.term
      BY <3>1 DEF Definition, Approval, calculateCondition
    <3>3. Exists(d) /\ Complete(d) /\ (AllToFinalize => ToFinalize(d))
      BY <3>1, <3>2, StoredListed, GRDStoreAssumption DEF Complete, ToFinalize, Deleting, Exists, IsTerminating
    <3>4. Write({"approval"}, d)
      BY <2>2 DEF ApprovalUpdate
    <3>5. /\ lastSeen' = lastSeen
          /\ \/ apc' = "idle" /\ aobj' = Absent
             \/ apc' = "record" /\ aobj' = aobj
      BY <2>2 DEF ApprovalUpdate, ApprovalReturn
    <3> HIDE DEF d
    <3>6. /\ HistoryOK' /\ Stored' = d /\ (fresh' = {"approval"} \/ (Stored' = Stored /\ fresh' = fresh))
          /\ AllToFinalize => AllToFinalize'
      BY <3>2, <3>3, <3>4, WriteVersion
    <3>7. apc' # "idle" => Exists(aobj') /\ Complete(aobj')
      BY <3>1, <3>5, GRDStoreAssumption DEF Complete, Deleting, Exists, IsTerminating
    <3> QED
      BY <3>1, <3>2, <3>3, <3>5, <3>6, <3>7 DEF TypeInv, StoreTypeOK, ApprovalTypeOK, Exists
  <2>3. CASE ApprovalRefused \/ ApprovalError \/ ApprovalRecord
    <3>1. HistoryOK' /\ Stored' = Stored /\ fresh' = fresh /\ (AllToFinalize => AllToFinalize')
      BY <2>3 DEF ApprovalRefused, ApprovalError, ApprovalRecord, storeVars, HistoryOK, AllToFinalize, ToFinalize,
         Stored, Complete, Deleting, Exists, IsTerminating
    <3>2. apc' = "idle" /\ aobj' = Absent
      BY <2>3 DEF ApprovalRefused, ApprovalError, ApprovalRecord, ApprovalReturn
    <3>3. lastSeen' \in Annotation \cup {None}
      <4>1. lastSeen' = lastSeen \/ (apc = "record" /\ lastSeen' = aobj.ann)
        BY <2>3 DEF ApprovalRefused, ApprovalError, ApprovalRecord
      <4>2. apc = "record" => aobj \in Definition
        BY DEF TypeInv, ApprovalTypeOK, WorkerHolds, Exists
      <4>3. apc = "record" => aobj.ann \in Annotation
        BY <4>2 DEF Definition
      <4> QED
        BY <4>1, <4>3 DEF TypeInv, ApprovalTypeOK
    <3> QED
      BY <3>1, <3>2, <3>3 DEF TypeInv, StoreTypeOK
  <2> QED
    BY <2>1, <2>2, <2>3 DEF ApprovalController, ApprovalStep
<1>4. TypeInv'
  BY <1>1, <1>2, <1>3 DEF TypeInv, StoreTypeOK, FinalizerTypeOK, ApprovalTypeOK, HistoryOK, finalizerVars,
     requestVars, workerVars
<1>5. WorkerHolds' /\ CopiesAreStored' /\ PolledEmpty'
  BY <1>1, <1>3 DEF finalizerVars, requestVars, workerVars, WorkerHolds, CopiesAreStored, PolledEmpty, Instances,
                    ToFinalize, Complete, Deleting, Exists, IsTerminating
<1>6. Finalizing'
  BY <1>1, <1>3 DEF finalizerVars, requestVars, workerVars, Finalizing, AtWork, UnderWay
<1> QED
  BY <1>3, <1>4, <1>5, <1>6, KeptVersion DEF StepOK, ToFinalize

-----------------------------------------------------------------------------
\* Every step keeps the invariant, and has what the action properties ask of it.
LEMMA StepInv == IInv /\ [Next]_vars => StepOK
<1> SUFFICES ASSUME IInv, [Next]_vars PROVE StepOK
  OBVIOUS
<1>1. CASE UNCHANGED vars
  <2>1. HistoryOK' /\ Stored' = Stored
    BY <1>1 DEF vars, storeVars, IInv, HistoryOK, Stored, Complete, Deleting, Exists, IsTerminating
  <2>2. IInv'
    BY <1>1, <2>1 DEF vars, storeVars, finalizerVars, requestVars, workerVars, approvalVars, IInv, TypeInv,
       StoreTypeOK,
                FinalizerTypeOK, ApprovalTypeOK, WorkerHolds, CopiesAreStored, PolledEmpty, Instances,
                Finalizing, AtWork, AllToFinalize, UnderWay,
                ToFinalize, Complete, Deleting, Exists, IsTerminating
  <2> QED
    BY <2>1, <2>2, KeptVersion DEF StepOK, IInv
<1>2. CASE Next
  BY <1>2, InformerInv, RegistryInv, RequestsInv, FinalizerWorksInv, FinalizerWritesInv, ApprovalInv
     DEF Next, Finalizer, FinalizerStep
<1> QED
  BY <1>1, <1>2

\* Types are kept, and a copy from which the finalizer's or the approval controller's
\* update would be accepted is the stored definition.
THEOREM TypeCorrect == Spec => []LifecycleTypeOK
<1>1. IInv => LifecycleTypeOK
  BY DEF IInv, TypeInv, CopiesAreStored, LifecycleTypeOK
<1>2. StepOK => IInv'
  BY DEF StepOK
<1> QED
  BY <1>1, <1>2, InitInv, StepInv, PTL DEF Spec

\* No update by a controller or a user takes a deletion back, nor the cleanup
\* finalizer and Terminating before the finalizer is done; nothing disappears that
\* nobody has asked to delete or that a finalizer still holds (REST.Delete,
\* updateConditions, GRDFinalizer.sync).
THEOREM DeletionIsKept == Spec => DeletionSticks
<1>1. StepOK => IInv'
  BY DEF StepOK
<1>2. IInv /\ [Next]_vars => [Exists(Stored) =>
         IF Exists(Stored')
         THEN /\ Stored'.uid = Stored.uid /\ (Stored.del => Stored'.del)
              /\ ToFinalize(Stored) => fpc = "remove" \/ (ToFinalize(Stored') /\ IsTerminating(Stored'))
         ELSE Stored.del /\ IF Stored.fin THEN fpc = "remove" /\ ~Stored.other ELSE Stored.other]_vars
  BY StepInv DEF StepOK, Sticks
<1> QED
  BY <1>1, <1>2, InitInv, StepInv, PTL DEF Spec, DeletionSticks

\* When the finalizer lets go of an established definition, the only instances left
\* are of POSTs admitted before it took the definition up (GRDFinalizer.sync,
\* deleteInstances, serveResource).
THEOREM OnlyLateInstancesStay == Spec => NoOrphans
<1>1. StepOK => IInv'
  BY DEF StepOK
<1>2. IInv /\ [Next]_vars =>
        [ToFinalize(Stored) /\ ~ToFinalize(Stored') /\ Stored.est /\ ~builtIn => Instances \subseteq late]_vars
  BY StepInv DEF StepOK, LeavesNothing
<1> QED
  BY <1>1, <1>2, InitInv, StepInv, PTL DEF Spec, NoOrphans
=============================================================================
