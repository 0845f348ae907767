-------------------------- MODULE GRDServingProofs --------------------------
(***************************************************************************)
(* Proofs about GRDServing, for any number of requests, specs and          *)
(* definitions created one after the other.                                *)
(*                                                                         *)
(* Why a stale info does not stay in the map: every info there, and every  *)
(* definition from which one is being built, is either condemned by a      *)
(* removeDeadStorage that has listed without its UID, or it fits a version *)
(* that the event functions have still to leave behind: the lister's, or   *)
(* the old one of a pending notification.  Leaving a version means that    *)
(* the function sees another spec, another UID, or a deletion; and a UID   *)
(* that was deleted never comes back, so a list without it is right.       *)
(***************************************************************************)
EXTENDS GRDServing, TLAPS, SequenceTheorems

Fits(d, u, s) == Exists(d) /\ d.uid = u /\ d.spec = s

\* The event functions have not yet left behind the version with this UID and spec.
Ahead(u, s) == Fits(lister, u, s) \/ \E i \in 1 .. Len(events) : Fits(events[i][1], u, s)

\* The removeDeadStorage under way removes the info of this UID.
Condemned(u) == hpc = "dead" /\ u \notin alive

\* Notifications follow one another up to the lister; UIDs are given out in order, and
\* what was deleted does not come back.
EventsChained ==
    /\ Exists(lister) => lister.uid <= uids
    /\ \A i \in 1 .. Len(events) :
        /\ events[i][2] = IF i = Len(events) THEN lister ELSE events[i + 1][1]
        /\ Exists(events[i][1]) => events[i][1].uid <= uids
        /\ ~Exists(events[i][2]) =>
              Exists(events[i][1]) /\ (Exists(lister) => lister.uid # events[i][1].uid)

MapFits ==
    \A u \in UID : storageMap[u] # 0 =>
        info[storageMap[u]].uid = u /\ (Condemned(u) \/ Ahead(u, info[storageMap[u]].spec))

\* Who builds holds the lock, and builds from a version that is condemned or ahead.
BuilderFits ==
    \A r \in Request : pc[r] = "build" =>
        lock = {r} /\ Exists(snap[r]) /\ (Condemned(snap[r].uid) \/ Ahead(snap[r].uid, snap[r].spec))

RequestsHold ==
    \A r \in Request :
        /\ pc[r] = "got" => Exists(snap[r])
        /\ pc[r] \in {"has", "running"} => has[r] # 0

IInv == ServingTypeOK /\ EventsChained /\ MapFits /\ BuilderFits /\ RequestsHold /\ DrainedBeforeDestroyed

Known == Definition \cup {Absent}
Info == [uid : UID, spec : Spec0, timedOut : BOOLEAN, state : {"live", "removed", "closing", "destroyed"}]

-----------------------------------------------------------------------------
(***************************************************************************)
(* Notifications.                                                          *)
(***************************************************************************)

\* A notification added at the end: nothing that was ahead is left behind.
LEMMA ChangeAhead ==
    ASSUME events \in Seq(Known \X Known), lister \in Known, NEW d \in Known,
           lister' = d, events' = Append(events, <<lister, d>>)
    PROVE  /\ events' \in Seq(Known \X Known) /\ Len(events') = Len(events) + 1
           /\ \A i \in 1 .. Len(events) : events'[i] = events[i]
           /\ events'[Len(events')] = <<lister, d>>
           /\ \A u, s : Ahead(u, s) => Ahead(u, s)'
<1>1. /\ events' \in Seq(Known \X Known) /\ Len(events') = Len(events) + 1
      /\ \A i \in 1 .. Len(events) : events'[i] = events[i]
      /\ events'[Len(events')] = <<lister, d>>
  OBVIOUS
<1>2. ASSUME NEW u, NEW s, Ahead(u, s) PROVE Ahead(u, s)'
  <2>1. CASE Fits(lister, u, s)
    <3>1. Len(events') \in 1 .. Len(events') /\ events'[Len(events')][1] = lister
      BY <1>1
    <3> QED
      BY <2>1, <3>1 DEF Ahead, Fits, Exists
  <2>2. ASSUME NEW i \in 1 .. Len(events), Fits(events[i][1], u, s) PROVE Ahead(u, s)'
    <3>1. i \in 1 .. Len(events') /\ events'[i] = events[i]
      BY <1>1
    <3> QED
      BY <2>2, <3>1 DEF Ahead, Fits, Exists
  <2> QED
    BY <1>2, <2>1, <2>2 DEF Ahead
<1> QED
  BY <1>1, <1>2

\* A notification delivered: what is left behind fitted its old version and does not
\* fit its new one.
LEMMA DeliverAhead ==
    ASSUME events \in Seq(Known \X Known), events # <<>>, EventsChained,
           events' = Tail(events), UNCHANGED <<lister, uids>>
    PROVE  /\ events' \in Seq(Known \X Known) /\ EventsChained'
           /\ Head(events) = events[1] /\ Head(events) \in Known \X Known /\ 1 \in 1 .. Len(events)
           /\ \A u, s : Ahead(u, s) =>
                Ahead(u, s)' \/ (Fits(Head(events)[1], u, s) /\ ~Fits(Head(events)[2], u, s))
<1>1. /\ events' \in Seq(Known \X Known) /\ Len(events') = Len(events) - 1
      /\ \A i \in 1 .. Len(events') : events'[i] = events[i + 1]
      /\ Len(events) \in Nat \ {0} /\ Head(events) = events[1]
  BY HeadTailProperties, EmptySeq
<1>2. Head(events) \in Known \X Known /\ 1 \in 1 .. Len(events)
  BY <1>1
<1>3. EventsChained'
  <2>1. ASSUME NEW i \in 1 .. Len(events')
        PROVE  /\ events'[i][2] = IF i = Len(events') THEN lister' ELSE events'[i + 1][1]
               /\ Exists(events'[i][1]) => events'[i][1].uid <= uids'
               /\ ~Exists(events'[i][2]) =>
                     Exists(events'[i][1]) /\ (Exists(lister') => lister'.uid # events'[i][1].uid)
    <3> DEFINE k == i + 1
    <3>1. k \in 1 .. Len(events) /\ events'[i] = events[k] /\ (i = Len(events') <=> k = Len(events))
      BY <1>1
    <3>2. i # Len(events') => i + 1 \in 1 .. Len(events')
      <4>1. Len(events') \in Nat
        BY <1>1
      <4> QED
        BY <4>1
    <3>3. i # Len(events') => events'[i + 1] = events[k + 1]
      BY <1>1, <3>2
    <3> HIDE DEF k
    <3>4. /\ events[k][2] = IF k = Len(events) THEN lister ELSE events[k + 1][1]
          /\ Exists(events[k][1]) => events[k][1].uid <= uids
          /\ ~Exists(events[k][2]) =>
                Exists(events[k][1]) /\ (Exists(lister) => lister.uid # events[k][1].uid)
      BY <3>1 DEF EventsChained
    <3> QED
      BY <3>1, <3>3, <3>4
  <2>2. (Exists(lister) => lister.uid <= uids)'
    BY DEF EventsChained, Exists
  <2> QED
    BY <2>1, <2>2 DEF EventsChained, Exists
<1>4. ASSUME NEW u, NEW s, Ahead(u, s),
             ~(Fits(Head(events)[1], u, s) /\ ~Fits(Head(events)[2], u, s))
      PROVE  Ahead(u, s)'
  <2>1. CASE Fits(lister, u, s)
    BY <2>1 DEF Ahead, Fits, Exists
  <2>2. ASSUME NEW i \in 1 .. Len(events), Fits(events[i][1], u, s), i # 1 PROVE Ahead(u, s)'
    <3>1. i - 1 \in 1 .. Len(events') /\ events'[i - 1] = events[i]
      BY <1>1, <2>2
    <3> QED
      BY <2>2, <3>1 DEF Ahead, Fits, Exists
  <2>3. CASE Fits(events[1][1], u, s)
    <3>1. Fits(events[1][2], u, s)
      BY <1>1, <1>4, <2>3
    <3>2. CASE Len(events) = 1
      BY <1>2, <2>1, <3>1, <3>2 DEF EventsChained
    <3>3. CASE Len(events) # 1
      <4>1. 2 \in 1 .. Len(events) /\ 1 + 1 = 2
        BY <1>1, <3>3
      <4>2. events[1][2] = events[1 + 1][1]
        BY <1>2, <3>3 DEF EventsChained
      <4> QED
        BY <2>2, <3>1, <4>1, <4>2
    <3> QED
      BY <3>2, <3>3
  <2> QED
    BY <1>4, <2>1, <2>2, <2>3 DEF Ahead
<1> QED
  BY <1>1, <1>2, <1>3, <1>4

-----------------------------------------------------------------------------
(***************************************************************************)
(* Infos.                                                                  *)
(***************************************************************************)

\* A function on 1 .. n is a sequence of length n.
LEMMA FunctionSeq ==
    ASSUME NEW S, NEW n \in Nat, NEW f \in [1 .. n -> S]
    PROVE  f \in Seq(S) /\ Len(f) = n
<1>1. f \in Seq(S)
  BY SeqDef
<1>2. Len(f) \in Nat /\ DOMAIN f = 1 .. Len(f) /\ DOMAIN f = 1 .. n
  BY <1>1, LenProperties
<1> QED
  BY <1>1, <1>2

\* What the invariant says of the infos and of the map.
InfosOK ==
    /\ info \in Seq(Info) /\ storageMap \in [UID -> 0 .. Len(info)] /\ has \in [Request -> 0 .. Len(info)]
    /\ \A u \in UID : storageMap[u] # 0 =>
        info[storageMap[u]].uid = u /\ (~down => info[storageMap[u]].state = "live")

\* What is in the map, in a build and in a request are infos.
LEMMA InfosAreOK == IInv => InfosOK
  BY DEF IInv, ServingTypeOK, MapFits, InfosOK, Info

\* removeStorage empties the entries of the UIDs in dead, and touches nothing of
\* another info than its state, which it never sets to destroyed.
LEMMA RemoveStorage ==
    ASSUME IInv, NEW dead \in SUBSET UID, removeStorage(dead), UNCHANGED <<requestVars, down>>
    PROVE  /\ InfosOK' /\ DrainedBeforeDestroyed' /\ Len(info') = Len(info)
           /\ \A u \in UID :
                /\ u \in dead => storageMap'[u] = 0
                /\ u \notin dead => storageMap'[u] = storageMap[u]
           /\ \A i \in 1 .. Len(info) : info'[i].uid = info[i].uid /\ info'[i].spec = info[i].spec
<1> DEFINE hit == {storageMap[u] : u \in dead}
<1>1. InfosOK /\ Len(info) \in Nat
  BY InfosAreOK DEF InfosOK
<1>2. \A i \in 1 .. Len(info) : info[i] \in Info
  BY <1>1 DEF InfosOK
<1>3. info' = [i \in 1 .. Len(info) |-> IF i \in hit THEN [info[i] EXCEPT !.state = "removed"] ELSE info[i]]
  BY DEF removeStorage
<1>4. \A u \in UID :
        /\ u \in dead => storageMap'[u] = 0 /\ storageMap[u] \in hit
        /\ u \notin dead => storageMap'[u] = storageMap[u]
  BY DEF removeStorage
<1>5. ASSUME NEW i \in 1 .. Len(info)
      PROVE  /\ info'[i] \in Info /\ info'[i].uid = info[i].uid /\ info'[i].spec = info[i].spec
             /\ info'[i].timedOut = info[i].timedOut
             /\ i \in hit => info'[i].state = "removed"
             /\ i \notin hit => info'[i] = info[i]
  <2> HIDE DEF hit
  <2> QED
    BY <1>2, <1>3 DEF Info
<1>6. info' \in [1 .. Len(info) -> Info]
  <2> HIDE DEF hit
  <2> QED
    BY <1>3, <1>5
<1>7. info' \in Seq(Info) /\ Len(info') = Len(info)
  BY <1>1, <1>6, FunctionSeq
<1>8. storageMap' \in [UID -> 0 .. Len(info')] /\ has' \in [Request -> 0 .. Len(info')]
  BY <1>1, <1>7 DEF removeStorage, InfosOK, requestVars
<1>9. ASSUME NEW u \in UID, storageMap'[u] # 0
      PROVE  info'[storageMap'[u]].uid = u /\ (~down' => info'[storageMap'[u]].state = "live")
  <2>1. u \notin dead /\ storageMap'[u] = storageMap[u] /\ storageMap[u] \in 1 .. Len(info)
    BY <1>1, <1>4, <1>9 DEF InfosOK
  <2>2. info[storageMap[u]].uid = u /\ (~down => info[storageMap[u]].state = "live")
    BY <1>1, <2>1 DEF InfosOK
  <2>3. storageMap[u] \notin hit
    <3>1. ASSUME NEW v \in dead, storageMap[v] = storageMap[u] PROVE FALSE
      <4>1. v \in UID /\ info[storageMap[v]].uid = v
        BY <1>1, <2>1, <3>1 DEF InfosOK
      <4> QED
        BY <2>1, <2>2, <3>1, <4>1
    <3> QED
      BY <3>1
  <2> HIDE DEF hit
  <2> QED
    BY <1>5, <2>1, <2>2, <2>3
<1>10. DrainedBeforeDestroyed'
  <2> SUFFICES ASSUME NEW r \in Request, Counted(r), pc[r] = "running"
               PROVE  info'[has[r]].state # "destroyed" \/ info'[has[r]].timedOut
    BY DEF DrainedBeforeDestroyed, Counted, requestVars
  <2>1. has[r] \in 1 .. Len(info)
    BY <1>1 DEF InfosOK, IInv, RequestsHold
  <2>2. info[has[r]].state # "destroyed" \/ info[has[r]].timedOut
    BY DEF IInv, DrainedBeforeDestroyed
  <2> HIDE DEF hit
  <2> QED
    BY <1>5, <2>1, <2>2
<1> HIDE DEF hit
<1> QED
  BY <1>4, <1>5, <1>7, <1>8, <1>9, <1>10 DEF InfosOK

-----------------------------------------------------------------------------
\* Init establishes the invariant.
LEMMA InitInv == Init => IInv
<1> SUFFICES ASSUME Init PROVE IInv
  OBVIOUS
<1> USE DEF Init
<1>1. Len(events) = 0 /\ Len(info) = 0
  OBVIOUS
<1>2. ServingTypeOK
  <2>1. storageMap \in [UID -> 0 .. Len(info)] /\ has \in [Request -> 0 .. Len(info)]
    BY <1>1
  <2>2. /\ events \in Seq((Definition \cup {Absent}) \X (Definition \cup {Absent}))
        /\ info \in Seq([uid : UID, spec : Spec0, timedOut : BOOLEAN,
                         state : {"live", "removed", "closing", "destroyed"}])
    OBVIOUS
  <2>3. uids \in 0 .. MaxUID /\ changes \in 0 .. MaxChanges
    BY ServingAssumption
  <2> QED
    BY <2>1, <2>2, <2>3 DEF ServingTypeOK
<1> QED
  BY <1>1, <1>2 DEF IInv, EventsChained, MapFits, BuilderFits, RequestsHold, DrainedBeforeDestroyed, Exists

\* The informer.
LEMMA ChangeInv ==
    ASSUME IInv, NEW d \in Known, Change(d),
           uids' \in 0 .. MaxUID, uids <= uids', changes' \in 0 .. MaxChanges,
           Exists(d) => d.uid <= uids' /\ (d.uid = uids + 1 \/ (Exists(lister) /\ d.uid = lister.uid)),
           ~Exists(d) => Exists(lister)
    PROVE  IInv'
<1> USE DEF IInv
<1>1. /\ events \in Seq(Known \X Known) /\ lister \in Known
      /\ lister' = d /\ events' = Append(events, <<lister, d>>)
      /\ UNCHANGED <<hpc, alive, storageMap, info, requestVars, down>>
  BY DEF ServingTypeOK, Known, Change
<1>2. /\ events' \in Seq(Known \X Known) /\ Len(events') = Len(events) + 1 /\ Len(events) \in Nat
      /\ \A i \in 1 .. Len(events) : events'[i] = events[i]
      /\ events'[Len(events')] = <<lister, d>>
  BY <1>1, ChangeAhead
<1>3. \A u, s : Ahead(u, s) => Ahead(u, s)'
  BY <1>1, ChangeAhead
<1>4. ServingTypeOK'
  BY <1>1, <1>2 DEF ServingTypeOK, Known, requestVars
<1>5. EventsChained'
  <2>1. ASSUME NEW i \in 1 .. Len(events')
        PROVE  /\ events'[i][2] = IF i = Len(events') THEN d ELSE events'[i + 1][1]
               /\ Exists(events'[i][1]) => events'[i][1].uid <= uids'
               /\ ~Exists(events'[i][2]) =>
                     Exists(events'[i][1]) /\ (Exists(d) => d.uid # events'[i][1].uid)
    <3>0. uids \in Nat /\ uids' \in Nat /\ (Exists(lister) => lister.uid \in Nat)
      BY <1>1 DEF ServingTypeOK, Known, Definition, UID, Exists
    <3>1. CASE i = Len(events')
      BY <1>2, <3>0, <3>1 DEF EventsChained
    <3>2. CASE i # Len(events')
      <4>1. i \in 1 .. Len(events) /\ events'[i] = events[i]
        BY <1>2, <3>2
      <4>2. /\ events[i][2] = IF i = Len(events) THEN lister ELSE events[i + 1][1]
            /\ Exists(events[i][1]) => events[i][1].uid <= uids
            /\ ~Exists(events[i][2]) =>
                  Exists(events[i][1]) /\ (Exists(lister) => lister.uid # events[i][1].uid)
        BY <4>1 DEF EventsChained
      <4>3. Exists(events[i][1]) => events[i][1].uid \in Nat
        <5>1. events[i] \in Known \X Known
          BY <1>1, <4>1
        <5>2. events[i][1] \in Known
          BY <5>1
        <5> QED
          BY <5>2 DEF Known, Exists, Definition, UID
      <4>4. events'[i][2] = events'[i + 1][1]
        <5>1. CASE i = Len(events)
          BY <1>2, <4>1, <4>2, <5>1
        <5>2. CASE i # Len(events)
          <6>1. i + 1 \in 1 .. Len(events)
            BY <1>2, <4>1, <5>2
          <6> QED
            BY <1>2, <4>1, <4>2, <5>2, <6>1
        <5> QED
          BY <5>1, <5>2
      <4> QED
        BY <3>0, <3>2, <4>1, <4>2, <4>3, <4>4
    <3> QED
      BY <3>1, <3>2
  <2> QED
    BY <1>1, <2>1 DEF EventsChained, Exists
<1>6. MapFits' /\ BuilderFits'
  BY <1>1, <1>3 DEF MapFits, BuilderFits, Condemned, Exists, requestVars
<1>7. RequestsHold' /\ DrainedBeforeDestroyed'
  BY <1>1 DEF RequestsHold, DrainedBeforeDestroyed, Counted, Exists, requestVars
<1> QED
  BY <1>4, <1>5, <1>6, <1>7

\* The informer notifies of what changed.
LEMMA InformerInv ==
    ASSUME IInv, Informer
    PROVE  IInv'
<1>1. /\ lister \in Known /\ uids \in 0 .. MaxUID /\ changes \in 0 .. MaxChanges
      /\ MaxUID \in Nat /\ MaxChanges \in Nat
      /\ Exists(lister) => lister \in Definition /\ lister.uid \in Nat /\ lister.uid <= uids
  BY ServingAssumption DEF IInv, ServingTypeOK, EventsChained, Known, Exists, Definition, UID
<1>2. CASE DefinitionAdded
  <2>1. PICK s \in Served : Change([uid |-> uids + 1, spec |-> s, ready |-> FALSE, term |-> FALSE])
    BY <1>2 DEF DefinitionAdded
  <2> DEFINE d == [uid |-> uids + 1, spec |-> s, ready |-> FALSE, term |-> FALSE]
  <2>2. d \in Definition /\ d.uid = uids + 1
    BY <1>1, <1>2, ServingAssumption DEF DefinitionAdded, Definition, UID
  <2>3. uids' = uids + 1 /\ uids' \in 0 .. MaxUID /\ changes' \in 0 .. MaxChanges
    BY <1>1, <1>2 DEF DefinitionAdded
  <2>4. d \in Known /\ Exists(d)
    BY <2>2, AbsentAssumption DEF Known, Exists
  <2>5. Change(d)
    BY <2>1
  <2> HIDE DEF d
  <2>6. uids <= uids' /\ d.uid <= uids'
    BY <1>1, <2>2, <2>3
  <2> QED
    BY <2>2, <2>3, <2>4, <2>5, <2>6, ChangeInv
<1>3. CASE DefinitionChanged
  <2>1. PICK s \in Spec0, y \in BOOLEAN, t \in BOOLEAN :
          Change([lister EXCEPT !.spec = s, !.ready = y, !.term = t])
    BY <1>1, <1>3 DEF DefinitionChanged, Definition
  <2> DEFINE d == [lister EXCEPT !.spec = s, !.ready = y, !.term = t]
  <2>2. Exists(lister) /\ d \in Definition /\ d.uid = lister.uid
    BY <1>1, <1>3 DEF DefinitionChanged, Definition
  <2>3. uids' = uids /\ changes' \in 0 .. MaxChanges
    BY <1>1, <1>3 DEF DefinitionChanged
  <2>4. d \in Known /\ Exists(d) /\ Change(d)
    BY <2>1, <2>2, AbsentAssumption DEF Known, Exists
  <2> HIDE DEF d
  <2>5. uids <= uids' /\ d.uid <= uids' /\ uids' \in 0 .. MaxUID
    BY <1>1, <2>2, <2>3
  <2> QED
    BY <2>2, <2>3, <2>4, <2>5, ChangeInv
<1>4. CASE DefinitionDeleted
  <2>1. Exists(lister) /\ Change(Absent) /\ UNCHANGED <<uids, changes>>
    BY <1>4 DEF DefinitionDeleted
  <2>2. uids <= uids' /\ uids' \in 0 .. MaxUID /\ changes' \in 0 .. MaxChanges
    BY <1>1, <2>1
  <2>3. Absent \in Known /\ ~Exists(Absent)
    BY DEF Known, Exists
  <2> QED
    BY <2>1, <2>2, <2>3, ChangeInv
<1> QED
  BY <1>2, <1>3, <1>4 DEF Informer

-----------------------------------------------------------------------------
(***************************************************************************)
(* Event functions.                                                        *)
(***************************************************************************)

\* An event function that removes what it leaves behind keeps the invariant: nobody
\* builds, since it has the lock.
LEMMA RemoveInv ==
    ASSUME IInv, Unlocked, NEW dead \in SUBSET UID, removeStorage(dead),
           UNCHANGED <<envVars, requestVars, down>>,
           events' \in Seq(Known \X Known), EventsChained', hpc' \in {"idle", "dead"}, alive' \subseteq UID,
           \A u \in UID \ dead, s \in Spec0 : storageMap[u] # 0 /\ s = info[storageMap[u]].spec =>
                Condemned(u)' \/ Ahead(u, s)'
    PROVE  IInv'
<1> USE DEF IInv
<1>1. /\ InfosOK' /\ DrainedBeforeDestroyed' /\ Len(info') = Len(info)
      /\ \A u \in UID :
           /\ u \in dead => storageMap'[u] = 0
           /\ u \notin dead => storageMap'[u] = storageMap[u]
      /\ \A j \in 1 .. Len(info) : info'[j].uid = info[j].uid /\ info'[j].spec = info[j].spec
  BY RemoveStorage
<1>2. ServingTypeOK'
  BY <1>1 DEF ServingTypeOK, InfosOK, Info, Known, envVars, requestVars
<1>3. MapFits'
  <2> SUFFICES ASSUME NEW u \in UID, storageMap'[u] # 0
               PROVE  /\ info'[storageMap'[u]].uid = u
                      /\ Condemned(u)' \/ Ahead(u, info[storageMap[u]].spec)'
    BY DEF MapFits
  <2>1. u \notin dead /\ storageMap'[u] = storageMap[u] /\ storageMap[u] \in 1 .. Len(info)
    BY <1>1, InfosAreOK DEF InfosOK
  <2>2. PICK s \in Spec0 : s = info[storageMap[u]].spec
    <3>1. info[storageMap[u]] \in Info
      BY <2>1, InfosAreOK DEF InfosOK
    <3> QED
      BY <3>1 DEF Info
  <2>3. s = info'[storageMap'[u]].spec /\ info'[storageMap'[u]].uid = u
    BY <1>1, <2>1, <2>2 DEF InfosOK
  <2>4. Condemned(u)' \/ Ahead(u, s)'
    BY <2>1, <2>2
  <2> QED
    BY <2>3, <2>4
<1>4. BuilderFits'
  BY DEF BuilderFits, Unlocked, requestVars
<1>5. RequestsHold'
  BY DEF RequestsHold, requestVars, Exists
<1> QED
  BY <1>1, <1>2, <1>3, <1>4, <1>5

\* createGrafanaResourceDefinition and updateGrafanaResourceDefinition.
LEMMA AddOrUpdateInv ==
    ASSUME IInv, createGrafanaResourceDefinition \/ updateGrafanaResourceDefinition
    PROVE  IInv'
<1> DEFINE old == Head(events)[1]
           new == Head(events)[2]
<1>1. /\ events \in Seq(Known \X Known) /\ events # <<>> /\ EventsChained /\ hpc = "idle" /\ Unlocked
      /\ events' = Tail(events) /\ UNCHANGED <<lister, uids>>
      /\ UNCHANGED <<envVars, hpc, alive, requestVars, down>>
  BY DEF IInv, ServingTypeOK, Known, createGrafanaResourceDefinition, updateGrafanaResourceDefinition, envVars
<1>2. /\ events' \in Seq(Known \X Known) /\ EventsChained'
      /\ Head(events) = events[1] /\ Head(events) \in Known \X Known /\ 1 \in 1 .. Len(events)
      /\ \A u, s : Ahead(u, s) => Ahead(u, s)' \/ (Fits(old, u, s) /\ ~Fits(new, u, s))
  BY <1>1, DeliverAhead
<1>3. Exists(new) /\ new \in Definition /\ (Exists(old) => old \in Definition)
  <2>1. old \in Known /\ new \in Known
    BY <1>2
  <2>2. Exists(new)
    BY <1>1, <1>2 DEF EventsChained, createGrafanaResourceDefinition, updateGrafanaResourceDefinition
  <2> QED
    BY <2>1, <2>2 DEF Known, Exists
<1>4. PICK dead \in SUBSET UID :
        /\ removeStorage(dead)
        /\ Stale(new) => new.uid \in dead
        /\ Exists(old) /\ old.uid # new.uid => old.uid \in dead
  <2>1. new.uid \in UID /\ (Exists(old) => old.uid \in UID)
    BY <1>3 DEF Definition
  <2>2. CASE createGrafanaResourceDefinition
    <3>1. removeStorage(IF Stale(new) THEN {new.uid} ELSE {}) /\ ~Exists(old)
      BY <2>2 DEF createGrafanaResourceDefinition
    <3>2. (IF Stale(new) THEN {new.uid} ELSE {}) \in SUBSET UID
      BY <2>1
    <3> QED
      BY <3>1, <3>2
  <2>3. CASE updateGrafanaResourceDefinition
    <3> DEFINE D == {u \in {old.uid} : u # new.uid} \cup {u \in {new.uid} : Stale(new)}
    <3>1. removeStorage(D) /\ Exists(old)
      BY <2>3 DEF updateGrafanaResourceDefinition
    <3>2. D \in SUBSET UID
      BY <2>1, <3>1
    <3>3. (Stale(new) => new.uid \in D) /\ (old.uid # new.uid => old.uid \in D)
      OBVIOUS
    <3> HIDE DEF D
    <3> QED
      BY <3>1, <3>2, <3>3
  <2> QED
    BY <2>2, <2>3
<1>5. ASSUME NEW u \in UID \ dead, NEW s \in Spec0, storageMap[u] # 0, s = info[storageMap[u]].spec
      PROVE  Ahead(u, s)'
  <2>1. Ahead(u, s)
    BY <1>1, <1>5 DEF IInv, MapFits, Condemned
  <2>2. ~(Fits(old, u, s) /\ ~Fits(new, u, s))
    <3> SUFFICES ASSUME Fits(old, u, s) PROVE Fits(new, u, s)
      OBVIOUS
    <3>1. new.uid = u
      BY <1>4, <1>5 DEF Fits
    <3>2. ~Stale(new)
      BY <1>4, <1>5, <3>1
    <3> QED
      BY <1>3, <1>5, <3>1, <3>2 DEF Stale, Fits
  <2> QED
    BY <1>2, <2>1, <2>2
<1>6. hpc' \in {"idle", "dead"} /\ alive' \subseteq UID
  BY <1>1 DEF IInv, ServingTypeOK
<1> QED
  BY <1>1, <1>2, <1>4, <1>5, <1>6, RemoveInv

\* removeDeadStorage: the list, and the removal under the lock.
LEMMA DeadStorageInv ==
    ASSUME IInv, removeDeadStorageList \/ removeDeadStorage
    PROVE  IInv'
<1>1. CASE removeDeadStorageList
  <2> DEFINE old == Head(events)[1]
             new == Head(events)[2]
  <2>1. /\ events \in Seq(Known \X Known) /\ events # <<>> /\ EventsChained /\ hpc = "idle"
        /\ hpc' = "dead" /\ alive' = {u \in UID : Exists(lister) /\ lister.uid = u}
        /\ events' = Tail(events) /\ UNCHANGED <<lister, uids>>
        /\ UNCHANGED <<envVars, storageMap, info, requestVars, down>>
    BY <1>1 DEF IInv, ServingTypeOK, Known, removeDeadStorageList, envVars
  <2>2. /\ events' \in Seq(Known \X Known) /\ EventsChained'
        /\ Head(events) = events[1] /\ Head(events) \in Known \X Known /\ 1 \in 1 .. Len(events)
        /\ \A u, s : Ahead(u, s) => Ahead(u, s)' \/ (Fits(old, u, s) /\ ~Fits(new, u, s))
    BY <2>1, DeliverAhead
  <2>3. Exists(lister) => lister.uid # old.uid
    BY <1>1, <2>1, <2>2 DEF EventsChained, removeDeadStorageList
  <2>4. \A u, s : Ahead(u, s) => Condemned(u)' \/ Ahead(u, s)'
    BY <2>1, <2>2, <2>3 DEF Condemned, Fits
  <2>5. ServingTypeOK'
    BY <2>1, <2>2 DEF IInv, ServingTypeOK, Known, envVars, requestVars
  <2>6. MapFits'
    BY <2>1, <2>4 DEF IInv, MapFits, Condemned
  <2>7. BuilderFits'
    BY <2>1, <2>4 DEF IInv, BuilderFits, Condemned, requestVars, Exists
  <2>8. RequestsHold' /\ DrainedBeforeDestroyed'
    BY <2>1 DEF IInv, RequestsHold, DrainedBeforeDestroyed, Counted, requestVars, Exists
  <2> QED
    BY <2>2, <2>5, <2>6, <2>7, <2>8 DEF IInv
<1>2. CASE removeDeadStorage
  <2>1. /\ Unlocked /\ hpc = "dead" /\ removeStorage(UID \ alive) /\ hpc' = "idle" /\ alive' = {}
        /\ UNCHANGED <<envVars, events, requestVars, down>>
    BY <1>2 DEF removeDeadStorage
  <2>2. events' \in Seq(Known \X Known) /\ EventsChained'
    BY <2>1 DEF IInv, ServingTypeOK, EventsChained, Known, Exists, envVars
  <2>3. \A u, s : Ahead(u, s)' <=> Ahead(u, s)
    BY <2>1 DEF Ahead, Fits, Exists, envVars
  <2>4. ASSUME NEW u \in UID \ (UID \ alive), NEW s \in Spec0, storageMap[u] # 0, s = info[storageMap[u]].spec
        PROVE  Ahead(u, s)'
    BY <2>3, <2>4 DEF IInv, MapFits, Condemned
  <2> QED
    BY <2>1, <2>2, <2>4, RemoveInv
<1> QED
  BY <1>1, <1>2

-----------------------------------------------------------------------------
(***************************************************************************)
(* Tearing down.                                                           *)
(***************************************************************************)

\* A step that changes only states of infos, and none of an info in the map while the
\* server is up.
LEMMA StateInv ==
    ASSUME IInv, UNCHANGED <<envVars, handlerVars, storageMap, requestVars>>, down' \in BOOLEAN,
           info' \in [1 .. Len(info) -> Info],
           \A j \in 1 .. Len(info) : info'[j].uid = info[j].uid /\ info'[j].spec = info[j].spec,
           \A u \in UID : storageMap[u] # 0 /\ ~down' => info'[storageMap[u]].state = "live",
           \A r \in Request : Counted(r) /\ pc[r] = "running" =>
                info'[has[r]].state # "destroyed" \/ info'[has[r]].timedOut
    PROVE  IInv'
<1> USE DEF IInv
<1>1. InfosOK /\ Len(info) \in Nat
  BY InfosAreOK DEF InfosOK
<1>2. info' \in Seq(Info) /\ Len(info') = Len(info)
  BY <1>1, FunctionSeq
<1>3. \A u \in UID : storageMap[u] # 0 =>
        info'[storageMap[u]].uid = u /\ info'[storageMap[u]].spec = info[storageMap[u]].spec
  BY <1>1 DEF InfosOK
<1>4. ServingTypeOK'
  BY <1>2, <1>3 DEF ServingTypeOK, Info, envVars, handlerVars, requestVars
<1>5. \A u, s : (Ahead(u, s)' <=> Ahead(u, s)) /\ (Condemned(u)' <=> Condemned(u))
  BY DEF Ahead, Condemned, Fits, Exists, envVars, handlerVars
<1>6. MapFits'
  BY <1>3, <1>5 DEF MapFits
<1>7. BuilderFits'
  BY <1>5 DEF BuilderFits, Exists, requestVars
<1>8. EventsChained' /\ RequestsHold' /\ DrainedBeforeDestroyed'
  BY DEF EventsChained, RequestsHold, DrainedBeforeDestroyed, Counted, Exists, envVars, handlerVars, requestVars
<1> QED
  BY <1>4, <1>6, <1>7, <1>8

\* Tearing an info down: the wait for its requests, and its end.
LEMMA TearDownInv ==
    ASSUME IInv, NEW i \in 1 .. MaxInfos, TearDownStep(i)
    PROVE  IInv'
<1>1. InfosOK /\ Len(info) \in Nat
  BY InfosAreOK DEF InfosOK
<1>2. i \in 1 .. Len(info)
  BY <1>1, ServingAssumption DEF TearDownStep
<1>3. info \in [1 .. Len(info) -> Info]
  BY <1>1, LenProperties DEF InfosOK
<1>4. PICK st \in {"closing", "destroyed"}, t \in BOOLEAN :
        /\ SetState(i, st, t)
        /\ info[i].state \in {"removed", "closing"}
        /\ st = "destroyed" => t = (InUse(i) # {})
        /\ UNCHANGED <<envVars, handlerVars, storageMap, requestVars, down>>
  BY DEF TearDownStep, tearDownWait, tearDownDestroy
<1>5. /\ info' \in [1 .. Len(info) -> Info]
      /\ \A j \in 1 .. Len(info) :
           /\ info'[j].uid = info[j].uid /\ info'[j].spec = info[j].spec
           /\ j # i => info'[j] = info[j]
      /\ info'[i].state = st /\ info'[i].timedOut = t
  BY <1>2, <1>3, <1>4 DEF SetState, Info
<1>6. ASSUME NEW u \in UID, storageMap[u] # 0, ~down' PROVE info'[storageMap[u]].state = "live"
  <2>1. storageMap[u] \in 1 .. Len(info) /\ info[storageMap[u]].state = "live"
    BY <1>1, <1>4, <1>6 DEF InfosOK
  <2> QED
    BY <1>4, <1>5, <2>1
<1>7. ASSUME NEW r \in Request, Counted(r), pc[r] = "running"
      PROVE  info'[has[r]].state # "destroyed" \/ info'[has[r]].timedOut
  <2>1. has[r] \in 1 .. Len(info) /\ (info[has[r]].state # "destroyed" \/ info[has[r]].timedOut)
    BY <1>1, <1>7 DEF InfosOK, IInv, RequestsHold, DrainedBeforeDestroyed
  <2>2. CASE has[r] = i
    <3>1. r \in InUse(i)
      BY <1>7, <2>2 DEF InUse
    <3> QED
      BY <1>4, <1>5, <2>2, <3>1
  <2>3. CASE has[r] # i
    BY <1>5, <2>1, <2>3
  <2> QED
    BY <2>2, <2>3
<1>8. down' \in BOOLEAN
  BY <1>4 DEF IInv, ServingTypeOK
<1> QED
  BY <1>4, <1>5, <1>6, <1>7, <1>8, StateInv

\* Destroying the storage once its requests are done.
LEMMA DestroyInv ==
    ASSUME IInv, destroy
    PROVE  IInv'
<1> DEFINE mapped(j) == \E u \in UID : storageMap[u] = j
<1>1. InfosOK /\ Len(info) \in Nat
  BY InfosAreOK DEF InfosOK
<1>2. \A j \in 1 .. Len(info) : info[j] \in Info
  BY <1>1 DEF InfosOK
<1>3. /\ info' = [j \in 1 .. Len(info) |-> IF mapped(j) THEN [info[j] EXCEPT !.state = "destroyed"] ELSE info[j]]
      /\ down' = TRUE /\ UNCHANGED <<envVars, handlerVars, storageMap, requestVars>>
      /\ \A r \in Request : Counted(r) => pc[r] # "running"
  BY DEF destroy
<1> HIDE DEF mapped
<1>4. \A j \in 1 .. Len(info) :
        info'[j] \in Info /\ info'[j].uid = info[j].uid /\ info'[j].spec = info[j].spec
  BY <1>2, <1>3 DEF Info
<1>5. info' \in [1 .. Len(info) -> Info]
  BY <1>3, <1>4
<1> QED
  BY <1>3, <1>4, <1>5, StateInv

-----------------------------------------------------------------------------
(***************************************************************************)
(* Requests.                                                               *)
(***************************************************************************)

\* A step of a request that builds nothing.
LEMMA RequestOnlyInv ==
    ASSUME IInv, NEW r \in Request, ServeHTTP(r) \/ FastPath(r) \/ BuildBegin(r) \/ Register(r) \/ Finish(r)
    PROVE  IInv'
<1> USE DEF IInv
<1>1. UNCHANGED <<envVars, handlerVars, storageMap, info, down>>
  BY DEF ServeHTTP, FastPath, BuildBegin, Register, Finish
<1>2. InfosOK /\ Len(info) \in Nat /\ lister \in Known /\ snap \in [Request -> Known]
  BY InfosAreOK DEF InfosOK, ServingTypeOK, Known
<1>3. pc[r] = "got" => snap[r].uid \in UID
  BY <1>2 DEF RequestsHold, Known, Exists, Definition
<1>4. /\ lock' \in SUBSET Request
      /\ pc' \in [Request -> {"idle", "got", "want", "build", "has", "running", "done"}]
      /\ snap' \in [Request -> Known] /\ has' \in [Request -> 0 .. Len(info)]
  <2>1. CASE ServeHTTP(r)
    BY <1>2, <2>1 DEF ServeHTTP, Goto, ServingTypeOK
  <2>2. CASE FastPath(r)
    BY <1>2, <1>3, <2>2 DEF FastPath, Goto, ServingTypeOK, InfosOK
  <2>3. CASE BuildBegin(r)
    <3>1. \E l \in {"build", "done"} : pc' = [pc EXCEPT ![r] = l] /\ lock' \in {lock, {r}}
      BY <2>3 DEF BuildBegin, Goto
    <3>2. snap' = [snap EXCEPT ![r] = lister] /\ has' = has
      BY <2>3 DEF BuildBegin
    <3> QED
      BY <1>2, <3>1, <3>2 DEF ServingTypeOK, InfosOK
  <2>4. CASE Register(r) \/ Finish(r)
    <3>1. \E l \in {"running", "done"} : pc' = [pc EXCEPT ![r] = l]
      BY <2>4 DEF Register, Finish, Goto
    <3>2. snap' \in {snap, [snap EXCEPT ![r] = Absent]} /\ has' \in {has, [has EXCEPT ![r] = 0]} /\ lock' = lock
      BY <2>4 DEF Register, Finish
    <3>3. pc' \in [Request -> {"idle", "got", "want", "build", "has", "running", "done"}]
      BY <3>1 DEF ServingTypeOK
    <3>4. snap' \in [Request -> Known]
      BY <1>2, <3>2 DEF Known
    <3>5. has' \in [Request -> 0 .. Len(info)]
      BY <1>2, <3>2 DEF InfosOK
    <3> QED
      BY <3>2, <3>3, <3>4, <3>5 DEF ServingTypeOK
  <2> QED
    BY <2>1, <2>2, <2>3, <2>4
<1>5. ServingTypeOK'
  BY <1>1, <1>4 DEF ServingTypeOK, Known, envVars, handlerVars
<1>6. \A u, s : (Ahead(u, s)' <=> Ahead(u, s)) /\ (Condemned(u)' <=> Condemned(u))
  BY <1>1 DEF Ahead, Condemned, Fits, Exists, envVars, handlerVars
<1>7. MapFits' /\ EventsChained'
  BY <1>1, <1>6 DEF MapFits, EventsChained, Exists, envVars, handlerVars
<1>8. BuilderFits'
  <2>1. CASE BuildBegin(r) /\ pc'[r] = "build"
    <3>1. lock' = {r} /\ lock = {} /\ Exists(lister) /\ snap' = [snap EXCEPT ![r] = lister]
            /\ pc' = [pc EXCEPT ![r] = "build"]
      BY <2>1 DEF BuildBegin, Goto, Unlocked, ServingTypeOK
    <3>2. Ahead(lister.uid, lister.spec)
      BY <3>1 DEF Ahead, Fits
    <3>3. \A q \in Request : pc'[q] = "build" => q = r
      BY <3>1 DEF BuilderFits, ServingTypeOK
    <3>4. snap'[r] = lister
      BY <1>2, <3>1
    <3> QED
      BY <1>6, <3>1, <3>2, <3>3, <3>4 DEF BuilderFits, Exists
  <2>2. CASE ~(BuildBegin(r) /\ pc'[r] = "build")
    <3>1. /\ pc'[r] # "build"
          /\ \A q \in Request : q # r => pc'[q] = pc[q] /\ snap'[q] = snap[q]
          /\ lock' = lock
      BY <1>2, <2>2 DEF ServeHTTP, FastPath, BuildBegin, Register, Finish, Goto, ServingTypeOK
    <3> QED
      BY <1>6, <3>1 DEF BuilderFits, Exists
  <2> QED
    BY <2>1, <2>2
<1>9. RequestsHold'
  <2>1. ASSUME NEW q \in Request, q # r PROVE pc'[q] = pc[q] /\ snap'[q] = snap[q] /\ has'[q] = has[q]
    BY <1>2, <2>1 DEF ServeHTTP, FastPath, BuildBegin, Register, Finish, Goto, ServingTypeOK
  <2>2. pc'[r] = "got" => Exists(snap'[r])
    BY <1>2 DEF ServeHTTP, FastPath, BuildBegin, Register, Finish, Goto, ServingTypeOK
  <2>3. pc'[r] \in {"has", "running"} => has'[r] # 0
    BY DEF ServeHTTP, FastPath, BuildBegin, Register, Finish, Goto, RequestsHold, ServingTypeOK
  <2> QED
    BY <2>1, <2>2, <2>3 DEF RequestsHold, Exists
<1>10. DrainedBeforeDestroyed'
  <2>1. ASSUME NEW q \in Request, Counted(q), pc'[q] = "running"
        PROVE  info[has'[q]].state # "destroyed" \/ info[has'[q]].timedOut
    <3>1. CASE q # r \/ pc[q] = "running"
      <4>1. pc[q] = "running" /\ has'[q] = has[q]
        BY <2>1, <3>1 DEF ServeHTTP, FastPath, BuildBegin, Register, Finish, Goto, ServingTypeOK
      <4> QED
        BY <2>1, <4>1 DEF DrainedBeforeDestroyed
    <3>2. CASE q = r /\ pc[q] # "running"
      <4>1. Register(r) /\ has' = has /\ VerbOf[r] # "finalize" /\ info[has[r]].state # "destroyed"
        BY <2>1, <3>2 DEF ServeHTTP, FastPath, BuildBegin, Register, Finish, Goto, ServingTypeOK, Counted
      <4> QED
        BY <3>2, <4>1
    <3> QED
      BY <3>1, <3>2
  <2> QED
    BY <1>1, <2>1 DEF DrainedBeforeDestroyed, Counted
<1> QED
  BY <1>5, <1>7, <1>8, <1>9, <1>10

\* The end of getOrCreateServingInfoFor.
LEMMA BuildEndInv ==
    ASSUME IInv, NEW r \in Request, BuildEnd(r)
    PROVE  IInv'
<1> USE DEF IInv
<1> DEFINE d == snap[r]
           new == [uid |-> d.uid, spec |-> d.spec, timedOut |-> FALSE, state |-> "live"]
<1>1. InfosOK /\ Len(info) \in Nat /\ d \in Definition /\ (Condemned(d.uid) \/ Ahead(d.uid, d.spec))
  BY InfosAreOK DEF InfosOK, ServingTypeOK, BuildEnd, BuilderFits, Exists
<1>2. d.uid \in UID /\ d.spec \in Spec0 /\ new \in Info
  BY <1>1 DEF Definition, Info
<1>3. /\ pc[r] = "build" /\ lock' = {} /\ pc' = [pc EXCEPT ![r] = "has"]
      /\ UNCHANGED <<envVars, handlerVars, snap, down>>
  BY DEF BuildEnd, Goto
<1>4. \A u, s : (Ahead(u, s)' <=> Ahead(u, s)) /\ (Condemned(u)' <=> Condemned(u))
  BY <1>3 DEF Ahead, Condemned, Fits, Exists, envVars, handlerVars
<1>5. /\ InfosOK' /\ Len(info') >= Len(info) /\ Len(info') \in Nat
      /\ \A j \in 1 .. Len(info) : info'[j] = info[j]
      /\ has'[r] # 0 /\ \A q \in Request : q # r => has'[q] = has[q]
      /\ \A u \in UID : \/ storageMap'[u] = storageMap[u]
                        \/ u = d.uid /\ storageMap'[u] \in 1 .. Len(info') /\ info'[storageMap'[u]] = new
  <2>1. CASE /\ storageMap[d.uid] # 0 /\ has' = [has EXCEPT ![r] = storageMap[d.uid]]
             /\ UNCHANGED <<info, storageMap>>
    BY <1>1, <1>2, <1>3, <2>1 DEF InfosOK
  <2>2. CASE /\ info' = Append(info, new) /\ storageMap' = [storageMap EXCEPT ![d.uid] = Len(info')]
             /\ has' = [has EXCEPT ![r] = Len(info')]
    <3> HIDE DEF d
    <3>1. new.uid = d.uid /\ new.state = "live"
      OBVIOUS
    <3> HIDE DEF new
    <3>2. /\ info' \in Seq(Info) /\ Len(info') = Len(info) + 1 /\ info'[Len(info')] = new
          /\ \A j \in 1 .. Len(info) : info'[j] = info[j]
      BY <1>1, <1>2, <2>2 DEF InfosOK
    <3>3. storageMap' \in [UID -> 0 .. Len(info')] /\ has' \in [Request -> 0 .. Len(info')]
      BY <1>1, <1>2, <2>2, <3>2 DEF InfosOK
    <3>4. /\ has'[r] # 0 /\ \A q \in Request : q # r => has'[q] = has[q]
          /\ storageMap'[d.uid] = Len(info') /\ \A u \in UID \ {d.uid} : storageMap'[u] = storageMap[u]
      BY <1>1, <1>2, <2>2, <3>2 DEF InfosOK
    <3>5. ASSUME NEW u \in UID, storageMap'[u] # 0
          PROVE  info'[storageMap'[u]].uid = u /\ (~down' => info'[storageMap'[u]].state = "live")
      <4>1. CASE u = d.uid
        BY <3>1, <3>2, <3>4, <4>1
      <4>2. CASE u # d.uid
        <5>1. storageMap'[u] = storageMap[u] /\ storageMap[u] \in 1 .. Len(info)
          BY <1>1, <3>4, <3>5, <4>2 DEF InfosOK
        <5> QED
          BY <1>1, <1>3, <3>2, <5>1 DEF InfosOK
      <4> QED
        BY <4>1, <4>2
    <3>6. Len(info') >= Len(info) /\ Len(info') \in 1 .. Len(info') /\ Len(info') \in Nat
      BY <1>1, <3>2
    <3> QED
      BY <3>2, <3>3, <3>4, <3>5, <3>6 DEF InfosOK
  <2> QED
    BY <2>1, <2>2 DEF BuildEnd
<1>6. ServingTypeOK'
  <2>1. pc' \in [Request -> {"idle", "got", "want", "build", "has", "running", "done"}]
    BY <1>3 DEF ServingTypeOK
  <2> QED
    BY <1>3, <1>5, <2>1 DEF ServingTypeOK, InfosOK, Info, envVars, handlerVars
<1>7. MapFits'
  <2> SUFFICES ASSUME NEW u \in UID, storageMap'[u] # 0
               PROVE  /\ info'[storageMap'[u]].uid = u
                      /\ Condemned(u)' \/ Ahead(u, info[storageMap[u]].spec)'
    BY DEF MapFits
  <2>1. info'[storageMap'[u]].uid = u
    BY <1>5 DEF InfosOK
  <2>2. ASSUME NEW s, s = info'[storageMap'[u]].spec PROVE Condemned(u) \/ Ahead(u, s)
    <3>1. CASE storageMap'[u] = storageMap[u]
      <4>1. storageMap[u] \in 1 .. Len(info) /\ s = info[storageMap[u]].spec
        BY <1>1, <1>5, <2>2, <3>1 DEF InfosOK
      <4> QED
        BY <4>1 DEF MapFits
    <3>2. CASE u = d.uid /\ info'[storageMap'[u]] = new
      <4>1. s = d.spec
        BY <2>2, <3>2
      <4> QED
        BY <1>1, <3>2, <4>1
    <3> QED
      BY <1>5, <3>1, <3>2
  <2> QED
    BY <1>4, <2>1, <2>2
<1>8. BuilderFits'
  <2>1. ASSUME NEW q \in Request, pc'[q] = "build" PROVE FALSE
    <3>1. q # r /\ pc[q] = "build"
      BY <1>3, <2>1 DEF ServingTypeOK
    <3>2. lock = {q} /\ lock = {r}
      BY <1>3, <3>1 DEF BuilderFits
    <3> QED
      BY <3>1, <3>2
  <2> QED
    BY <2>1 DEF BuilderFits
<1>9. EventsChained'
  BY <1>3 DEF EventsChained, Exists, envVars, handlerVars
<1>10. RequestsHold'
  <2>1. \A q \in Request : q # r => pc'[q] = pc[q]
    BY <1>3 DEF ServingTypeOK
  <2>2. pc'[r] = "has"
    BY <1>3 DEF ServingTypeOK
  <2> QED
    BY <1>3, <1>5, <2>1, <2>2 DEF RequestsHold, Exists
<1>11. DrainedBeforeDestroyed'
  <2> SUFFICES ASSUME NEW q \in Request, Counted(q), pc'[q] = "running"
               PROVE  info'[has'[q]].state # "destroyed" \/ info'[has'[q]].timedOut
    BY DEF DrainedBeforeDestroyed, Counted
  <2>1. q # r /\ pc[q] = "running"
    BY <1>3 DEF ServingTypeOK
  <2>2. has[q] \in 1 .. Len(info) /\ has'[q] = has[q]
    BY <1>1, <1>5, <2>1 DEF InfosOK, RequestsHold
  <2> QED
    BY <1>5, <2>1, <2>2 DEF DrainedBeforeDestroyed
<1> QED
  BY <1>6, <1>7, <1>8, <1>9, <1>10, <1>11

-----------------------------------------------------------------------------
\* Every step keeps the invariant.
LEMMA StepInv == IInv /\ [Next]_vars => IInv'
<1> SUFFICES ASSUME IInv, [Next]_vars PROVE IInv'
  OBVIOUS
<1>1. CASE UNCHANGED vars
  <2> USE <1>1 DEF vars, envVars, handlerVars, requestVars, IInv
  <2>1. ServingTypeOK' /\ EventsChained' /\ RequestsHold' /\ DrainedBeforeDestroyed'
    BY DEF ServingTypeOK, EventsChained, RequestsHold, DrainedBeforeDestroyed, Counted, Exists
  <2>2. MapFits' /\ BuilderFits'
    BY DEF MapFits, BuilderFits, Condemned, Ahead, Fits, Exists
  <2> QED
    BY <2>1, <2>2
<1>2. CASE Next
  BY <1>2, InformerInv, AddOrUpdateInv, DeadStorageInv, TearDownInv, DestroyInv, RequestOnlyInv, BuildEndInv
     DEF Next, EventStep, RequestStep
<1> QED
  BY <1>1, <1>2

\* Types; and an info in the map is not torn down before the server goes down.
THEOREM TypeCorrect == Spec => []ServingTypeOK
<1>1. IInv => ServingTypeOK
  BY DEF IInv
<1> QED
  BY <1>1, InitInv, StepInv, PTL DEF Spec

\* An info that does not fit the lister's definition has a notification before it
\* that takes it out of the map (getOrCreateServingInfoFor, removeDeadStorage).
THEOREM NothingStaleStays == Spec => []StaleInfoIsRemoved
<1>1. IInv => StaleInfoIsRemoved
  <2> SUFFICES ASSUME IInv, NEW u \in UID, storageMap[u] # 0, events = <<>>, hpc # "dead"
               PROVE  Exists(lister) /\ lister.uid = u /\ lister.spec = info[storageMap[u]].spec
    BY DEF StaleInfoIsRemoved
  <2>1. Len(events) = 0
    OBVIOUS
  <2> QED
    BY <2>1 DEF IInv, MapFits, Condemned, Ahead, Fits
<1> QED
  BY <1>1, InitInv, StepInv, PTL DEF Spec

\* A request that has registered with the wait group of its info keeps its storage
\* unless tearDown gave up waiting (tearDown, WithWaitGroup).
THEOREM DrainingWorks == Spec => []DrainedBeforeDestroyed
<1>1. IInv => DrainedBeforeDestroyed
  BY DEF IInv
<1> QED
  BY <1>1, InitInv, StepInv, PTL DEF Spec
=============================================================================
