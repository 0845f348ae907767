----------------------------- MODULE GRDServing -----------------------------
(***************************************************************************)
(* grdHandler's storages.  A request finds the serving info of its         *)
(* definition in a copy-on-write map, or builds it from the lister under   *)
(* customStorageLock.  The informer updates the lister first and calls the *)
(* handler's event functions later; these take stale infos out of the map  *)
(* and tear them down once the requests that use them are drained.         *)
(***************************************************************************)
EXTENDS Naturals, Sequences, RequestDispatch

CONSTANTS
    Absent,        \* no such definition
    Request,       \* requests and uses of a storage by the finalizer
    VerbOf,        \* their verbs, "finalize" for the finalizer
    Spec0, Served, \* specs (with accepted names), and those that serve the version
    MaxUID,        \* bound on how often the definition is created
    MaxChanges,    \* bound on changes of the definition
    MaxInfos       \* bound on serving infos built

UID == 1..MaxUID

ASSUME ServingAssumption ==
    /\ MaxUID \in Nat /\ MaxChanges \in Nat /\ MaxInfos \in Nat
    /\ Served \subseteq Spec0
    /\ VerbOf \in [Request -> {"get", "create", "watch", "finalize"}]

\* ready: NamesAccepted or Established.
Definition == [uid : UID, spec : Spec0, ready : BOOLEAN, term : BOOLEAN]
ASSUME AbsentAssumption == Absent \notin Definition

VARIABLES
    lister,        \* the definition in the lister
    events,        \* notifications not yet delivered: <<old, new>>
    hpc, alive,    \* removeDeadStorage: has listed these UIDs and waits for the lock
    storageMap,    \* customStorage: UID -> index of an info, 0 for none
    info,          \* the infos built so far
    lock,          \* the request that builds an info under customStorageLock
    pc,            \* per request: where it is
    snap,          \* per request: the definition it got from the lister
    has,           \* per request: the info it uses
    uids, changes, \* definitions created, and changed, so far
    down           \* the server has been shut down

envVars == <<lister, uids, changes>>
handlerVars == <<events, hpc, alive>>
requestVars == <<lock, pc, snap, has>>
vars == <<envVars, handlerVars, storageMap, info, requestVars, down>>

Exists(d) == d # Absent

\* Types; and what the map holds is not torn down before the server goes down.
ServingTypeOK ==
    /\ lister \in Definition \cup {Absent}
    /\ events \in Seq((Definition \cup {Absent}) \X (Definition \cup {Absent}))
    /\ hpc \in {"idle", "dead"} /\ alive \subseteq UID
    /\ storageMap \in [UID -> 0..Len(info)]
    /\ info \in Seq([uid : UID, spec : Spec0, timedOut : BOOLEAN,
                     state : {"live", "removed", "closing", "destroyed"}])
    /\ lock \in SUBSET Request
    /\ pc \in [Request -> {"idle", "got", "want", "build", "has", "running", "done"}]
    /\ snap \in [Request -> Definition \cup {Absent}]
    /\ has \in [Request -> 0..Len(info)]
    /\ uids \in 0..MaxUID /\ changes \in 0..MaxChanges /\ down \in BOOLEAN
    /\ \A u \in UID : storageMap[u] # 0 /\ ~down =>
        info[storageMap[u]].uid = u /\ info[storageMap[u]].state = "live"

Init ==
    /\ lister = Absent /\ events = <<>> /\ hpc = "idle" /\ alive = {}
    /\ storageMap = [u \in UID |-> 0] /\ info = <<>>
    /\ lock = {} /\ pc = [r \in Request |-> "idle"]
    /\ snap = [r \in Request |-> Absent] /\ has = [r \in Request |-> 0]
    /\ uids = 0 /\ changes = 0 /\ down = FALSE

-----------------------------------------------------------------------------
(***************************************************************************)
(* The informer.  A new list may turn a deletion and a creation into one   *)
(* update.                                                                 *)
(***************************************************************************)
Change(d) ==
    /\ lister' = d /\ events' = Append(events, <<lister, d>>)
    /\ UNCHANGED <<hpc, alive, storageMap, info, requestVars, down>>

DefinitionAdded ==
    /\ uids < MaxUID
    /\ Exists(lister) => changes < MaxChanges
    /\ \E s \in Served :
        Change([uid |-> uids + 1, spec |-> s, ready |-> FALSE, term |-> FALSE])
    /\ uids' = uids + 1
    /\ changes' = IF Exists(lister) THEN changes + 1 ELSE changes

DefinitionChanged ==
    /\ Exists(lister)
    /\ \/ ~lister.ready /\ Change([lister EXCEPT !.ready = TRUE]) /\ UNCHANGED changes
       \/ /\ changes < MaxChanges /\ changes' = changes + 1
          /\ \/ \E s \in Spec0 \ {lister.spec} : Change([lister EXCEPT !.spec = s])
             \/ ~lister.term /\ Change([lister EXCEPT !.term = TRUE])
    /\ UNCHANGED uids

DefinitionDeleted ==
    /\ Exists(lister) /\ Change(Absent)
    /\ UNCHANGED <<uids, changes>>

-----------------------------------------------------------------------------
(***************************************************************************)
(* Event functions; all but the list of removeDeadStorage are under the    *)
(* lock.                                                                   *)
(***************************************************************************)
Unlocked == lock = {}

\* Seeded fault: the info is torn down and stays in the map.
tearDownOnly(dead) ==
    /\ UNCHANGED storageMap
    /\ info' = [i \in 1..Len(info) |->
                  IF i \in {storageMap[u] : u \in dead} THEN [info[i] EXCEPT !.state = "removed"] ELSE info[i]]

\* Infos of the UIDs in dead leave the map, and a goroutine tears each down.
removeStorage(dead) ==
    /\ storageMap' = [u \in UID |-> IF u \in dead THEN 0 ELSE storageMap[u]]
    /\ info' = [i \in 1..Len(info) |->
                  IF i \in {storageMap[u] : u \in dead} THEN [info[i] EXCEPT !.state = "removed"] ELSE info[i]]

Stale(d) == storageMap[d.uid] # 0 /\ info[storageMap[d.uid]].spec # d.spec

createGrafanaResourceDefinition ==
    /\ Unlocked /\ events # <<>> /\ hpc = "idle"
    /\ ~Exists(Head(events)[1])
    /\ LET d == Head(events)[2] IN removeStorage(IF Stale(d) THEN {d.uid} ELSE {})
    /\ events' = Tail(events)
    /\ UNCHANGED <<envVars, hpc, alive, requestVars, down>>

updateGrafanaResourceDefinition ==
    /\ Unlocked /\ events # <<>> /\ hpc = "idle"
    /\ Exists(Head(events)[1]) /\ Exists(Head(events)[2])
    /\ LET old == Head(events)[1]
           new == Head(events)[2]
       IN  removeStorage({u \in {old.uid} : u # new.uid} \cup {u \in {new.uid} : Stale(new)})
    /\ events' = Tail(events)
    /\ UNCHANGED <<envVars, hpc, alive, requestVars, down>>

removeDeadStorageList ==
    /\ events # <<>> /\ hpc = "idle" /\ ~Exists(Head(events)[2])
    /\ hpc' = "dead" /\ alive' = {u \in UID : Exists(lister) /\ lister.uid = u}
    /\ events' = Tail(events)
    /\ UNCHANGED <<envVars, storageMap, info, requestVars, down>>

\* Seeded fault: dead infos leave the map and are never torn down.
removeDeadStorageLeak ==
    /\ Unlocked /\ hpc = "dead"
    /\ storageMap' = [u \in UID |-> IF u \in alive THEN storageMap[u] ELSE 0]
    /\ hpc' = "idle" /\ alive' = {}
    /\ UNCHANGED <<envVars, events, info, requestVars, down>>

removeDeadStorage ==
    /\ Unlocked /\ hpc = "dead"
    /\ removeStorage(UID \ alive)
    /\ hpc' = "idle" /\ alive' = {}
    /\ UNCHANGED <<envVars, events, requestVars, down>>

-----------------------------------------------------------------------------
(***************************************************************************)
(* tearDown: a second for late requests, Wait, destroy.                    *)
(***************************************************************************)
\* Verbs that are not long-running register with the wait group; the finalizer,
\* which takes the storage itself, does not.
Counted(r) == VerbOf[r] \in {"get", "create"}

InUse(i) == {r \in Request : Counted(r) /\ pc[r] = "running" /\ has[r] = i}

SetState(i, s, t) == info' = [info EXCEPT ![i].state = s, ![i].timedOut = t]

\* After the second: from Wait on, the wait group takes nobody in.
tearDownWait(i) ==
    /\ info[i].state = "removed" /\ SetState(i, "closing", FALSE)
    /\ UNCHANGED <<envVars, handlerVars, storageMap, requestVars, down>>

\* The storages are destroyed when the requests are drained, or after twice the
\* request timeout.
tearDownDestroy(i) ==
    /\ info[i].state = "closing" /\ SetState(i, "destroyed", InUse(i) # {})
    /\ UNCHANGED <<envVars, handlerVars, storageMap, requestVars, down>>

\* destroy, after the requests have been drained; watches and the finalizer may go on.
destroy ==
    /\ ~down /\ Unlocked
    /\ \A r \in Request : Counted(r) => pc[r] \in {"idle", "done"}
    /\ down' = TRUE
    /\ info' = [i \in 1..Len(info) |->
                  IF \E u \in UID : storageMap[u] = i THEN [info[i] EXCEPT !.state = "destroyed"] ELSE info[i]]
    /\ UNCHANGED <<envVars, handlerVars, storageMap, requestVars>>

-----------------------------------------------------------------------------
(***************************************************************************)
(* A request.                                                              *)
(***************************************************************************)
Goto(r, l) == pc' = [pc EXCEPT ![r] = l]

\* ServeHTTP up to getOrCreateServingInfoFor: what is not served goes to the
\* delegate.  The finalizer comes with a definition it got from the same lister.
ServeHTTP(r) ==
    /\ pc[r] = "idle" /\ ~down /\ Exists(lister)
    /\ IF VerbOf[r] = "finalize" \/ (lister.spec \in Served /\ lister.ready)
       THEN Goto(r, "got") /\ snap' = [snap EXCEPT ![r] = lister]
       ELSE Goto(r, "done") /\ UNCHANGED snap
    /\ UNCHANGED <<envVars, handlerVars, storageMap, info, lock, has, down>>

\* The map is read without the lock.
FastPath(r) ==
    /\ pc[r] = "got"
    /\ LET i == storageMap[snap[r].uid] IN
       /\ Goto(r, IF i = 0 THEN "want" ELSE "has")
       /\ has' = [has EXCEPT ![r] = i]
    /\ UNCHANGED <<envVars, handlerVars, storageMap, info, lock, snap, down>>

\* Seeded fault: the info is built from the definition read before the lock.
BuildFromSnapshot(r) ==
    /\ pc[r] = "want" /\ Unlocked
    /\ lock' = {r} /\ Goto(r, "build")
    /\ UNCHANGED <<envVars, handlerVars, storageMap, info, snap, has, down>>

\* With the lock: the definition again, by name.
BuildBegin(r) ==
    /\ pc[r] = "want" /\ Unlocked
    /\ IF Exists(lister) THEN lock' = {r} /\ Goto(r, "build") ELSE UNCHANGED lock /\ Goto(r, "done")
    /\ snap' = [snap EXCEPT ![r] = lister]
    /\ UNCHANGED <<envVars, handlerVars, storageMap, info, has, down>>

\* Somebody else may have stored an info for this UID; otherwise it is built.
BuildEnd(r) ==
    /\ pc[r] = "build" /\ lock' = {} /\ Goto(r, "has")
    /\ LET d == snap[r] IN
       \/ /\ storageMap[d.uid] # 0
          /\ has' = [has EXCEPT ![r] = storageMap[d.uid]]
          /\ UNCHANGED <<info, storageMap>>
       \/ /\ storageMap[d.uid] = 0 /\ Len(info) < MaxInfos
          /\ info' = Append(info, [uid |-> d.uid, spec |-> d.spec, timedOut |-> FALSE, state |-> "live"])
          /\ storageMap' = [storageMap EXCEPT ![d.uid] = Len(info')]
          /\ has' = [has EXCEPT ![r] = Len(info')]
    /\ UNCHANGED <<envVars, handlerVars, snap, down>>

\* Seeded fault: the wait group takes requests while somebody waits for it.
RegisterLate(r) ==
    /\ pc[r] = "has" /\ Goto(r, "running") /\ snap' = [snap EXCEPT ![r] = Absent]
    /\ UNCHANGED <<envVars, handlerVars, storageMap, info, lock, has, down>>

\* The version must be one of the info too; the dispatch may refuse the verb; a
\* create may sleep first.  Then WithWaitGroup: 503 once tearDown waits.
Register(r) ==
    /\ pc[r] = "has"
    /\ LET i == info[has[r]] IN
       Goto(r, IF \/ VerbOf[r] = "finalize"
                  \/ /\ i.spec \in Served
                     /\ Dispatch("", VerbOf[r], {}, snap[r].term) = "resource"
                     /\ Counted(r) => i.state \notin {"closing", "destroyed"}
               THEN "running" ELSE "done")
    /\ snap' = [snap EXCEPT ![r] = Absent]
    /\ UNCHANGED <<envVars, handlerVars, storageMap, info, lock, has, down>>

Finish(r) ==
    /\ pc[r] = "running" /\ Goto(r, "done") /\ has' = [has EXCEPT ![r] = 0]
    /\ UNCHANGED <<envVars, handlerVars, storageMap, info, lock, snap, down>>

-----------------------------------------------------------------------------
Informer == DefinitionAdded \/ DefinitionChanged \/ DefinitionDeleted

EventStep ==
    \/ createGrafanaResourceDefinition \/ updateGrafanaResourceDefinition
    \/ removeDeadStorageList \/ removeDeadStorage

RequestStep(r) == FastPath(r) \/ BuildBegin(r) \/ BuildEnd(r) \/ Register(r) \/ Finish(r)

TearDownStep(i) == i <= Len(info) /\ (tearDownWait(i) \/ tearDownDestroy(i))

Next ==
    \/ Informer \/ EventStep \/ destroy
    \/ \E r \in Request : ServeHTTP(r) \/ RequestStep(r)
    \/ \E i \in 1..MaxInfos : TearDownStep(i)

Spec == Init /\ [][Next]_vars

\* Notifications are delivered, goroutines run.
FairSpec ==
    /\ Spec /\ WF_vars(EventStep)
    /\ \A r \in Request : WF_vars(RequestStep(r))
    /\ \A i \in 1..MaxInfos : WF_vars(TearDownStep(i))

-----------------------------------------------------------------------------
(***************************************************************************)
(* Properties.                                                             *)
(***************************************************************************)

\* An info in the map that does not fit the lister's definition is on its way
\* out: a notification is pending that removes it, or a request holds the lock
\* and the notification comes after it ("to avoid racing with
\* updateGrafanaResourceDefinition", getOrCreateServingInfoFor).
StaleInfoIsRemoved ==
    \A u \in UID : storageMap[u] # 0 =>
        \/ events # <<>> \/ hpc = "dead"
        \/ Exists(lister) /\ lister.uid = u /\ lister.spec = info[storageMap[u]].spec

\* A request that has registered with the wait group keeps its storage until it
\* is done, however late it registered, unless tearDown gave up waiting for it.
DrainedBeforeDestroyed ==
    \A r \in Request : Counted(r) /\ pc[r] = "running" =>
        info[has[r]].state # "destroyed" \/ info[has[r]].timedOut

\* In the end every storage that was built is destroyed, or it is the one that
\* serves the definition as it is: neither a deletion nor a replacement, with or
\* without the events merged, leaves one behind.
AbandonedStorageIsDestroyed ==
    <>[](\A i \in 1..Len(info) :
            \/ info[i].state = "destroyed"
            \/ Exists(lister) /\ lister.uid = info[i].uid /\ lister.spec = info[i].spec
               /\ storageMap[lister.uid] = i)
=============================================================================
