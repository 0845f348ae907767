----------------------------- MODULE WatchSet ------------------------------
(***************************************************************************)
(* The watch fan-out of the file backend (pkg/storage/filepath/watchset.go)*)
(* at the granularity of lock and channel operations.  Four kinds of       *)
(* goroutine meet here:                                                    *)
(*   - writers, which call notifyWatchers after a change; they hold the    *)
(*     read lock while they send on unbuffered channels;                   *)
(*   - one handler per watch (the HTTP request): newWatch, Start, then it  *)
(*     receives from ResultChan until its client goes away or the channel  *)
(*     is closed, and calls Stop in either case;                           *)
(*   - one forwarder per watch, the goroutine Start spawns: updateCh to    *)
(*     outCh;                                                              *)
(*   - the cleaner, which runs cleanupWatchers when the storage is         *)
(*     destroyed.                                                          *)
(* The critical sections under mu.Lock neither block nor call out, so each *)
(* is one step, taken once the readers are gone.  A goroutine that waits   *)
(* in Lock keeps new readers out (sync.RWMutex).                           *)
(***************************************************************************)
EXTENDS Naturals, Sequences, SequencesExt

CONSTANTS
    Writer,     \* goroutines that change objects
    Watch,      \* watches
    Quitter,    \* watches whose client may go away
    Selected,   \* [Watch -> SUBSET Event], the events the predicate selects
    InitEvent,  \* an initial event: the ADDED of an object that was listed
    NumInit,    \* initial events of a watch
    MaxEvents,  \* bound on the notifications of a writer
    Cleanup     \* the storage may be destroyed

\* The n-th notification of a writer.
Event == [by : Writer, n : 1 .. MaxEvents]

ASSUME WatchSetAssumption ==
    /\ Quitter \subseteq Watch
    /\ Selected \in [Watch -> SUBSET Event]
    /\ InitEvent \notin Event
    /\ NumInit \in Nat /\ MaxEvents \in Nat
    /\ Cleanup \in BOOLEAN

VARIABLES
    nodes,    \* registered watches
    readers,  \* writers that hold the read lock
    npc,      \* per writer: "idle", "rlock" (waits for it), "sending"
    todo,     \* per writer: watches its range has yet to produce
    cur,      \* per writer: the watch it is sending to (at most one)
    count,    \* per writer: notifications begun
    hpc,      \* per watch: the handler
    fpc,      \* per watch: the forwarder
    init,     \* per watch: initial events the forwarder has yet to send
    slot,     \* per watch: the event the forwarder holds
    closed,   \* per watch: updateCh is closed
    got,      \* history, per watch: what the handler received
    cpc,      \* the cleaner
    target,   \* the watches whose Stop the cleaner is executing (at most one)
    present,  \* the watches registered when its range began
    visited   \* the watches its range has produced

vars == <<nodes, readers, npc, todo, cur, count, hpc, fpc, init, slot, closed, got, cpc, target, present, visited>>
writerVars == <<readers, npc, todo, cur, count>>
watchVars == <<hpc, fpc, init, slot, closed, got>>
cleanerVars == <<cpc, target, present, visited>>

HandlerPC == {"new", "newLock", "created", "startLock", "reading", "stopLock", "closing", "done", "panicked"}
ForwarderPC == {"none", "recv", "send", "finished"}
CleanerPC == {"idle", "ranging", "stopLock", "closing", "done", "panicked"}

TypeOK ==
    /\ nodes \subseteq Watch
    /\ readers \subseteq Writer
    /\ npc \in [Writer -> {"idle", "rlock", "sending"}]
    /\ todo \in [Writer -> SUBSET Watch]
    /\ cur \in [Writer -> SUBSET Watch]
    /\ count \in [Writer -> 0 .. MaxEvents]
    /\ hpc \in [Watch -> HandlerPC]
    /\ fpc \in [Watch -> ForwarderPC]
    /\ init \in [Watch -> 0 .. NumInit]
    /\ slot \in [Watch -> Event \cup {InitEvent}]
    /\ closed \in [Watch -> BOOLEAN]
    /\ got \in [Watch -> Seq(Event \cup {InitEvent})]
    /\ cpc \in CleanerPC
    /\ target \subseteq Watch
    /\ present \subseteq Watch /\ visited \subseteq Watch

Init ==
    /\ nodes = {} /\ readers = {}
    /\ npc = [n \in Writer |-> "idle"]
    /\ todo = [n \in Writer |-> {}]
    /\ cur = [n \in Writer |-> {}]
    /\ count = [n \in Writer |-> 0]
    /\ hpc = [w \in Watch |-> "new"]
    /\ fpc = [w \in Watch |-> "none"]
    /\ init = [w \in Watch |-> 0]
    /\ slot = [w \in Watch |-> InitEvent]
    /\ closed = [w \in Watch |-> FALSE]
    /\ got = [w \in Watch |-> <<>>]
    /\ cpc = "idle" /\ target = {} /\ present = {} /\ visited = {}

-----------------------------------------------------------------------------
\* Somebody waits in mu.Lock.
LockWanted ==
    \/ \E w \in Watch : hpc[w] \in {"newLock", "startLock", "stopLock"}
    \/ cpc = "stopLock"

\* mu.Lock returns.
CanLock == readers = {}

(* notifyWatchers *)

NotifyBegin(n) ==
    /\ npc[n] = "idle" /\ count[n] < MaxEvents
    /\ npc' = [npc EXCEPT ![n] = "rlock"]
    /\ count' = [count EXCEPT ![n] = @ + 1]
    /\ UNCHANGED <<nodes, readers, todo, cur, watchVars, cleanerVars>>

NotifyRLock(n) ==
    /\ npc[n] = "rlock" /\ ~LockWanted
    /\ readers' = readers \cup {n}
    /\ todo' = [todo EXCEPT ![n] = nodes]
    /\ npc' = [npc EXCEPT ![n] = "sending"]
    /\ UNCHANGED <<nodes, cur, count, watchVars, cleanerVars>>

\* The range goes over the map in some order.
NotifyNext(n, w) ==
    /\ npc[n] = "sending" /\ cur[n] = {} /\ w \in todo[n]
    /\ todo' = [todo EXCEPT ![n] = @ \ {w}]
    /\ cur' = [cur EXCEPT ![n] = {w}]
    /\ UNCHANGED <<nodes, readers, npc, count, watchVars, cleanerVars>>

\* Seeded fault: a send that does not wait for the forwarder.
NotifySendOrDrop(n, w) ==
    LET e == [by |-> n, n |-> count[n]]
        taken == fpc[w] = "recv" /\ ~closed[w] /\ e \in Selected[w]
    IN
    /\ npc[n] = "sending" /\ w \in cur[n]
    /\ cur' = [cur EXCEPT ![n] = {}]
    /\ fpc' = [fpc EXCEPT ![w] = IF taken THEN "send" ELSE @]
    /\ slot' = [slot EXCEPT ![w] = IF taken THEN e ELSE @]
    /\ UNCHANGED <<nodes, readers, npc, todo, count, hpc, init, closed, got, cleanerVars>>

\* w.updateCh <- ev: the forwarder receives it and drops it if not selected.
NotifySend(n, w) ==
    LET e == [by |-> n, n |-> count[n]] IN
    /\ npc[n] = "sending" /\ w \in cur[n]
    /\ fpc[w] = "recv" /\ ~closed[w]
    /\ cur' = [cur EXCEPT ![n] = {}]
    /\ fpc' = [fpc EXCEPT ![w] = IF e \in Selected[w] THEN "send" ELSE @]
    /\ slot' = [slot EXCEPT ![w] = IF e \in Selected[w] THEN e ELSE @]
    /\ UNCHANGED <<nodes, readers, npc, todo, count, hpc, init, closed, got, cleanerVars>>

NotifyRUnlock(n) ==
    /\ npc[n] = "sending" /\ todo[n] = {} /\ cur[n] = {}
    /\ readers' = readers \ {n}
    /\ npc' = [npc EXCEPT ![n] = "idle"]
    /\ UNCHANGED <<nodes, todo, cur, count, watchVars, cleanerVars>>

-----------------------------------------------------------------------------
(* The handler of a watch. *)

Handler(w, from, to) == hpc[w] = from /\ hpc' = [hpc EXCEPT ![w] = to]

\* It calls newWatch or Start and gets in line for the lock.
CallNewWatch(w) ==
    /\ Handler(w, "new", "newLock")
    /\ UNCHANGED <<nodes, writerVars, fpc, init, slot, closed, got, cleanerVars>>

newWatch(w) ==
    /\ CanLock
    /\ Handler(w, "newLock", "created")
    /\ UNCHANGED <<nodes, writerVars, fpc, init, slot, closed, got, cleanerVars>>

CallStart(w) ==
    /\ Handler(w, "created", "startLock")
    /\ UNCHANGED <<nodes, writerVars, fpc, init, slot, closed, got, cleanerVars>>

\* Registered, and the forwarder spawned.
Start(w) ==
    /\ CanLock
    /\ Handler(w, "startLock", "reading")
    /\ nodes' = nodes \cup {w}
    /\ fpc' = [fpc EXCEPT ![w] = IF NumInit = 0 THEN "recv" ELSE "send"]
    /\ init' = [init EXCEPT ![w] = NumInit]
    /\ UNCHANGED <<writerVars, slot, closed, got, cleanerVars>>

\* Seeded fault: initial events are counted down once more than there are.
ReceiveOffByOne(w) ==
    /\ hpc[w] = "reading" /\ fpc[w] = "send"
    /\ got' = [got EXCEPT ![w] = Append(@, slot[w])]
    /\ init' = [init EXCEPT ![w] = @ - 1]
    /\ fpc' = [fpc EXCEPT ![w] = IF init[w] > 1 THEN "send" ELSE "recv"]
    /\ UNCHANGED <<nodes, writerVars, hpc, slot, closed, cleanerVars>>

\* outCh: the handler receives what the forwarder sends.
Receive(w) ==
    /\ hpc[w] = "reading" /\ fpc[w] = "send"
    /\ got' = [got EXCEPT ![w] = Append(@, slot[w])]
    /\ init' = [init EXCEPT ![w] = IF @ = 0 THEN 0 ELSE @ - 1]
    /\ fpc' = [fpc EXCEPT ![w] = IF init[w] > 1 THEN "send" ELSE "recv"]
    /\ UNCHANGED <<nodes, writerVars, hpc, slot, closed, cleanerVars>>

\* The client is gone, or outCh is closed: the deferred Stop runs.
CallStop(w) ==
    /\ w \in Quitter \/ fpc[w] = "finished"
    /\ Handler(w, "reading", "stopLock")
    /\ UNCHANGED <<nodes, writerVars, fpc, init, slot, closed, got, cleanerVars>>

\* Seeded fault: Stop without the lock.
StopDeleteUnlocked(w) ==
    /\ Handler(w, "stopLock", "closing")
    /\ nodes' = nodes \ {w}
    /\ UNCHANGED <<writerVars, fpc, init, slot, closed, got, cleanerVars>>

\* Stop, up to Unlock.
StopDelete(w) ==
    /\ CanLock
    /\ Handler(w, "stopLock", "closing")
    /\ nodes' = nodes \ {w}
    /\ UNCHANGED <<writerVars, fpc, init, slot, closed, got, cleanerVars>>

\* close(updateCh), which panics if it is closed already.
StopClose(w) ==
    /\ Handler(w, "closing", IF closed[w] THEN "panicked" ELSE "done")
    /\ closed' = [closed EXCEPT ![w] = TRUE]
    /\ UNCHANGED <<nodes, writerVars, fpc, init, slot, got, cleanerVars>>

\* The forwarder's range over updateCh ends and it closes outCh.
ForwarderEnds(w) ==
    /\ fpc[w] = "recv" /\ closed[w]
    /\ fpc' = [fpc EXCEPT ![w] = "finished"]
    /\ UNCHANGED <<nodes, writerVars, hpc, init, slot, closed, got, cleanerVars>>

-----------------------------------------------------------------------------
(***************************************************************************)
(* cleanupWatchers: a range over the map, without the lock, calling Stop.  *)
(* Stops and starts of other goroutines write to the map meanwhile: the    *)
(* range then goes on with or without the entries concerned, or the Go     *)
(* runtime notices and ends the process, which ends the behaviour.         *)
(***************************************************************************)

CleanupBegin ==
    /\ Cleanup /\ cpc = "idle"
    /\ cpc' = "ranging"
    /\ present' = nodes
    /\ UNCHANGED <<nodes, writerVars, watchVars, target, visited>>

CleanupNext ==
    /\ cpc = "ranging"
    /\ \E w \in nodes \ visited :
        /\ cpc' = "stopLock"
        /\ target' = {w}
        /\ visited' = visited \cup {w}
    /\ UNCHANGED <<nodes, writerVars, watchVars, present>>

\* The range produces no entry deleted before it got there, and may or may not
\* produce one inserted while it runs.
CleanupEnd ==
    /\ cpc = "ranging"
    /\ nodes \cap present \subseteq visited
    /\ cpc' = "done"
    /\ UNCHANGED <<nodes, writerVars, watchVars, target, present, visited>>

CleanupStopDelete ==
    /\ cpc = "stopLock" /\ CanLock
    /\ nodes' = nodes \ target
    /\ cpc' = "closing"
    /\ UNCHANGED <<writerVars, watchVars, target, present, visited>>

\* Seeded fault: the watch is removed and its channel left open.
CleanupStopOpen ==
    /\ cpc = "closing"
    /\ cpc' = "ranging"
    /\ target' = {}
    /\ UNCHANGED <<nodes, writerVars, watchVars, present, visited>>

CleanupStopClose ==
    /\ cpc = "closing"
    /\ cpc' = IF \E w \in target : closed[w] THEN "panicked" ELSE "ranging"
    /\ closed' = [w \in Watch |-> closed[w] \/ w \in target]
    /\ target' = {}
    /\ UNCHANGED <<nodes, writerVars, hpc, fpc, init, slot, got, present, visited>>

-----------------------------------------------------------------------------
WriterStep(n) == NotifyRLock(n) \/ NotifyRUnlock(n) \/ \E w \in Watch : NotifyNext(n, w) \/ NotifySend(n, w)

HandlerStep(w) ==
    \/ CallNewWatch(w) \/ newWatch(w) \/ CallStart(w) \/ Start(w)
    \/ StopDelete(w) \/ StopClose(w)
    \/ fpc[w] = "finished" /\ CallStop(w)

ForwarderStep(w) == Receive(w) \/ ForwarderEnds(w)

CleanerStep == CleanupNext \/ CleanupEnd \/ CleanupStopDelete \/ CleanupStopClose

Next ==
    \/ \E n \in Writer : NotifyBegin(n) \/ WriterStep(n)
    \/ \E w \in Watch : HandlerStep(w) \/ ForwarderStep(w) \/ CallStop(w)
    \/ CleanupBegin \/ CleanerStep

Spec == Init /\ [][Next]_vars

\* The Go scheduler runs every goroutine that can run, and a handler reads its
\* channel until it calls Stop.  Writers need not write, clients need not go
\* away, storages need not be destroyed.
FairSpec ==
    /\ Spec
    /\ \A n \in Writer : WF_vars(WriterStep(n))
    /\ \A w \in Watch : WF_vars(HandlerStep(w)) /\ WF_vars(ForwarderStep(w))
    /\ WF_vars(CleanerStep)

-----------------------------------------------------------------------------
(***************************************************************************)
(* Properties.                                                             *)
(***************************************************************************)

\* A writer never sends on a closed channel (which would panic): Stop removes
\* the watch under the write lock before it closes updateCh, and writers send
\* only to watches they found under the read lock.
NoSendOnClosed == \A n \in Writer, w \in Watch : w \in todo[n] \cup cur[n] => ~closed[w]

\* What reached w's forwarder, in order.
Arrived(w) == IF fpc[w] = "send" /\ init[w] = 0 THEN Append(got[w], slot[w]) ELSE got[w]

\* The places in s of the notifications of writer n.
From(n, s) == {i \in 1 .. Len(s) : s[i] # InitEvent /\ s[i].by = n}

\* From the first one it gets, a watch gets every selected notification of a
\* writer exactly once and in order, up to the last one that writer completed
\* while the watch was registered.
NoGaps ==
    \A w \in Watch, n \in Writer :
        LET s == Arrived(w) IN
        /\ \A i, j \in From(n, s) : i < j => s[i].n < s[j].n
        /\ \A e \in Selected[w], first \in From(n, s) :
            /\ e.by = n /\ s[first].n <= e.n
            /\ \/ w \in nodes /\ npc[n] = "idle" /\ e.n <= count[n]
               \/ \E later \in From(n, s) : e.n <= s[later].n
            => e \in ToSet(s)

\* storage.go:185-186 "any items selected by 'p' are sent down to returned
\* watch.Interface": an event notified while a watch is registered arrives
\* there, unless its own client goes away.
SelectedEventsArrive ==
    \A n \in Writer, w \in Watch \ Quitter : \A e \in Selected[w] :
        (e = [by |-> n, n |-> count[n]] /\ npc[n] = "sending" /\ w \in todo[n] \cup cur[n])
            ~> (e \in ToSet(got[w]))

\* Destroying a storage ends every watch: the handler that still reads learns
\* that its channel is closed and runs its Stop.
DestroyEndsWatches ==
    \A w \in Watch : (cpc = "stopLock" /\ w \in target) ~> (hpc[w] \in {"done", "panicked"})
=============================================================================
