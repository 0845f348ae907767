--------------------------- MODULE WatchSetProofs ---------------------------
(***************************************************************************)
(* Proofs about WatchSet, for any number of writers and watches.           *)
(*                                                                         *)
(* NoSendOnClosed is about channels, but its reason is the lock: a writer  *)
(* sends to watches it found in the map while it holds the read lock, the  *)
(* map loses entries under the write lock only, a channel is closed only   *)
(* once its watch is out of the map (by its handler or by the cleaner),    *)
(* and a watch enters the map once, before anybody can have closed it.     *)
(*                                                                         *)
(* NoGaps needs the same lock from the other side: whoever is registered   *)
(* when a writer takes the read lock stays registered, and nobody enters,  *)
(* until it is done.  So a watch is behind a writer by at most the one     *)
(* notification it has yet to be sent (Done), and what has arrived, what   *)
(* the forwarder holds included, is whole up to there (Good).              *)
(***************************************************************************)
EXTENDS WatchSet, TLAPS

\* Writers that send hold the lock, and send to registered watches only.
SendersLocked ==
    \A n \in Writer :
        /\ npc[n] = "sending" <=> n \in readers
        /\ npc[n] # "sending" => todo[n] = {} /\ cur[n] = {}
        /\ npc[n] # "idle" => count[n] \in 1 .. MaxEvents
        /\ todo[n] \cup cur[n] \subseteq nodes

Before == {"new", "newLock", "created", "startLock"}
After == {"closing", "done", "panicked"}

\* A closed channel, or one about to be closed, belongs to no registered watch; a
\* watch that is not registered yet is nobody's target.
ClosedUnregistered ==
    /\ \A w \in Watch :
        /\ w \in nodes => ~closed[w]
        /\ hpc[w] \in Before => w \notin nodes /\ ~closed[w] /\ w \notin target
        /\ hpc[w] \in After => w \notin nodes
    /\ cpc = "closing" => target \cap nodes = {}

IInv == TypeOK /\ SendersLocked /\ ClosedUnregistered

-----------------------------------------------------------------------------
\* Nobody has anything to send while the lock is free.
LEMMA FreeLock ==
    ASSUME IInv, CanLock, NEW n \in Writer
    PROVE  todo[n] = {} /\ cur[n] = {}
  BY DEF IInv, SendersLocked, CanLock

\* Init establishes the invariant.
LEMMA InitInv == Init => IInv
<1> SUFFICES ASSUME Init PROVE IInv
  OBVIOUS
<1>1. TypeOK
  BY WatchSetAssumption DEF Init, TypeOK, HandlerPC, ForwarderPC, CleanerPC
<1>2. SendersLocked
  BY DEF Init, SendersLocked
<1>3. ClosedUnregistered
  BY DEF Init, ClosedUnregistered, Before, After
<1> QED
  BY <1>1, <1>2, <1>3 DEF IInv

\* The steps of writers.
LEMMA WriterInv ==
    ASSUME IInv, NEW n \in Writer, NotifyBegin(n) \/ WriterStep(n)
    PROVE  IInv'
<1> USE DEF IInv
<1>1. CASE NotifyBegin(n)
  <2>1. TypeOK'
    BY <1>1, WatchSetAssumption DEF NotifyBegin, TypeOK, watchVars, cleanerVars
  <2>2. SendersLocked'
    BY <1>1, WatchSetAssumption DEF NotifyBegin, TypeOK, SendersLocked
  <2> QED
    BY <1>1, <2>1, <2>2 DEF NotifyBegin, ClosedUnregistered, watchVars, cleanerVars
<1>2. CASE NotifyRLock(n)
  <2>1. TypeOK'
    BY <1>2 DEF NotifyRLock, TypeOK, watchVars, cleanerVars
  <2>2. SendersLocked'
    BY <1>2 DEF NotifyRLock, TypeOK, SendersLocked
  <2> QED
    BY <1>2, <2>1, <2>2 DEF NotifyRLock, ClosedUnregistered, watchVars, cleanerVars
<1>3. CASE NotifyRUnlock(n)
  <2>1. TypeOK'
    BY <1>3 DEF NotifyRUnlock, TypeOK, watchVars, cleanerVars
  <2>2. SendersLocked'
    BY <1>3 DEF NotifyRUnlock, TypeOK, SendersLocked
  <2> QED
    BY <1>3, <2>1, <2>2 DEF NotifyRUnlock, ClosedUnregistered, watchVars, cleanerVars
<1>4. ASSUME NEW w \in Watch, NotifyNext(n, w) PROVE IInv'
  <2>1. TypeOK'
    BY <1>4 DEF NotifyNext, TypeOK, watchVars, cleanerVars
  <2>2. SendersLocked'
    BY <1>4 DEF NotifyNext, TypeOK, SendersLocked
  <2> QED
    BY <1>4, <2>1, <2>2 DEF NotifyNext, ClosedUnregistered, watchVars, cleanerVars
<1>5. ASSUME NEW w \in Watch, NotifySend(n, w) PROVE IInv'
  <2>1. [by |-> n, n |-> count[n]] \in Event
    BY <1>5 DEF NotifySend, SendersLocked, Event
  <2>2. TypeOK'
    BY <1>5, <2>1 DEF NotifySend, TypeOK, ForwarderPC, cleanerVars
  <2>3. SendersLocked'
    BY <1>5 DEF NotifySend, TypeOK, SendersLocked
  <2> QED
    BY <1>5, <2>2, <2>3 DEF NotifySend, ClosedUnregistered, cleanerVars
<1> QED
  BY <1>1, <1>2, <1>3, <1>4, <1>5 DEF WriterStep

\* The steps of handlers and forwarders.
LEMMA HandlerInv ==
    ASSUME IInv, NEW w \in Watch, HandlerStep(w) \/ ForwarderStep(w) \/ CallStop(w)
    PROVE  IInv'
<1> USE DEF IInv
<1>1. CASE CallNewWatch(w) \/ newWatch(w) \/ CallStart(w) \/ CallStop(w)
  <2>1. TypeOK'
    BY <1>1 DEF CallNewWatch, newWatch, CallStart, CallStop, Handler, TypeOK, HandlerPC, writerVars, cleanerVars
  <2>2. SendersLocked'
    BY <1>1 DEF CallNewWatch, newWatch, CallStart, CallStop, SendersLocked, writerVars
  <2>3. ClosedUnregistered'
    BY <1>1 DEF CallNewWatch, newWatch, CallStart, CallStop, Handler, TypeOK, ClosedUnregistered,
                Before, After, cleanerVars
  <2> QED
    BY <2>1, <2>2, <2>3
<1>2. CASE Start(w)
  <2>1. TypeOK'
    BY <1>2, WatchSetAssumption DEF Start, Handler, TypeOK, HandlerPC, ForwarderPC, writerVars, cleanerVars
  <2>2. SendersLocked'
    BY <1>2 DEF Start, SendersLocked, writerVars
  <2>3. ClosedUnregistered'
    BY <1>2 DEF Start, Handler, TypeOK, ClosedUnregistered, Before, After, cleanerVars
  <2> QED
    BY <2>1, <2>2, <2>3
<1>3. CASE StopDelete(w)
  <2>1. TypeOK'
    BY <1>3 DEF StopDelete, Handler, TypeOK, HandlerPC, writerVars, cleanerVars
  <2>2. SendersLocked'
    BY <1>3, FreeLock DEF StopDelete, SendersLocked, writerVars
  <2>3. ClosedUnregistered'
    BY <1>3 DEF StopDelete, Handler, TypeOK, ClosedUnregistered, Before, After, cleanerVars
  <2> QED
    BY <2>1, <2>2, <2>3
<1>4. CASE StopClose(w)
  <2>1. TypeOK'
    BY <1>4 DEF StopClose, Handler, TypeOK, HandlerPC, writerVars, cleanerVars
  <2>2. SendersLocked'
    BY <1>4 DEF StopClose, SendersLocked, writerVars
  <2>3. ClosedUnregistered'
    BY <1>4 DEF StopClose, Handler, TypeOK, ClosedUnregistered, Before, After, cleanerVars
  <2> QED
    BY <2>1, <2>2, <2>3
<1>5. CASE Receive(w)
  <2>1. got' \in [Watch -> Seq(Event \cup {InitEvent})]
    BY <1>5 DEF Receive, TypeOK
  <2>2. init' \in [Watch -> 0 .. NumInit]
    BY <1>5, WatchSetAssumption DEF Receive, TypeOK
  <2>3. TypeOK'
    BY <1>5, <2>1, <2>2 DEF Receive, TypeOK, ForwarderPC, writerVars, cleanerVars
  <2> QED
    BY <1>5, <2>3 DEF Receive, SendersLocked, ClosedUnregistered, writerVars, cleanerVars
<1>6. CASE ForwarderEnds(w)
  <2>1. TypeOK'
    BY <1>6 DEF ForwarderEnds, TypeOK, ForwarderPC, writerVars, cleanerVars
  <2> QED
    BY <1>6, <2>1 DEF ForwarderEnds, SendersLocked, ClosedUnregistered, writerVars, cleanerVars
<1> QED
  BY <1>1, <1>2, <1>3, <1>4, <1>5, <1>6 DEF HandlerStep, ForwarderStep

\* The steps of the cleaner.
LEMMA CleanerInv ==
    ASSUME IInv, CleanupBegin \/ CleanerStep
    PROVE  IInv'
<1> USE DEF IInv
<1>1. CASE CleanupBegin \/ CleanupEnd
  BY <1>1 DEF CleanupBegin, CleanupEnd, TypeOK, CleanerPC, SendersLocked, ClosedUnregistered,
              writerVars, watchVars
<1>2. CASE CleanupNext
  <2>1. TypeOK'
    BY <1>2 DEF CleanupNext, TypeOK, CleanerPC, writerVars, watchVars
  <2>2. SendersLocked'
    BY <1>2 DEF CleanupNext, SendersLocked, writerVars
  <2>3. ClosedUnregistered'
    BY <1>2 DEF CleanupNext, ClosedUnregistered, watchVars
  <2> QED
    BY <2>1, <2>2, <2>3
<1>3. CASE CleanupStopDelete
  <2>1. TypeOK'
    BY <1>3 DEF CleanupStopDelete, TypeOK, CleanerPC, writerVars, watchVars
  <2>2. SendersLocked'
    BY <1>3, FreeLock DEF CleanupStopDelete, SendersLocked, writerVars
  <2>3. ClosedUnregistered'
    BY <1>3 DEF CleanupStopDelete, ClosedUnregistered, watchVars
  <2> QED
    BY <2>1, <2>2, <2>3
<1>4. CASE CleanupStopClose
  <2>1. TypeOK'
    BY <1>4 DEF CleanupStopClose, TypeOK, CleanerPC, writerVars
  <2>2. SendersLocked'
    BY <1>4 DEF CleanupStopClose, SendersLocked, writerVars
  <2>3. ClosedUnregistered'
    BY <1>4 DEF CleanupStopClose, TypeOK, ClosedUnregistered
  <2> QED
    BY <2>1, <2>2, <2>3
<1> QED
  BY <1>1, <1>2, <1>3, <1>4 DEF CleanerStep

\* Every step keeps the invariant.
LEMMA StepInv == IInv /\ [Next]_vars => IInv'
<1> SUFFICES ASSUME IInv, [Next]_vars PROVE IInv'
  OBVIOUS
<1>1. CASE UNCHANGED vars
  BY <1>1 DEF vars, IInv, TypeOK, SendersLocked, ClosedUnregistered
<1> QED
  BY <1>1, WriterInv, HandlerInv, CleanerInv DEF Next

-----------------------------------------------------------------------------
(***************************************************************************)
(* What arrives at a watch.                                                *)
(***************************************************************************)
\* The last notification of writer n that w's forwarder has got, if n found w.
Done(n, w) == IF npc[n] = "rlock" \/ w \in todo[n] \cup cur[n] THEN count[n] - 1 ELSE count[n]

\* s holds notifications of n up to the d-th, in order, and those of w's selection
\* without a gap: up to the d-th if w is registered (R), else up to the last in s.
Good(w, n, s, d, R) ==
    /\ \A i \in From(n, s) : s[i].n <= d
    /\ \A i, j \in From(n, s) : i < j => s[i].n < s[j].n
    /\ \A e \in Selected[w], i \in From(n, s) :
        /\ e.by = n /\ s[i].n <= e.n
        /\ (w \in R /\ e.n <= d) \/ \E j \in From(n, s) : e.n <= s[j].n
        => \E k \in 1 .. Len(s) : s[k] = e

\* Nothing arrives before Start, and what the forwarder holds while initial events
\* are left is one of them.
Forwarding ==
    \A w \in Watch :
        /\ hpc[w] \in Before => fpc[w] = "none" /\ got[w] = <<>>
        /\ fpc[w] # "send" => init[w] = 0
        /\ (fpc[w] = "none" \/ init[w] > 0) => slot[w] = InitEvent

\* A writer sends to one watch after the other, and to each once.
OneAtATime == \A n \in Writer : \A w \in cur[n] : cur[n] = {w} /\ w \notin todo[n]

Streams == \A w \in Watch, n \in Writer : Good(w, n, Arrived(w), Done(n, w), nodes)

SInv == IInv /\ Forwarding /\ OneAtATime /\ Streams

Sent == Event \cup {InitEvent}

\* The notifications of a writer in a stream.
LEMMA FromType ==
    ASSUME NEW n \in Writer, NEW s \in Seq(Sent), NEW i \in From(n, s)
    PROVE  i \in Nat /\ i \in 1 .. Len(s) /\ s[i] \in Event /\ s[i].n \in Nat /\ s[i].by = n
<1>1. i \in 1 .. Len(s) /\ s[i] # InitEvent /\ s[i].by = n
  BY DEF From
<1>2. s[i] \in Sent
  BY <1>1
<1> QED
  BY <1>1, <1>2, WatchSetAssumption DEF Sent, Event

\* One event more.
LEMMA OneMore ==
    ASSUME NEW n \in Writer, NEW s \in Seq(Sent), NEW x \in Sent
    PROVE  /\ Append(s, x) \in Seq(Sent) /\ Len(s) \in Nat /\ Len(Append(s, x)) = Len(s) + 1
           /\ \A i \in 1 .. Len(s) : Append(s, x)[i] = s[i] /\ i \in 1 .. Len(Append(s, x))
           /\ Append(s, x)[Len(s) + 1] = x /\ Len(s) + 1 \in 1 .. Len(Append(s, x))
           /\ From(n, Append(s, x)) = From(n, s) \cup (IF x # InitEvent /\ x.by = n THEN {Len(s) + 1} ELSE {})
<1>1. /\ Append(s, x) \in Seq(Sent) /\ Len(s) \in Nat /\ Len(Append(s, x)) = Len(s) + 1
      /\ \A i \in 1 .. Len(s) : Append(s, x)[i] = s[i] /\ i \in 1 .. Len(Append(s, x))
      /\ Append(s, x)[Len(s) + 1] = x /\ Len(s) + 1 \in 1 .. Len(Append(s, x))
  OBVIOUS
<1> DEFINE t == Append(s, x)
<1> HIDE DEF t
<1>2. \A i : i \in 1 .. Len(t) <=> i \in 1 .. Len(s) \/ i = Len(s) + 1
  BY <1>1 DEF t
<1>3. \A i \in 1 .. Len(s) : t[i] = s[i]
  BY <1>1 DEF t
<1>4. t[Len(s) + 1] = x
  BY <1>1 DEF t
<1>5. From(n, t) = From(n, s) \cup (IF x # InitEvent /\ x.by = n THEN {Len(s) + 1} ELSE {})
  BY <1>2, <1>3, <1>4 DEF From
<1> QED
  BY <1>1, <1>5 DEF t

\* An event of somebody else, or an initial one.
LEMMA ForeignArrives ==
    ASSUME NEW w \in Watch, NEW n \in Writer, NEW s \in Seq(Sent), NEW d, NEW R, NEW x \in Sent,
           Good(w, n, s, d, R), x = InitEvent \/ x.by # n
    PROVE  Good(w, n, Append(s, x), d, R)
<1> DEFINE t == Append(s, x)
<1>1. /\ From(n, t) = From(n, s)
      /\ \A i \in 1 .. Len(s) : t[i] = s[i] /\ i \in 1 .. Len(t)
  <2>1. From(n, t) = From(n, s) \cup (IF x # InitEvent /\ x.by = n THEN {Len(s) + 1} ELSE {})
    BY OneMore
  <2>2. \A i \in 1 .. Len(s) : t[i] = s[i] /\ i \in 1 .. Len(t)
    BY OneMore
  <2> HIDE DEF t
  <2> QED
    BY <2>1, <2>2
<1>2. \A i \in From(n, s) : t[i] = s[i]
  BY <1>1, FromType
<1>3. \A e : (\E k \in 1 .. Len(s) : s[k] = e) => (\E k \in 1 .. Len(t) : t[k] = e)
  BY <1>1
<1> HIDE DEF t
<1>4. Good(w, n, t, d, R)
  BY <1>1, <1>2, <1>3 DEF Good
<1> QED
  BY <1>4 DEF t

\* The next event of the writer.
LEMMA NextArrives ==
    ASSUME NEW w \in Watch, NEW n \in Writer, NEW s \in Seq(Sent), NEW d \in Nat,
           NEW R, w \in R, Good(w, n, s, d, R), [by |-> n, n |-> d + 1] \in Event
    PROVE  Good(w, n, Append(s, [by |-> n, n |-> d + 1]), d + 1, R)
<1> DEFINE x == [by |-> n, n |-> d + 1]
           t == Append(s, x)
           m == Len(s) + 1
<1>1. x \in Sent /\ x # InitEvent /\ x.by = n /\ x.n = d + 1
  BY WatchSetAssumption DEF Sent
<1>2. \A e \in Selected[w] : e.by = n => e.n \in Nat /\ (e.n <= d + 1 => e.n <= d \/ e = x)
  <2>1. Selected[w] \subseteq Event
    BY WatchSetAssumption
  <2> QED
    BY <2>1, WatchSetAssumption DEF Event
<1> HIDE DEF x
<1>3. /\ From(n, t) = From(n, s) \cup {m} /\ t[m] = x /\ m \in 1 .. Len(t)
      /\ \A i \in 1 .. Len(s) : t[i] = s[i] /\ i \in 1 .. Len(t)
  BY <1>1, OneMore
<1>4. \A i \in From(n, s) : t[i] = s[i] /\ s[i].n \in Nat /\ s[i].n <= d /\ i < m /\ i \in Nat
  <2>1. Len(s) \in Nat
    OBVIOUS
  <2> QED
    BY <1>3, <2>1, FromType DEF Good
<1>5. \A e : (\E k \in 1 .. Len(s) : s[k] = e) => (\E k \in 1 .. Len(t) : t[k] = e)
  BY <1>3
<1>6. m \in Nat
  OBVIOUS
<1> HIDE DEF t, m
<1>7. \A i \in From(n, t) : t[i].n <= d + 1
  BY <1>1, <1>3, <1>4
<1>8. ASSUME NEW i \in From(n, t), NEW j \in From(n, t), i < j PROVE t[i].n < t[j].n
  <2>1. CASE i \in From(n, s) /\ j \in From(n, s)
    BY <1>4, <1>8, <2>1 DEF Good
  <2>2. CASE i \in From(n, s) /\ j = m
    <3>1. t[j].n = d + 1 /\ t[i] = s[i]
      BY <1>1, <1>3, <1>4, <2>2, Zenon
    <3>2. s[i].n < d + 1
      BY <1>4, <2>2
    <3> QED
      BY <3>1, <3>2, Zenon
  <2>3. CASE i = m
    BY <1>3, <1>4, <1>6, <1>8, <2>3
  <2> QED
    BY <1>3, <2>1, <2>2, <2>3
<1>9. ASSUME NEW e \in Selected[w], NEW i \in From(n, t), e.by = n, t[i].n <= e.n,
             e.n <= d + 1 \/ \E j \in From(n, t) : e.n <= t[j].n
      PROVE  \E k \in 1 .. Len(t) : t[k] = e
  <2>1. \A j \in From(n, t) : t[j].n \in Nat
    BY <1>1, <1>3, <1>4
  <2>2. e.n <= d + 1
    BY <1>2, <1>7, <1>9, <2>1
  <2>3. CASE e = x
    BY <1>3, <2>3
  <2>4. CASE e.n <= d
    <3>1. i # m
      BY <1>1, <1>2, <1>3, <1>9, <2>4
    <3>2. i \in From(n, s) /\ s[i].n <= e.n
      BY <1>3, <1>4, <1>9, <3>1
    <3>3. \E k \in 1 .. Len(s) : s[k] = e
      BY <1>9, <2>4, <3>2 DEF Good
    <3> QED
      BY <1>5, <3>3
  <2> QED
    BY <1>2, <1>9, <2>2, <2>3, <2>4
<1>10. Good(w, n, t, d + 1, R)
  BY <1>7, <1>8, <1>9 DEF Good
<1> QED
  BY <1>10 DEF t, x

\* The next event of the writer is not selected.
LEMMA NextDropped ==
    ASSUME NEW w \in Watch, NEW n \in Writer, NEW s \in Seq(Sent), NEW d \in Nat,
           NEW R, Good(w, n, s, d, R), [by |-> n, n |-> d + 1] \notin Selected[w]
    PROVE  Good(w, n, s, d + 1, R)
<1>1. \A e \in Selected[w] : e.by = n => e.n \in Nat /\ (e.n <= d + 1 => e.n <= d)
  <2>1. Selected[w] \subseteq Event
    BY WatchSetAssumption
  <2> QED
    BY <2>1, WatchSetAssumption DEF Event
<1>2. \A i \in From(n, s) : s[i].n \in Nat
  BY FromType
<1> QED
  BY <1>1, <1>2 DEF Good

\* A watch that is not registered misses events.
LEMMA NotRegistered ==
    ASSUME NEW w \in Watch, NEW n \in Writer, NEW s \in Seq(Sent), NEW d \in Nat, NEW f \in Nat, d <= f,
           NEW R, NEW Q, w \notin Q, Good(w, n, s, d, R)
    PROVE  Good(w, n, s, f, Q)
<1>1. \A i \in From(n, s) : s[i].n \in Nat
  BY FromType
<1> QED
  BY <1>1 DEF Good

\* Types.
LEMMA StreamTypes ==
    ASSUME SInv, NEW w \in Watch, NEW n \in Writer
    PROVE  Arrived(w) \in Seq(Sent) /\ got[w] \in Seq(Sent) /\ slot[w] \in Sent /\ Done(n, w) \in Nat
<1>1. got[w] \in Seq(Sent) /\ slot[w] \in Sent
  BY DEF SInv, IInv, TypeOK, Sent
<1>2. Arrived(w) \in Seq(Sent)
  BY <1>1 DEF Arrived
<1>3. count[n] \in Nat /\ (npc[n] # "idle" => count[n] - 1 \in Nat)
  BY WatchSetAssumption DEF SInv, IInv, TypeOK, SendersLocked
<1>4. Done(n, w) \in Nat
  BY <1>3 DEF SInv, IInv, SendersLocked, Done
<1> QED
  BY <1>1, <1>2, <1>4

\* A stream to which nothing comes, of a watch that may be removed.
LEMMA Quiet ==
    ASSUME SInv, NEW w \in Watch, NEW n \in Writer,
           Arrived(w)' = Arrived(w), Done(n, w)' = Done(n, w), w \in nodes' => w \in nodes
    PROVE  Good(w, n, Arrived(w)', Done(n, w)', nodes')
<1>1. Good(w, n, Arrived(w), Done(n, w), nodes)
  BY DEF SInv, Streams
<1>2. Arrived(w) \in Seq(Sent) /\ Done(n, w) \in Nat
  BY StreamTypes
<1> DEFINE s == Arrived(w)
           d == Done(n, w)
<1> HIDE DEF s, d
<1>3. Good(w, n, s, d, nodes')
  <2>1. CASE w \in nodes'
    BY <1>1, <2>1 DEF Good, s, d
  <2>2. CASE w \notin nodes'
    <3>1. d <= d
      BY <1>2 DEF d
    <3> QED
      BY <1>1, <1>2, <2>2, <3>1, NotRegistered DEF s, d
  <2> QED
    BY <2>1, <2>2
<1> QED
  BY <1>3 DEF s, d

\* Notifications are counted from one.
LEMMA Counted ==
    ASSUME SInv, NEW n \in Writer
    PROVE  count[n] \in Nat /\ (npc[n] # "idle" => count[n] - 1 \in Nat /\ (count[n] - 1) + 1 = count[n])
<1>1. count[n] \in Nat /\ (npc[n] # "idle" => count[n] >= 1)
  BY WatchSetAssumption DEF SInv, IInv, TypeOK, SendersLocked
<1> QED
  BY <1>1

\* The steps of writers.
LEMMA WriterStreams ==
    ASSUME SInv, NEW m \in Writer, NotifyBegin(m) \/ WriterStep(m)
    PROVE  Forwarding' /\ OneAtATime' /\ Streams'
<1> USE DEF SInv
<1>1. ASSUME UNCHANGED <<nodes, watchVars>>,
             \A w \in Watch, n \in Writer : Done(n, w)' = Done(n, w)
      PROVE  Forwarding' /\ Streams'
  <2>1. \A w \in Watch : Arrived(w)' = Arrived(w)
    BY <1>1 DEF watchVars, Arrived
  <2>2. Streams'
    BY <1>1, <2>1, Quiet DEF Streams
  <2> QED
    BY <1>1, <2>2 DEF Forwarding, watchVars
<1>2. CASE NotifyBegin(m)
  <2>1. ASSUME NEW w \in Watch, NEW n \in Writer
        PROVE  Done(n, w)' = Done(n, w)
    <3>1. CASE n = m
      <4>1. npc[m] = "idle" /\ npc'[m] = "rlock" /\ count'[m] = count[m] + 1 /\ todo[m] = {} /\ cur[m] = {}
        BY <1>2 DEF NotifyBegin, IInv, TypeOK, SendersLocked
      <4>2. Done(m, w) = count[m] /\ Done(m, w)' = (count[m] + 1) - 1
        BY <4>1 DEF Done
      <4> QED
        BY <3>1, <4>2, Counted
    <3>2. CASE n # m
      BY <1>2, <3>2 DEF NotifyBegin, Done, IInv, TypeOK
    <3> QED
      BY <3>1, <3>2
  <2> QED
    BY <1>1, <1>2, <2>1 DEF NotifyBegin, OneAtATime
<1>3. CASE NotifyRLock(m)
  <2>1. ASSUME NEW w \in Watch, NEW n \in Writer, n # m \/ w \in nodes
        PROVE  Done(n, w)' = Done(n, w)
    BY <1>3, <2>1 DEF NotifyRLock, Done, IInv, TypeOK, SendersLocked
  <2>2. \A w \in Watch : Arrived(w)' = Arrived(w)
    BY <1>3 DEF NotifyRLock, watchVars, Arrived
  <2>3. ASSUME NEW w \in Watch, NEW n \in Writer
        PROVE  Good(w, n, Arrived(w)', Done(n, w)', nodes')
    <3>1. CASE n # m \/ w \in nodes
      BY <1>3, <2>1, <2>2, <3>1, Quiet DEF NotifyRLock
    <3>2. CASE n = m /\ w \notin nodes
      <4>1. Done(n, w) = count[n] - 1 /\ Done(n, w)' = count[n] /\ count[n] \in Nat /\ count[n] - 1 \in Nat
        <5>1. npc[m] = "rlock" /\ npc'[m] = "sending" /\ todo'[m] = nodes /\ cur'[m] = {} /\ count' = count
          BY <1>3 DEF NotifyRLock, IInv, TypeOK, SendersLocked
        <5>2. Done(m, w) = count[m] - 1 /\ Done(m, w)' = count[m]
          BY <3>2, <5>1 DEF Done
        <5> QED
          BY <3>2, <5>1, <5>2, Counted
      <4>2. w \notin nodes'
        BY <1>3, <3>2 DEF NotifyRLock
      <4>3. Good(w, n, Arrived(w), Done(n, w), nodes) /\ Arrived(w) \in Seq(Sent)
        BY StreamTypes DEF Streams
      <4>4. Done(n, w) <= Done(n, w)'
        BY <4>1
      <4>5. Good(w, n, Arrived(w), Done(n, w)', nodes')
        BY <4>1, <4>2, <4>3, <4>4, NotRegistered
      <4> QED
        BY <2>2, <4>5
    <3> QED
      BY <3>1, <3>2
  <2>4. Forwarding' /\ OneAtATime'
    BY <1>3 DEF NotifyRLock, Forwarding, OneAtATime, watchVars, IInv, TypeOK, SendersLocked
  <2> QED
    BY <2>3, <2>4 DEF Streams
<1>4. ASSUME NEW v \in Watch, NotifyNext(m, v)
      PROVE  Forwarding' /\ OneAtATime' /\ Streams'
  <2>1. \A w \in Watch, n \in Writer : Done(n, w)' = Done(n, w)
    BY <1>4 DEF NotifyNext, Done, IInv, TypeOK
  <2>2. OneAtATime'
    BY <1>4 DEF NotifyNext, OneAtATime, IInv, TypeOK
  <2> QED
    BY <1>1, <1>4, <2>1, <2>2 DEF NotifyNext
<1>5. CASE NotifyRUnlock(m)
  <2>1. \A w \in Watch, n \in Writer : Done(n, w)' = Done(n, w)
    BY <1>5 DEF NotifyRUnlock, Done, IInv, TypeOK
  <2> QED
    BY <1>1, <1>5, <2>1 DEF NotifyRUnlock, OneAtATime
<1>6. ASSUME NEW v \in Watch, NotifySend(m, v)
      PROVE  Forwarding' /\ OneAtATime' /\ Streams'
  <2> DEFINE e == [by |-> m, n |-> count[m]]
  <2>1. /\ npc[m] = "sending" /\ v \in cur[m] /\ fpc[v] = "recv" /\ nodes' = nodes
        /\ cur' = [cur EXCEPT ![m] = {}] /\ UNCHANGED <<npc, todo, count, got, init, hpc>>
    BY <1>6 DEF NotifySend
  <2>2. v \in nodes /\ init[v] = 0 /\ cur[m] = {v} /\ v \notin todo[m] /\ e \in Event
    BY <2>1 DEF IInv, SendersLocked, Forwarding, OneAtATime, Event
  <2>3. /\ e \in Selected[v] => fpc' = [fpc EXCEPT ![v] = "send"] /\ slot' = [slot EXCEPT ![v] = e]
        /\ e \notin Selected[v] => fpc' = fpc /\ slot' = slot
    BY <1>6 DEF NotifySend, IInv, TypeOK
  <2>4. \A w \in Watch \ {v} : Arrived(w)' = Arrived(w)
    BY <2>1, <2>3 DEF Arrived, IInv, TypeOK
  <2>5. Arrived(v) = got[v] /\ Arrived(v)' = IF e \in Selected[v] THEN Append(got[v], e) ELSE got[v]
    <3>1. CASE e \in Selected[v]
      <4>1. fpc'[v] = "send" /\ slot'[v] = e
        BY <2>3, <3>1 DEF IInv, TypeOK
      <4> QED
        BY <2>1, <2>2, <3>1, <4>1 DEF Arrived
    <3>2. CASE e \notin Selected[v]
      BY <2>1, <2>3, <3>2 DEF Arrived
    <3> QED
      BY <3>1, <3>2
  <2>6. \A w \in Watch, n \in Writer : w # v \/ n # m => Done(n, w)' = Done(n, w)
    BY <2>1, <2>2 DEF Done, IInv, TypeOK
  <2>7. Done(m, v) \in Nat /\ count[m] = Done(m, v) + 1 /\ Done(m, v)' = Done(m, v) + 1
    <3>1. count[m] - 1 \in Nat /\ (count[m] - 1) + 1 = count[m]
      BY <2>1, Counted
    <3>2. Done(m, v) = count[m] - 1 /\ Done(m, v)' = count[m]
      BY <2>1, <2>2 DEF Done, IInv, TypeOK
    <3> QED
      BY <3>1, <3>2
  <2>8. v \in nodes /\ nodes' = nodes
    BY <2>1, <2>2
  <2> HIDE DEF e
  <2>9. ASSUME NEW w \in Watch, NEW n \in Writer
        PROVE  Good(w, n, Arrived(w)', Done(n, w)', nodes')
    <3>1. CASE w # v
      BY <2>1, <2>4, <2>6, <3>1, Quiet
    <3>2. CASE w = v /\ e \notin Selected[v] /\ n # m
      BY <2>1, <2>5, <2>6, <3>2, Quiet
    <3>3. CASE w = v /\ e \in Selected[v] /\ n # m
      <4>1. Good(v, n, got[v], Done(n, v), nodes) /\ got[v] \in Seq(Sent)
        BY <2>5, <2>8, StreamTypes DEF Streams
      <4>2. e \in Sent /\ e.by # n
        BY <2>2, <3>3 DEF Sent, e
      <4>3. Good(v, n, Append(got[v], e), Done(n, v), nodes)
        BY <4>1, <4>2, ForeignArrives
      <4> QED
        BY <2>5, <2>6, <2>8, <3>3, <4>3
    <3>4. CASE w = v /\ n = m
      <4>1. Good(v, m, got[v], Done(m, v), nodes) /\ got[v] \in Seq(Sent)
        BY <2>5, <2>8, StreamTypes DEF Streams
      <4>2. e = [by |-> m, n |-> Done(m, v) + 1]
        BY <2>7 DEF e
      <4>3. CASE e \in Selected[v]
        <5>1. Good(v, m, Append(got[v], e), Done(m, v) + 1, nodes)
          BY <2>2, <2>7, <4>1, <4>2, NextArrives
        <5> QED
          BY <2>5, <2>7, <2>8, <3>4, <4>3, <5>1
      <4>4. CASE e \notin Selected[v]
        <5>1. Good(v, m, got[v], Done(m, v) + 1, nodes)
          <6>1. [by |-> m, n |-> Done(m, v) + 1] \notin Selected[v]
            BY <4>2, <4>4
          <6> QED
            BY <2>7, <4>1, <6>1, NextDropped
        <5> QED
          BY <2>5, <2>7, <2>8, <3>4, <4>4, <5>1
      <4> QED
        BY <4>3, <4>4
    <3> QED
      BY <3>1, <3>2, <3>3, <3>4
  <2>10. Forwarding'
    <3>1. CASE e \in Selected[v]
      BY <2>1, <2>2, <2>3, <3>1 DEF Forwarding, IInv, TypeOK
    <3>2. CASE e \notin Selected[v]
      BY <2>1, <2>3, <3>2 DEF Forwarding
    <3> QED
      BY <3>1, <3>2
  <2>11. OneAtATime'
    BY <2>1 DEF OneAtATime, IInv, TypeOK
  <2> QED
    BY <2>9, <2>10, <2>11 DEF Streams
<1> QED
  BY <1>2, <1>3, <1>4, <1>5, <1>6 DEF WriterStep

\* The steps of handlers and forwarders.
LEMMA HandlerStreams ==
    ASSUME SInv, NEW v \in Watch, HandlerStep(v) \/ ForwarderStep(v) \/ CallStop(v)
    PROVE  Forwarding' /\ OneAtATime' /\ Streams'
<1> USE DEF SInv
<1>1. UNCHANGED writerVars
  BY DEF HandlerStep, ForwarderStep, CallNewWatch, newWatch, CallStart, Start, StopDelete, StopClose,
         CallStop, Receive, ForwarderEnds
<1>2. OneAtATime' /\ \A w \in Watch, n \in Writer : Done(n, w)' = Done(n, w)
  BY <1>1 DEF writerVars, OneAtATime, Done
<1>3. ASSUME \A w \in Watch : Arrived(w)' = Arrived(w), nodes' \subseteq nodes
      PROVE  Streams'
  BY <1>2, <1>3, Quiet DEF Streams
<1>4. CASE CallNewWatch(v) \/ newWatch(v) \/ CallStart(v) \/ CallStop(v) \/ StopDelete(v) \/ StopClose(v)
  <2>1. UNCHANGED <<fpc, init, slot, got>> /\ nodes' \subseteq nodes
    BY <1>4 DEF CallNewWatch, newWatch, CallStart, CallStop, StopDelete, StopClose
  <2>2. \A w \in Watch : hpc'[w] \in Before => hpc[w] \in Before
    BY <1>4 DEF CallNewWatch, newWatch, CallStart, CallStop, StopDelete, StopClose, Handler, Before, IInv, TypeOK
  <2>3. \A w \in Watch : Arrived(w)' = Arrived(w)
    BY <2>1 DEF Arrived
  <2>4. Forwarding'
    BY <2>1, <2>2 DEF Forwarding
  <2> QED
    BY <1>2, <1>3, <2>1, <2>3, <2>4
<1>5. CASE Start(v)
  <2>1. /\ hpc[v] = "startLock" /\ hpc' = [hpc EXCEPT ![v] = "reading"] /\ nodes' = nodes \cup {v}
        /\ fpc' = [fpc EXCEPT ![v] = IF NumInit = 0 THEN "recv" ELSE "send"]
        /\ init' = [init EXCEPT ![v] = NumInit] /\ UNCHANGED <<slot, got>>
    BY <1>5 DEF Start, Handler
  <2>2. fpc[v] = "none" /\ got[v] = <<>> /\ slot[v] = InitEvent
    BY <2>1 DEF Forwarding, Before
  <2>3. \A w \in Watch \ {v} : Arrived(w)' = Arrived(w)
    BY <2>1 DEF Arrived, IInv, TypeOK
  <2>4. Arrived(v)' = <<>>
    BY <2>1, <2>2 DEF Arrived, IInv, TypeOK
  <2>5. ASSUME NEW w \in Watch, NEW n \in Writer
        PROVE  Good(w, n, Arrived(w)', Done(n, w)', nodes')
    <3>1. CASE w # v
      BY <1>2, <2>1, <2>3, <3>1, Quiet
    <3>2. CASE w = v
      <4>1. From(n, <<>>) = {}
        BY DEF From
      <4> QED
        BY <2>4, <3>2, <4>1 DEF Good
    <3> QED
      BY <3>1, <3>2
  <2>6. Forwarding'
    BY <2>1, <2>2, WatchSetAssumption DEF Forwarding, Before, IInv, TypeOK
  <2> QED
    BY <1>2, <2>5, <2>6 DEF Streams
<1>6. CASE Receive(v)
  <2>1. /\ hpc[v] = "reading" /\ fpc[v] = "send" /\ UNCHANGED <<hpc, slot, nodes>>
        /\ got' = [got EXCEPT ![v] = Append(@, slot[v])]
        /\ init' = [init EXCEPT ![v] = IF @ = 0 THEN 0 ELSE @ - 1]
        /\ fpc' = [fpc EXCEPT ![v] = IF init[v] > 1 THEN "send" ELSE "recv"]
    BY <1>6 DEF Receive
  <2>2. \A w \in Watch \ {v} : Arrived(w)' = Arrived(w)
    BY <2>1 DEF Arrived, IInv, TypeOK
  <2>3. init[v] \in Nat /\ (init[v] > 0 => slot[v] = InitEvent)
    BY WatchSetAssumption DEF Forwarding, IInv, TypeOK
  <2>4. got'[v] = Append(got[v], slot[v]) /\ (fpc'[v] = "send" => init'[v] # 0)
    BY <2>1, <2>3 DEF IInv, TypeOK
  <2>5. Arrived(v)' = Append(got[v], slot[v])
    BY <2>4 DEF Arrived
  <2>6. Arrived(v) = IF init[v] = 0 THEN Append(got[v], slot[v]) ELSE got[v]
    BY <2>1 DEF Arrived
  <2>7. ASSUME NEW w \in Watch, NEW n \in Writer
        PROVE  Good(w, n, Arrived(w)', Done(n, w)', nodes')
    <3>1. CASE w # v
      BY <1>2, <2>1, <2>2, <3>1, Quiet
    <3>2. CASE w = v /\ init[v] = 0
      BY <1>2, <2>1, <2>5, <2>6, <3>2, Quiet
    <3>3. CASE w = v /\ init[v] # 0
      <4>1. Good(v, n, got[v], Done(n, v), nodes) /\ got[v] \in Seq(Sent) /\ slot[v] = InitEvent
        BY <2>3, <2>6, <3>3, StreamTypes DEF Streams
      <4>2. Good(v, n, Append(got[v], slot[v]), Done(n, v), nodes)
        BY <4>1, ForeignArrives DEF Sent
      <4> QED
        BY <1>2, <2>1, <2>5, <3>3, <4>2
    <3> QED
      BY <3>1, <3>2, <3>3
  <2>8. Forwarding'
    BY <2>1, <2>3 DEF Forwarding, Before, IInv, TypeOK
  <2> QED
    BY <1>2, <2>7, <2>8 DEF Streams
<1>7. CASE ForwarderEnds(v)
  <2>1. fpc[v] = "recv" /\ fpc' = [fpc EXCEPT ![v] = "finished"] /\ UNCHANGED <<hpc, init, slot, got, nodes>>
    BY <1>7 DEF ForwarderEnds
  <2>2. \A w \in Watch : Arrived(w)' = Arrived(w)
    BY <2>1 DEF Arrived, IInv, TypeOK
  <2>3. Forwarding'
    BY <2>1 DEF Forwarding, IInv, TypeOK
  <2> QED
    BY <1>2, <1>3, <2>1, <2>2, <2>3
<1> QED
  BY <1>4, <1>5, <1>6, <1>7 DEF HandlerStep, ForwarderStep

\* The steps of the cleaner.
LEMMA CleanerStreams ==
    ASSUME SInv, CleanupBegin \/ CleanerStep
    PROVE  Forwarding' /\ OneAtATime' /\ Streams'
<1>1. UNCHANGED <<writerVars, hpc, fpc, init, slot, got>> /\ nodes' \subseteq nodes
  BY DEF CleanupBegin, CleanerStep, CleanupNext, CleanupEnd, CleanupStopDelete, CleanupStopClose, watchVars
<1>2. \A w \in Watch, n \in Writer : Arrived(w)' = Arrived(w) /\ Done(n, w)' = Done(n, w)
  BY <1>1 DEF Arrived, Done, writerVars
<1>3. Streams'
  BY <1>1, <1>2, Quiet DEF Streams
<1> QED
  BY <1>1, <1>3 DEF SInv, Forwarding, OneAtATime, writerVars

\* Nothing has arrived at first.
LEMMA InitStreams == Init => SInv
<1> SUFFICES ASSUME Init PROVE SInv
  OBVIOUS
<1>1. \A w \in Watch : Arrived(w) = <<>>
  BY DEF Init, Arrived
<1>2. \A n \in Writer : From(n, <<>>) = {}
  BY DEF From
<1>3. Streams
  BY <1>1, <1>2 DEF Streams, Good
<1>4. Forwarding /\ OneAtATime
  BY DEF Init, Forwarding, OneAtATime
<1> QED
  BY <1>3, <1>4, InitInv DEF SInv

\* Every step keeps the streams.
LEMMA StepStreams == SInv /\ [Next]_vars => SInv'
<1> SUFFICES ASSUME SInv, [Next]_vars PROVE Forwarding' /\ OneAtATime' /\ Streams'
  BY StepInv DEF SInv
<1>1. CASE UNCHANGED vars
  <2>1. \A w \in Watch, n \in Writer : Arrived(w)' = Arrived(w) /\ Done(n, w)' = Done(n, w)
    BY <1>1 DEF vars, Arrived, Done
  <2>2. Streams'
    BY <1>1, <2>1, Quiet DEF Streams, vars
  <2> QED
    BY <1>1, <2>2 DEF SInv, Forwarding, OneAtATime, vars
<1> QED
  BY <1>1, WriterStreams, HandlerStreams, CleanerStreams DEF Next

\* Type correctness of the watch fan-out.
THEOREM TypeCorrect == Spec => []TypeOK
  BY InitInv, StepInv, PTL DEF Spec, IInv

\* notifyWatchers never sends on a channel that Stop has closed, whatever the
\* number of writers and watches, whoever calls Stop, and whenever.
THEOREM NeverSendsOnClosed == Spec => []NoSendOnClosed
<1>1. IInv => NoSendOnClosed
  BY DEF IInv, SendersLocked, ClosedUnregistered, NoSendOnClosed
<1> QED
  BY <1>1, InitInv, StepInv, PTL DEF Spec

\* A watch gets the selected notifications of a writer in order and without a gap, from
\* the first one on and up to the last one completed while it was registered: the lock
\* keeps the registered watches the same for as long as a writer sends.
THEOREM StreamsHaveNoGaps == Spec => []NoGaps
<1>1. SInv => NoGaps
  <2> SUFFICES ASSUME SInv, NEW w \in Watch, NEW n \in Writer
               PROVE  LET s == Arrived(w) IN
                      /\ \A i, j \in From(n, s) : i < j => s[i].n < s[j].n
                      /\ \A e \in Selected[w], first \in From(n, s) :
                          /\ e.by = n /\ s[first].n <= e.n
                          /\ \/ w \in nodes /\ npc[n] = "idle" /\ e.n <= count[n]
                             \/ \E later \in From(n, s) : e.n <= s[later].n
                          => e \in ToSet(s)
    BY DEF NoGaps
  <2> DEFINE s == Arrived(w)
  <2>1. Good(w, n, s, Done(n, w), nodes) /\ s \in Seq(Sent)
    BY StreamTypes DEF SInv, Streams
  <2>2. npc[n] = "idle" => Done(n, w) = count[n]
    BY DEF SInv, IInv, SendersLocked, Done
  <2> HIDE DEF s
  <2>3. \A e : (\E k \in 1 .. Len(s) : s[k] = e) => e \in ToSet(s)
    BY <2>1 DEF ToSet
  <2>4. /\ \A i, j \in From(n, s) : i < j => s[i].n < s[j].n
        /\ \A e \in Selected[w], first \in From(n, s) :
            /\ e.by = n /\ s[first].n <= e.n
            /\ \/ w \in nodes /\ npc[n] = "idle" /\ e.n <= count[n]
               \/ \E later \in From(n, s) : e.n <= s[later].n
            => e \in ToSet(s)
    BY <2>1, <2>2, <2>3 DEF Good
  <2> QED
    BY <2>4 DEF s
<1> QED
  BY <1>1, InitStreams, StepStreams, PTL DEF Spec
=============================================================================
