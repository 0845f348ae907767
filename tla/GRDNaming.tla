----------------------------- MODULE GRDNaming -----------------------------
(***************************************************************************)
(* How the names of GrafanaResourceDefinitions are reserved and how a      *)
(* definition becomes Established.  All definitions belong to one API      *)
(* group.  The parts:                                                      *)
(*   - the API server's registry: a history of versions per definition;    *)
(*     its last element is what is stored, and an index is a resource      *)
(*     version (an update is accepted only if it is based on the last);    *)
(*   - the shared informer: pos[g] is the version its lister holds; it     *)
(*     moves through all versions in order, calling the event handlers of  *)
(*     the naming controller and of the request handler;                   *)
(*   - NamingConditionController with its work queue, its single worker    *)
(*     and its mutation cache;                                             *)
(*   - EstablishingController, fed by the request handler's update events. *)
(* A worker reads the lister, computes, and calls UpdateStatus in separate *)
(* steps, between which everything else may happen.                        *)
(***************************************************************************)
EXTENDS Naturals, Sequences, FiniteSets, SequencesExt

CONSTANTS
    GRD,           \* definitions (their metadata.name) of the group
    Name,          \* names of resources and kinds
    Absent,        \* not stored
    Requests,      \* [GRD -> SUBSET Names], the Spec.Names users ask for
    FileBackend,   \* UpdateStatus answers Conflict to an update it has stored
    Resyncs,       \* the informer resyncs
    MaxVersions,   \* [GRD -> Nat], bound: from this version on users leave it alone
    MaxFaults      \* bound on restarts of the server and failed calls

\* A names field holds a set of names: singletons, but for the short names.
ResourceField == {"plural", "singular", "shortNames"}
KindField == {"kind", "listKind"}
Field == ResourceField \cup KindField
Names == [Field -> SUBSET Name]
NoNames == [f \in Field |-> {}]

\* A name is taken among the resources, or among the kinds, of the group.
Space(f) == IF f \in ResourceField THEN ResourceField ELSE KindField

\* The NamesAccepted condition: True for "NoConflicts"; False with the field
\* that clashed as its reason and the clashing names as its message.
Accepted == [reason : Field \cup {"Unset", "NoConflicts"}, names : SUBSET Name]

\* The Established condition: absent, False for one of two reasons, or True.
Established == {"Unset", "NotAccepted", "Installing", "True"}

Def == [spec : Names, acc : Names, na : Accepted, est : Established]

ASSUME GRDNamingAssumption ==
    /\ IsFiniteSet(GRD)
    /\ Absent \notin Def
    /\ Requests \in [GRD -> SUBSET Names]
    /\ FileBackend \in BOOLEAN /\ Resyncs \in BOOLEAN
    /\ MaxVersions \in [GRD -> Nat] /\ MaxFaults \in Nat

VARIABLES
    hist,      \* per definition: its versions, Absent when it is not stored
    pos,       \* per definition: the version in the lister
    mut,       \* per definition: the version in the mutation cache, 0 if none
    nq, eq,    \* the work queues of the naming and establishing controllers
    npc,       \* per definition: where the naming worker is with it
    nbase,     \* per definition: the version the naming worker read
    nres,      \* per definition: what the naming worker is going to write
    epc,       \* per definition: where the establishing worker is with it
    ebase,     \* per definition: the version the establishing worker read
    faults     \* restarts and failed calls so far

namingVars == <<nq, npc, nbase, nres>>
establishingVars == <<eq, epc, ebase>>
vars == <<hist, pos, mut, namingVars, establishingVars, faults>>

TypeOK ==
    /\ hist \in [GRD -> Seq(Def \cup {Absent})]
    /\ pos \in [GRD -> Nat]
    /\ mut \in [GRD -> Nat]
    /\ nq \in Seq(GRD) /\ eq \in Seq(GRD)
    /\ npc \in [GRD -> {"idle", "compute", "update"}]
    /\ nbase \in [GRD -> Nat]
    /\ nres \in [GRD -> Def \cup {Absent}]
    /\ epc \in [GRD -> {"idle", "update"}]
    /\ ebase \in [GRD -> Nat]
    /\ faults \in Nat

Init ==
    /\ hist = [g \in GRD |-> <<Absent>>]
    /\ pos = [g \in GRD |-> 1]
    /\ mut = [g \in GRD |-> 0]
    /\ nq = <<>> /\ eq = <<>>
    /\ npc = [g \in GRD |-> "idle"]
    /\ nbase = [g \in GRD |-> 0]
    /\ nres = [g \in GRD |-> Absent]
    /\ epc = [g \in GRD |-> "idle"]
    /\ ebase = [g \in GRD |-> 0]
    /\ faults = 0

-----------------------------------------------------------------------------
\* What is stored, and what the lister returns.
Stored(g) == hist[g][Len(hist[g])]
Listed(g) == hist[g][pos[g]]

Store(g, d) == hist' = [hist EXCEPT ![g] = Append(@, d)]

\* A work queue is first in first out and holds a key once.
Enqueue(q, keys) == q \o SetToSeq(keys \ ToSet(q))

namesAccepted(d) == d.na.reason = "NoConflicts"

(***************************************************************************)
(* Users.  The strategies keep the status out of their hands, and validate *)
(* nothing: every name may be changed at any time.                         *)
(***************************************************************************)
UserMay(g) == Len(hist[g]) < MaxVersions[g]

CreateGRD(g) ==
    /\ UserMay(g) /\ Stored(g) = Absent
    /\ \E n \in Requests[g] :
          Store(g, [spec |-> n, acc |-> NoNames, est |-> "Unset",
                    na |-> [reason |-> "Unset", names |-> {}]])
    /\ UNCHANGED <<pos, mut, namingVars, establishingVars, faults>>

UpdateNames(g) ==
    /\ UserMay(g) /\ Stored(g) # Absent
    /\ \E n \in Requests[g] \ {Stored(g).spec} : Store(g, [Stored(g) EXCEPT !.spec = n])
    /\ UNCHANGED <<pos, mut, namingVars, establishingVars, faults>>

\* The definition is gone (its finalizer has run).
RemoveGRD(g) ==
    /\ UserMay(g) /\ Stored(g) # Absent
    /\ Store(g, Absent)
    /\ UNCHANGED <<pos, mut, namingVars, establishingVars, faults>>

-----------------------------------------------------------------------------
(***************************************************************************)
(* The informer.                                                           *)
(***************************************************************************)

\* Seeded fault: definitions whose condition is False are not queued.
ToEstablishIfUnset(d) == namesAccepted(d) /\ d.est = "Unset"

\* The request handler's update handler queues what is to be established.
ToEstablish(d) == namesAccepted(d) /\ d.est # "True"

\* The next watch event.  Additions, updates and deletions queue the definition
\* for naming; only updates (of a definition the lister had) for establishing.
Observe(g) ==
    /\ pos[g] < Len(hist[g])
    /\ pos' = [pos EXCEPT ![g] = @ + 1]
    /\ nq' = Enqueue(nq, {g})
    /\ LET new == hist[g][pos[g] + 1] IN
       eq' = IF Listed(g) # Absent /\ new # Absent /\ ToEstablish(new) THEN Enqueue(eq, {g}) ELSE eq
    /\ UNCHANGED <<hist, mut, npc, nbase, nres, epc, ebase, faults>>

\* Every five minutes an update event without a change.
Resync(g) ==
    /\ Resyncs /\ Listed(g) # Absent
    /\ nq' = Enqueue(nq, {g})
    /\ eq' = IF ToEstablish(Listed(g)) THEN Enqueue(eq, {g}) ELSE eq
    /\ UNCHANGED <<hist, pos, mut, npc, nbase, nres, epc, ebase, faults>>

-----------------------------------------------------------------------------
(***************************************************************************)
(* NamingConditionController.                                              *)
(***************************************************************************)

\* Seeded fault: no mutation cache.
KnownToLister(g) == Listed(g)

\* The newer of lister and mutation cache.
Known(g) == hist[g][IF mut[g] > pos[g] THEN mut[g] ELSE pos[g]]

\* getAcceptedNamesForGroup, for the names f competes with: those of all the
\* definitions in the lister, the definition being synced included.
Used(f) == UNION {Known(h).acc[x] : h \in {h \in GRD : Listed(h) # Absent}, x \in Space(f)}

\* equalToAcceptedOrFresh fails for these names.
Clash(d, f) == (d.spec[f] \ d.acc[f]) \cap Used(f)

\* The fields in the order in which they are tried: the last failure is reported.
Rank == [plural |-> 1, singular |-> 2, shortNames |-> 3, kind |-> 4, listKind |-> 5]

newNames(d) == [f \in Field |-> IF Clash(d, f) = {} THEN d.spec[f] ELSE d.acc[f]]

namesAcceptedCondition(d) ==
    LET failed == {f \in Field : Clash(d, f) # {}}
    IN  IF failed = {}
        THEN [reason |-> "NoConflicts", names |-> {}]
        ELSE LET last == CHOOSE f \in failed : \A x \in failed : Rank[x] <= Rank[f]
             IN  [reason |-> last, names |-> Clash(d, last)]

\* Seeded faults: Established follows the names; its status is Unknown at first.
EstablishedFromNames(d, na) == IF na.reason = "NoConflicts" THEN "Installing" ELSE "NotAccepted"
EstablishedUnknown(d, na) == IF d.est = "Unset" THEN "Unknown" ELSE d.est

\* Names accepted: Installing, unless established before.
establishedCondition(d, na) ==
    CASE d.est = "True" -> "True"
      [] d.est # "True" /\ na.reason = "NoConflicts" -> "Installing"
      [] d.est = "Unset" /\ na.reason # "NoConflicts" -> "NotAccepted"
      [] OTHER -> d.est

calculateNamesAndConditions(d) ==
    LET na == namesAcceptedCondition(d)
    IN  [spec |-> d.spec, acc |-> newNames(d), na |-> na, est |-> establishedCondition(d, na)]

\* Seeded fault: nobody is told that names may be free.
RequeueNone(g) == {}

requeueAllOtherGroupGRDs(g) == {h \in GRD \ {g} : Listed(h) # Absent}

NamingReturn(g) ==
    /\ npc' = [npc EXCEPT ![g] = "idle"]
    /\ nbase' = [nbase EXCEPT ![g] = 0]
    /\ nres' = [nres EXCEPT ![g] = Absent]

\* sync begins: the one worker takes a key and gets it from the lister.
NamingGet(g) ==
    /\ nq # <<>> /\ g = Head(nq) /\ \A h \in GRD : npc[h] = "idle"
    /\ \/ /\ Listed(g) = Absent
          /\ nq' = Enqueue(Tail(nq), requeueAllOtherGroupGRDs(g))
          /\ UNCHANGED <<npc, nbase>>
       \/ /\ Listed(g) # Absent /\ Listed(g).spec = Listed(g).acc
          /\ nq' = Tail(nq)
          /\ UNCHANGED <<npc, nbase>>
       \/ /\ Listed(g) # Absent /\ Listed(g).spec # Listed(g).acc
          /\ nq' = Tail(nq)
          /\ npc' = [npc EXCEPT ![g] = "compute"]
          /\ nbase' = [nbase EXCEPT ![g] = pos[g]]
    /\ UNCHANGED <<hist, pos, mut, nres, establishingVars, faults>>

\* calculateNamesAndConditions; nothing to do if names and condition are the same.
NamingCompute(g) ==
    /\ npc[g] = "compute"
    /\ LET d == hist[g][nbase[g]]
           new == calculateNamesAndConditions(d)
       IN \/ /\ new.acc = d.acc /\ new.na = d.na
             /\ NamingReturn(g)
          \/ /\ ~(new.acc = d.acc /\ new.na = d.na)
             /\ nres' = [nres EXCEPT ![g] = new]
             /\ npc' = [npc EXCEPT ![g] = "update"]
             /\ UNCHANGED nbase
    /\ UNCHANGED <<hist, pos, mut, nq, establishingVars, faults>>

\* UpdateStatus based on version b is accepted.
Current(g, b) == Stored(g) # Absent /\ Len(hist[g]) = b

\* UpdateStatus succeeds: into the mutation cache, and the others of the group
\* are queued, for a name may be free now.  The file backend answers Conflict to
\* the update it has stored, and sync leaves it at that.
NamingUpdate(g) ==
    /\ npc[g] = "update" /\ Current(g, nbase[g])
    /\ Store(g, nres[g])
    /\ \/ /\ ~FileBackend
          /\ mut' = [mut EXCEPT ![g] = Len(hist[g]) + 1]
          /\ nq' = Enqueue(nq, requeueAllOtherGroupGRDs(g))
       \/ /\ FileBackend
          /\ UNCHANGED <<mut, nq>>
    /\ NamingReturn(g)
    /\ UNCHANGED <<pos, establishingVars, faults>>

\* NotFound or Conflict: "deleted or changed in the meantime, we'll get called
\* again".
NamingRefused(g) ==
    /\ npc[g] = "update" /\ ~Current(g, nbase[g])
    /\ NamingReturn(g)
    /\ UNCHANGED <<hist, pos, mut, nq, establishingVars, faults>>

\* Another error, nothing stored: the key is queued again.
NamingError(g) ==
    /\ npc[g] = "update" /\ faults < MaxFaults
    /\ faults' = faults + 1
    /\ NamingReturn(g)
    /\ nq' = Enqueue(nq, {g})
    /\ UNCHANGED <<hist, pos, mut, establishingVars>>

-----------------------------------------------------------------------------
(***************************************************************************)
(* EstablishingController.                                                 *)
(***************************************************************************)
EstablishGet(g) ==
    /\ eq # <<>> /\ g = Head(eq) /\ \A h \in GRD : epc[h] = "idle"
    /\ eq' = Tail(eq)
    /\ \/ /\ Listed(g) # Absent /\ ToEstablish(Listed(g))
          /\ epc' = [epc EXCEPT ![g] = "update"]
          /\ ebase' = [ebase EXCEPT ![g] = pos[g]]
       \/ /\ ~(Listed(g) # Absent /\ ToEstablish(Listed(g)))
          /\ UNCHANGED <<epc, ebase>>
    /\ UNCHANGED <<hist, pos, mut, namingVars, faults>>

EstablishReturn(g) ==
    /\ epc' = [epc EXCEPT ![g] = "idle"]
    /\ ebase' = [ebase EXCEPT ![g] = 0]

EstablishUpdate(g) ==
    /\ epc[g] = "update" /\ Current(g, ebase[g])
    /\ Store(g, [hist[g][ebase[g]] EXCEPT !.est = "True"])
    /\ EstablishReturn(g)
    /\ UNCHANGED <<pos, mut, namingVars, eq, faults>>

EstablishRefused(g) ==
    /\ epc[g] = "update" /\ ~Current(g, ebase[g])
    /\ EstablishReturn(g)
    /\ UNCHANGED <<hist, pos, mut, namingVars, eq, faults>>

EstablishError(g) ==
    /\ epc[g] = "update" /\ faults < MaxFaults
    /\ faults' = faults + 1
    /\ EstablishReturn(g)
    /\ eq' = Enqueue(eq, {g})
    /\ UNCHANGED <<hist, pos, mut, namingVars>>

-----------------------------------------------------------------------------
\* The server process is started again: the informer lists what is stored (an
\* addition for each definition), caches and queues are empty.
Restart ==
    /\ faults < MaxFaults
    /\ faults' = faults + 1
    /\ pos' = [g \in GRD |-> Len(hist[g])]
    /\ mut' = [g \in GRD |-> 0]
    /\ nq' = Enqueue(<<>>, {g \in GRD : Stored(g) # Absent}) /\ eq' = <<>>
    /\ npc' = [g \in GRD |-> "idle"]
    /\ nbase' = [g \in GRD |-> 0]
    /\ nres' = [g \in GRD |-> Absent]
    /\ epc' = [g \in GRD |-> "idle"]
    /\ ebase' = [g \in GRD |-> 0]
    /\ UNCHANGED hist

Next ==
    \/ \E g \in GRD :
        \/ CreateGRD(g) \/ UpdateNames(g) \/ RemoveGRD(g)
        \/ Observe(g) \/ Resync(g)
        \/ NamingGet(g) \/ NamingCompute(g)
        \/ NamingUpdate(g) \/ NamingRefused(g) \/ NamingError(g)
        \/ EstablishGet(g) \/ EstablishUpdate(g) \/ EstablishRefused(g) \/ EstablishError(g)
    \/ Restart

Spec == Init /\ [][Next]_vars

\* The informer delivers, resyncs happen, and the workers run.
FairSpec ==
    /\ Spec
    /\ \A g \in GRD :
        /\ WF_vars(Observe(g)) /\ WF_vars(Resync(g))
        /\ WF_vars(NamingGet(g) \/ NamingCompute(g) \/ NamingUpdate(g) \/ NamingRefused(g))
        /\ WF_vars(EstablishGet(g) \/ EstablishUpdate(g) \/ EstablishRefused(g))

-----------------------------------------------------------------------------
(***************************************************************************)
(* Properties.                                                             *)
(***************************************************************************)

\* The names d holds in the space of f; none if it is not stored.
Held(d, f) == IF d = Absent THEN {} ELSE UNION {d.acc[x] : x \in Space(f)}

\* No two stored definitions have accepted the same name: the worker decides on
\* a lister that lags behind, and the mutation cache makes up for it.
NamesExclusive ==
    \A g, h \in GRD : g # h =>
        \A f \in Field : Held(Stored(g), f) \cap Held(Stored(h), f) = {}

\* types.go:128 "A resource stays established until deleted": none of the
\* status updates, which all write a copy of something they read earlier, takes
\* it back.
EstablishedStays ==
    [][\A g \in GRD : Stored(g) # Absent /\ Stored(g).est = "True"
          => Stored(g)' = Absent \/ Stored(g)'.est = "True"]_vars

\* The definition asks for names it has not got, and nobody holds any of them.
\* (Its own names count as taken, too: it cannot move one to another field.)
Obtainable(g) ==
    /\ Stored(g) # Absent /\ Stored(g).spec # Stored(g).acc
    /\ \A f \in Field : \A h \in GRD :
          (Stored(g).spec[f] \ Stored(g).acc[f]) \cap Held(Stored(h), f) = {}

\* Names that are free and asked for are granted in the end: a refused, lost or
\* failed sync, or a clash that has gone away, does not leave a definition alone.
FreeNamesGranted == \A g \in GRD : []<>~Obtainable(g)

\* types.go:127 "A resource is established when all names are accepted": it does
\* not stay unestablished while its names are accepted.
AcceptedIsEstablished ==
    \A g \in GRD : []<>~(/\ Stored(g) # Absent
              /\ namesAccepted(Stored(g)) /\ Stored(g).est # "True")
=============================================================================
