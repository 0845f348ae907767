--------------------------- MODULE APIRegistration ---------------------------
(***************************************************************************)
(* GRDRegistrationController asks for an APIService per version that some  *)
(* definition serves; AutoRegisterController keeps the APIServices of the  *)
(* aggregator as asked.  It looks at them through a lister that lags, has  *)
(* no event handlers on it, and shares them with users.                    *)
(***************************************************************************)
EXTENDS GRDLister

CONSTANTS
    Registered,    \* the versions whose registration is followed: they do not interact
    None,          \* no such APIService
    MaxServices,   \* bound on APIServices created
    MaxFaults      \* bound on edits by users and failed calls

\* label: how it is managed, "" if not; ours: the spec is the desired one;
\* foreign: made by a user who never asked for it to be managed.
Service == [uid : 0..MaxServices, label : {"", "onstart", "true"}, ours : BOOLEAN, foreign : BOOLEAN]

ASSUME RegistrationAssumption ==
    Registered \subseteq Version /\ None \notin Service
    /\ MaxServices \in Nat /\ MaxFaults \in Nat

VARIABLES
    rq, rstate,    \* GRDRegistrationController: queue of versions; "waiting", "running"
    rdo,           \* per version: what its sync is about to ask for
    desired,       \* apiServicesToSync
    sq, sstate,    \* AutoRegisterController: queue; "waiting", "running"
    atStart,       \* apiServicesAtStart
    hasSynced,     \* syncedSuccessfully
    op, opOn,      \* per name: the call its sync is about to make, and on what
    svc,           \* the APIServices
    slister,       \* the lister of APIServices
    uids, edits, errors   \* APIServices created, edits and failed calls so far

rVars == <<rq, rstate, rdo>>
sVars == <<sstate, atStart, hasSynced, op, opOn, slister>>
aggregatorVars == <<svc, uids, edits>>
registrationVars == <<rVars, desired, sq, sVars, aggregatorVars, errors>>

\* An APIService may be there from an earlier run, or put there by a user.
RegistrationInit ==
    /\ rq = {} /\ rstate = "waiting" /\ rdo = [v \in Registered |-> "idle"] /\ desired = {}
    /\ sq = {} /\ sstate = "waiting" /\ atStart = {} /\ hasSynced = {}
    /\ op = [v \in Registered |-> "idle"] /\ opOn = [v \in Registered |-> None]
    /\ slister = [v \in Registered |-> None]
    /\ svc \in [Registered -> {None} \cup [uid : {0}, label : {"onstart", "true"}, ours : {FALSE}, foreign : {FALSE}]]
    /\ uids = 0 /\ edits = 0 /\ errors = 0

-----------------------------------------------------------------------------
(***************************************************************************)
(* GRDRegistrationController.                                              *)
(***************************************************************************)
EnqueueVersions(vs) == rq' = rq \cup (vs \cap Registered)

\* Run, once the lister is filled: every version is synced once, then the workers
\* start.  An entry of the queue, where the additions have put it already, stands
\* for that sync.
RegistrationRun ==
    /\ rstate = "waiting" /\ synced
    /\ rstate' = "running" /\ EnqueueVersions(AllVersions(defs))
    /\ UNCHANGED <<rdo, desired, sq, sVars, aggregatorVars, errors>>

\* handleVersionUpdate: is there a definition that serves v?
handleVersionUpdate(v) ==
    /\ rstate = "running" /\ v \in rq /\ rdo[v] = "idle"
    /\ rq' = rq \ {v}
    /\ rdo' = [rdo EXCEPT ![v] = IF \E g \in GRD : HasServedGRDVersion(defs[g], v) THEN "add" ELSE "remove"]
    /\ UNCHANGED <<rstate, desired, sq, sVars, aggregatorVars, errors>>

AddAPIServiceToSync(v) ==
    /\ rdo[v] = "add" /\ rdo' = [rdo EXCEPT ![v] = "idle"]
    /\ desired' = desired \cup {v} /\ sq' = sq \cup {v}
    /\ UNCHANGED <<rq, rstate, sVars, aggregatorVars, errors>>

RemoveAPIServiceToSync(v) ==
    /\ rdo[v] = "remove" /\ rdo' = [rdo EXCEPT ![v] = "idle"]
    /\ desired' = desired \ {v} /\ sq' = sq \cup {v}
    /\ UNCHANGED <<rq, rstate, sVars, aggregatorVars, errors>>

-----------------------------------------------------------------------------
(***************************************************************************)
(* AutoRegisterController.                                                 *)
(***************************************************************************)
\* Run, once its lister is filled.  The selector's requirement is lost, so the
\* services of others are remembered too.
AutoRegisterRun ==
    /\ sstate = "waiting" /\ started
    /\ sstate' = "running" /\ slister' = svc
    /\ atStart' = {v \in Registered : svc[v] # None}
    /\ UNCHANGED <<rVars, desired, sq, hasSynced, op, opOn, aggregatorVars, errors>>

ObserveService(v) ==
    /\ sstate = "running" /\ slister[v] # svc[v]
    /\ slister' = [slister EXCEPT ![v] = svc[v]]
    /\ UNCHANGED <<rVars, desired, sq, sstate, atStart, hasSynced, op, opOn, aggregatorVars, errors>>

\* Seeded fault: what is to be synced on start and what always are not told apart.
DecideOnce(v) ==
    LET curr == slister[v] IN
    CASE v \in hasSynced -> "nothing"
      [] curr = None -> IF v \in desired THEN "create" ELSE "nothing"
      [] curr.label = "" -> "nothing"
      [] v \notin desired -> "delete"
      [] OTHER -> IF curr.ours THEN "nothing" ELSE "update"

\* The table of checkAPIService, columns A and C (nothing asks for "on start").
Decide(v) ==
    LET curr == slister[v] IN
    CASE curr = None -> IF v \in desired THEN "create" ELSE "nothing"
      [] curr # None /\ curr.label = "" -> "nothing"
      [] curr # None /\ curr.label = "onstart" /\ (v \notin atStart \/ v \in hasSynced) -> "nothing"
      [] OTHER -> IF v \notin desired THEN "delete" ELSE IF curr.ours THEN "nothing" ELSE "update"

checkAPIService(v) ==
    /\ sstate = "running" /\ v \in sq /\ op[v] = "idle"
    /\ sq' = sq \ {v}
    /\ IF Decide(v) = "nothing"
       THEN hasSynced' = hasSynced \cup {v} /\ UNCHANGED <<op, opOn>>
       ELSE /\ op' = [op EXCEPT ![v] = Decide(v)] /\ opOn' = [opOn EXCEPT ![v] = slister[v]]
            /\ UNCHANGED hasSynced
    /\ UNCHANGED <<rVars, desired, sstate, atStart, slister, aggregatorVars, errors>>

Returned(v) ==
    /\ op' = [op EXCEPT ![v] = "idle"] /\ opOn' = [opOn EXCEPT ![v] = None]
    /\ UNCHANGED <<rVars, desired, sstate, atStart, slister, edits>>

\* AlreadyExists is no error.
CreateService(v) ==
    /\ op[v] = "create" /\ Returned(v)
    /\ \/ /\ svc[v] = None /\ uids < MaxServices
          /\ uids' = uids + 1
          /\ svc' = [svc EXCEPT ![v] = [uid |-> uids + 1, label |-> "true", ours |-> TRUE, foreign |-> FALSE]]
       \/ svc[v] # None /\ UNCHANGED <<svc, uids>>
    /\ hasSynced' = hasSynced \cup {v} /\ UNCHANGED <<sq, errors>>

\* Seeded fault: the service is deleted whatever its UID.
DeleteAnyService(v) ==
    /\ op[v] = "delete" /\ Returned(v)
    /\ svc' = [svc EXCEPT ![v] = None]
    /\ hasSynced' = hasSynced \cup {v} /\ UNCHANGED <<sq, uids, errors>>

\* With the UID as a precondition; NotFound and Conflict are no errors.
DeleteService(v) ==
    /\ op[v] = "delete" /\ Returned(v)
    /\ svc' = [svc EXCEPT ![v] = IF svc[v] # None /\ svc[v].uid = opOn[v].uid THEN None ELSE svc[v]]
    /\ hasSynced' = hasSynced \cup {v} /\ UNCHANGED <<sq, uids, errors>>

\* Based on the version read; NotFound and Conflict are no errors.
UpdateService(v) ==
    /\ op[v] = "update" /\ Returned(v)
    /\ svc' = [svc EXCEPT ![v] = IF svc[v] # None /\ svc[v] = opOn[v] THEN [opOn[v] EXCEPT !.ours = TRUE] ELSE svc[v]]
    /\ hasSynced' = hasSynced \cup {v} /\ UNCHANGED <<sq, uids, errors>>

\* Any other error puts the name back.
CallFails(v) ==
    /\ op[v] # "idle" /\ edits + errors < MaxFaults /\ Returned(v)
    /\ errors' = errors + 1 /\ sq' = sq \cup {v}
    /\ UNCHANGED <<hasSynced, svc, uids>>

-----------------------------------------------------------------------------
Foreign(uid) == [uid |-> uid, label |-> "", ours |-> FALSE, foreign |-> TRUE]

\* Users of the aggregator: one makes a service of their own, also in the place of
\* another, changes a spec, takes a service out of management, or deletes it.
UserEdits(v) ==
    /\ edits + errors < MaxFaults /\ edits' = edits + 1
    /\ \/ /\ uids < MaxServices /\ uids' = uids + 1
          /\ svc' = [svc EXCEPT ![v] = Foreign(uids + 1)]
       \/ /\ svc[v] # None /\ UNCHANGED uids
          /\ \/ svc[v].ours /\ svc' = [svc EXCEPT ![v].ours = FALSE]
             \/ svc[v].label # "" /\ svc' = [svc EXCEPT ![v].label = ""]
             \/ svc' = [svc EXCEPT ![v] = None]
    /\ UNCHANGED <<rVars, desired, sq, sVars, errors>>

RegistrationStep ==
    \/ RegistrationRun \/ AutoRegisterRun
    \/ \E v \in Registered :
        \/ handleVersionUpdate(v) \/ AddAPIServiceToSync(v) \/ RemoveAPIServiceToSync(v)
        \/ checkAPIService(v) \/ CreateService(v) \/ DeleteService(v) \/ UpdateService(v)
        \/ ObserveService(v)
=============================================================================
