---------------------------- MODULE ObjectStore ----------------------------
(***************************************************************************)
(* What a client that is alone in writing its keys may rely on, whatever   *)
(* backend is behind storage.Interface: at every moment a key holds one    *)
(* complete object or none; a write replaces the object by one that is not *)
(* older; and an object is lost only if a write of that object fails, or   *)
(* by a crash.                                                             *)
(***************************************************************************)
EXTENDS Naturals

CONSTANTS
    Key,
    Obj,      \* records with a resource version in the field rv
    Absent,   \* nothing is stored at the key
    Lost,     \* something is stored at the key that cannot be read
    Crashes,     \* the process may die
    WriteErrors  \* a write may fail

VARIABLE store

Init == store = [k \in Key |-> Absent]

Put(k) ==
    /\ store'[k] \in Obj
    /\ store[k] \in Obj => store'[k].rv >= store[k].rv
    /\ store' = [store EXCEPT ![k] = store'[k]]

Remove(k) == store' = [store EXCEPT ![k] = Absent]

\* A write that fails half-way leaves neither the old object nor the new one.
FailedWrite(k) == WriteErrors /\ store' = [store EXCEPT ![k] = Lost]

Crash == Crashes /\ \E K \in SUBSET Key : store' = [k \in Key |-> IF k \in K THEN Lost ELSE store[k]]

Next == Crash \/ \E k \in Key : Put(k) \/ Remove(k) \/ FailedWrite(k)

Spec == Init /\ [][Next]_store
=============================================================================
