--------------------------- MODULE CertGenerator ---------------------------
(***************************************************************************)
(* The certificate service: a CA and three pairs of certificate and key    *)
(* that it signs, one file each.  Starting it loads and verifies what is   *)
(* there and makes what is not.  The process may die between any two       *)
(* writes, also within one; the operator removes files, on advice of the   *)
(* error messages and otherwise; certificates expire.                      *)
(***************************************************************************)
EXTENDS Naturals, Sequences

CONSTANTS
    None,          \* no file
    Torn,          \* a file without a whole PEM block
    MaxIds,        \* bound on key pairs generated
    MaxCrashes,    \* bound on crashes and failed writes
    MaxMeddling    \* bound on files removed unasked and certificates that expire

Leaf == {"apiserver", "authz", "authn"}
Pair == {"ca"} \cup Leaf

\* The order in which the service goes through them.
Order == <<"ca", "apiserver", "authz", "authn">>

\* A certificate: its key, the key of its issuer, whether its time is over.
Cert == [id : 1..MaxIds, ca : 1..MaxIds, expired : BOOLEAN]

ASSUME CertAssumption ==
    /\ MaxIds \in Nat /\ MaxCrashes \in Nat /\ MaxMeddling \in Nat
    /\ {None, Torn} \cap (Cert \cup 1..MaxIds) = {} /\ None # Torn

VARIABLES
    crt, key,      \* the files
    status,        \* "down", "starting", "up", "failed"
    at,            \* the pair being ensured, an index of Order
    step,          \* "check", or the write under way: "crt", "fillCrt", "key", "fillKey"
    caCert,        \* the CA in memory
    new,           \* the certificate being persisted
    advice,        \* the pairs that the error tells the operator to clear
    intact,        \* no file was touched since the service came up
    ids, crashes, meddling

files == <<crt, key>>
counts == <<ids, crashes, meddling>>
vars == <<files, status, at, step, caCert, new, advice, intact, counts>>

CertTypeOK ==
    /\ crt \in [Pair -> Cert \cup {None, Torn}] /\ key \in [Pair -> 1..MaxIds \cup {None, Torn}]
    /\ status \in {"down", "starting", "up", "failed"} /\ at \in 1..4
    /\ step \in {"check", "crt", "fillCrt", "key", "fillKey"}
    /\ caCert \in Cert \cup {None} /\ new \in Cert \cup {None} /\ advice \subseteq Pair
    /\ intact \in BOOLEAN
    /\ ids \in 0..MaxIds /\ crashes \in 0..MaxCrashes /\ meddling \in 0..MaxMeddling

Init ==
    /\ crt = [p \in Pair |-> None] /\ key = [p \in Pair |-> None]
    /\ status = "down" /\ at = 1 /\ step = "check" /\ caCert = None /\ new = None
    /\ advice = {} /\ intact = FALSE /\ ids = 0 /\ crashes = 0 /\ meddling = 0

p0 == Order[at]
Ensuring(s) == status = "starting" /\ step = s

-----------------------------------------------------------------------------
\* CreateService: a new CertUtil; up begins with the CA.
Start ==
    /\ status = "down" /\ status' = "starting" /\ at' = 1 /\ step' = "check" /\ caCert' = None
    /\ UNCHANGED <<files, new, advice, intact, counts>>

\* An error ends up, and with it the start.
Fail(toClear) ==
    /\ status' = "failed" /\ advice' = toClear
    /\ UNCHANGED <<files, at, step, caCert, new, intact, ids, meddling>>

\* Seeded fault: off by one at the last pair.
EnsuredOffByOne ==
    /\ IF at > Len(Order) THEN status' = "up" /\ intact' = TRUE /\ UNCHANGED at
                          ELSE at' = at + 1 /\ UNCHANGED <<status, intact>>
    /\ step' = "check" /\ new' = None

\* The pair is there: the next one, or the service is up.
Ensured ==
    /\ IF at = Len(Order) THEN status' = "up" /\ intact' = TRUE /\ UNCHANGED at
                          ELSE at' = at + 1 /\ UNCHANGED <<status, intact>>
    /\ step' = "check" /\ new' = None

canReadFile(f) == f # None

\* Seeded fault: a pair of which nothing is there is an error too.
canReadStrictly(c, k) == IF canReadFile(c) /\ canReadFile(k) THEN "both" ELSE "half"

canReadCertAndKey(c, k) ==
    CASE canReadFile(c) /\ canReadFile(k) -> "both"
      [] ~canReadFile(c) /\ ~canReadFile(k) -> "neither"
      [] OTHER -> "half"

\* Seeded fault: the key is looked for by the certificate's name for every pair.
FoundCert(p) == canReadCertAndKey(crt[p], crt[p])

\* For the server's pair the certificate is looked for twice and the key not at all.
Found(p) == IF p = "apiserver" THEN canReadCertAndKey(crt[p], crt[p]) ELSE canReadCertAndKey(crt[p], key[p])

verifyCertChain(c) == c.ca = caCert.id /\ ~c.expired /\ ~caCert.expired

\* Half of a pair: "Try clearing the certs and retry".
FindHalf ==
    /\ Ensuring("check") /\ Found(p0) = "half"
    /\ Fail({p0}) /\ UNCHANGED crashes

\* loadExistingCertPKI: a missing key is an error, a torn file a panic.  Neither says
\* what to do: that the operator clears the pair whose key the error names, and both
\* after a panic, is assumed.
LoadFails ==
    /\ Ensuring("check") /\ Found(p0) = "both"
    /\ \/ key[p0] = None /\ Fail({p0})
       \/ key[p0] # None /\ Torn \in {crt[p0], key[p0]} /\ Fail(Pair)
    /\ UNCHANGED crashes

Loadable(p) == crt[p] \in Cert /\ key[p] \in 1..MaxIds

LoadCA ==
    /\ Ensuring("check") /\ p0 = "ca" /\ Found(p0) = "both" /\ Loadable(p0)
    /\ caCert' = crt[p0] /\ Ensured /\ UNCHANGED <<files, advice, counts>>

\* That the key is the one of the certificate is not verified.
LoadLeaf ==
    /\ Ensuring("check") /\ p0 # "ca" /\ Found(p0) = "both" /\ Loadable(p0)
    /\ \/ verifyCertChain(crt[p0]) /\ Ensured /\ UNCHANGED <<files, caCert, advice, counts>>
       \/ ~verifyCertChain(crt[p0]) /\ Fail(Pair) /\ UNCHANGED crashes

\* createNewCACertPKI is signed by itself; makeClientCert and EnsureApiServerPKI
\* sign with the CA in memory.
Generate ==
    /\ Ensuring("check") /\ Found(p0) = "neither" /\ ids < MaxIds
    /\ ids' = ids + 1 /\ step' = "crt"
    /\ new' = [id |-> ids + 1, ca |-> IF p0 = "ca" THEN ids + 1 ELSE caCert.id, expired |-> FALSE]
    /\ caCert' = IF p0 = "ca" THEN new' ELSE caCert
    /\ UNCHANGED <<files, status, at, advice, intact, crashes, meddling>>

\* Seeded fault: the key is not written.
PersistCertOnly ==
    /\ status = "starting"
    /\ \/ step = "crt" /\ crt' = [crt EXCEPT ![p0] = Torn] /\ step' = "fillCrt" /\ UNCHANGED <<key, status, at, new, intact>>
       \/ step = "fillCrt" /\ crt' = [crt EXCEPT ![p0] = new] /\ Ensured /\ UNCHANGED key
    /\ UNCHANGED <<caCert, advice, counts>>

\* persistCertKeyPairToDisk: the certificate, then the key, each file first emptied.
Persist ==
    /\ status = "starting"
    /\ \/ step = "crt" /\ crt' = [crt EXCEPT ![p0] = Torn] /\ step' = "fillCrt" /\ UNCHANGED <<key, status, at, new, intact>>
       \/ step = "fillCrt" /\ crt' = [crt EXCEPT ![p0] = new] /\ step' = "key" /\ UNCHANGED <<key, status, at, new, intact>>
       \/ step = "key" /\ key' = [key EXCEPT ![p0] = Torn] /\ step' = "fillKey" /\ UNCHANGED <<crt, status, at, new, intact>>
       \/ step = "fillKey" /\ key' = [key EXCEPT ![p0] = new.id] /\ Ensured /\ UNCHANGED crt
    /\ UNCHANGED <<caCert, advice, counts>>

WriteFails ==
    /\ status = "starting" /\ step # "check" /\ crashes < MaxCrashes /\ crashes' = crashes + 1
    /\ Fail(Pair)

\* The process dies, or is stopped.
Die ==
    /\ status \in {"starting", "up"} /\ crashes < MaxCrashes /\ crashes' = crashes + 1
    /\ status' = "down" /\ caCert' = None /\ new' = None
    /\ UNCHANGED <<files, at, step, advice, intact, ids, meddling>>

-----------------------------------------------------------------------------
\* The operator does as told and starts again.
ClearAdvised ==
    /\ status = "failed" /\ status' = "down"
    /\ crt' = [p \in Pair |-> IF p \in advice THEN None ELSE crt[p]]
    /\ key' = [p \in Pair |-> IF p \in advice THEN None ELSE key[p]]
    /\ advice' = {} /\ caCert' = None /\ new' = None /\ intact' = FALSE
    /\ UNCHANGED <<at, step, counts>>

\* A file is removed, a pair is removed, or a certificate expires.
Meddle(p) ==
    /\ status # "starting" /\ meddling < MaxMeddling /\ meddling' = meddling + 1 /\ intact' = FALSE
    /\ \/ crt[p] # None /\ crt' = [crt EXCEPT ![p] = None] /\ key' \in {key, [key EXCEPT ![p] = None]}
       \/ key[p] # None /\ key' = [key EXCEPT ![p] = None] /\ UNCHANGED crt
       \/ crt[p] \in Cert /\ crt' = [crt EXCEPT ![p].expired = TRUE] /\ UNCHANGED key
    /\ UNCHANGED <<status, at, step, caCert, new, advice, ids, crashes>>

ServiceStep == Start \/ FindHalf \/ LoadFails \/ LoadCA \/ LoadLeaf \/ Generate \/ Persist

Next == ServiceStep \/ WriteFails \/ Die \/ ClearAdvised \/ \E p \in Pair : Meddle(p)

Spec == Init /\ [][Next]_vars

\* The service is started again whenever it is down and nothing blocks its code;
\* the operator acts on an error.
FairSpec == Spec /\ WF_vars(ServiceStep) /\ WF_vars(ClearAdvised)

-----------------------------------------------------------------------------
(***************************************************************************)
(* Properties.                                                             *)
(***************************************************************************)

\* A service that is up, on files that nobody touched since, has pairs that hold
\* together: certificates that are whole, not expired and signed by the CA on disk,
\* and keys that are theirs, whatever writes earlier starts died in.  The server's
\* own key is excepted: when only its certificate is missing a new one is made
\* instead of an error, and a death before the key is written goes unnoticed.
UpMeansConsistent ==
    status = "up" /\ intact =>
        \A p \in Pair :
            /\ crt[p] \in Cert /\ crt[p].ca = crt["ca"].id
            /\ p \in Leaf => ~crt[p].expired
            /\ key[p] # None /\ (p # "apiserver" => key[p] = crt[p].id)

\* A service that came up comes up again on the same files: nothing that only one
\* start knows of is needed by the next.  An expired CA is excepted: it is used to
\* sign new certificates without a look at its date, and they verify only next time.
RestartComesUp == intact /\ ~crt["ca"].expired => status # "failed"

\* As long as the operator clears what an error says, the service comes up: no
\* sequence of half pairs, torn files, lost CAs and expired certificates leaves
\* it in a state that the advice does not lead out of.
ComesUp == []<>(status = "up")
=============================================================================
