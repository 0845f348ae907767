------------------------- MODULE CertGeneratorProofs -------------------------
(***************************************************************************)
(* Proofs about CertGenerator, for any number of key pairs, deaths and     *)
(* meddled files.                                                          *)
(*                                                                         *)
(* What the service relies on when it loads a pair is a fact about the     *)
(* files alone, which every crash must leave true: of all pairs but the    *)
(* server's, a whole key next to a whole certificate is its key.  It holds *)
(* because the certificate is written first and only where there is no     *)
(* key.  A start then ensures one pair after the other against the CA that *)
(* is both in memory and on disk.                                          *)
(***************************************************************************)
EXTENDS CertGenerator, TLAPS

\* A pair as a start leaves it.
Good(p) ==
    /\ crt[p] \in Cert /\ key[p] \in 1 .. MaxIds
    /\ crt[p].ca = crt["ca"].id
    /\ p \in Leaf => ~crt[p].expired

\* True of the files at any time, in the middle of a write too.
FilesMatch ==
    /\ \A p \in Pair \ {"apiserver"} :
        crt[p] \in Cert /\ key[p] \in 1 .. MaxIds => key[p] = crt[p].id
    /\ crt["ca"] \in Cert => crt["ca"].ca = crt["ca"].id

\* The pairs before the current one are good, with the CA in memory on disk.
EnsuredSoFar ==
    status = "starting" =>
        /\ at # 1 => caCert = crt["ca"]
        /\ \A j \in 1 .. 4 : j < at => Good(Order[j])

\* The pair being written: nothing was there, but for the server's key.
BeingWritten ==
    status = "starting" /\ step # "check" =>
        /\ new \in Cert /\ ~new.expired /\ new.ca = caCert.id /\ (at = 1 => caCert = new)
        /\ step = "crt" => crt[p0] = None
        /\ step = "fillCrt" => crt[p0] = Torn
        /\ step \in {"key", "fillKey"} => crt[p0] = new
        /\ step \in {"crt", "fillCrt", "key"} /\ p0 # "apiserver" => key[p0] = None
        /\ step = "fillKey" => key[p0] = Torn

\* Files that a start has left and nobody has touched are good, so that the next start
\* writes nothing, and fails only for the date of the CA.
IntactGood ==
    intact =>
        /\ \A p \in Pair : Good(p)
        /\ status = "starting" => step = "check"
        /\ status = "failed" => crt["ca"].expired

IInv == CertTypeOK /\ FilesMatch /\ EnsuredSoFar /\ BeingWritten /\ IntactGood

-----------------------------------------------------------------------------
\* The order goes through every pair once, and begins with the CA.
LEMMA OrderFacts ==
    /\ Len(Order) = 4
    /\ \A j \in 1 .. 4 : Order[j] \in Pair /\ (Order[j] = "ca" <=> j = 1) /\ (Order[j] # "ca" <=> Order[j] \in Leaf)
    /\ \A j, k \in 1 .. 4 : Order[j] = Order[k] => j = k
    /\ \A p \in Pair : \E j \in 1 .. 4 : Order[j] = p
<1>1. /\ Len(Order) = 4
      /\ Order[1] = "ca" /\ Order[2] = "apiserver" /\ Order[3] = "authz" /\ Order[4] = "authn"
  BY DEF Order
<1>2. \A j \in 1 .. 4 : j = 1 \/ j = 2 \/ j = 3 \/ j = 4
  OBVIOUS
<1> QED
  BY <1>1, <1>2 DEF Pair, Leaf

\* None and Torn are neither certificates nor keys.
LEMMA NotAFile ==
    /\ None \notin Cert /\ Torn \notin Cert /\ None \notin 1 .. MaxIds /\ Torn \notin 1 .. MaxIds /\ None # Torn
  BY CertAssumption

\* The current pair.
LEMMA Current ==
    ASSUME CertTypeOK
    PROVE  /\ p0 \in Pair /\ (p0 = "ca" <=> at = 1) /\ (p0 # "ca" <=> p0 \in Leaf)
           /\ \A j \in 1 .. 4 : j < at => Order[j] # p0
  BY OrderFacts DEF CertTypeOK, p0

\* A good pair is found, and can be loaded.
LEMMA GoodIsFound ==
    ASSUME NEW p \in Pair, Good(p)
    PROVE  Found(p) = "both" /\ Loadable(p) /\ key[p] # None /\ Torn \notin {crt[p], key[p]}
  BY NotAFile DEF Good, Found, canReadCertAndKey, canReadFile, Loadable

\* Going on to the next pair after the current one is good.
LEMMA EnsuredInv ==
    ASSUME CertTypeOK, status = "starting", Ensured,
           crt' \in [Pair -> Cert \cup {None, Torn}], key' \in [Pair -> 1 .. MaxIds \cup {None, Torn}],
           FilesMatch', caCert' = crt'["ca"], caCert' \in Cert,
           \A j \in 1 .. 4 : j <= at => Good(Order[j])',
           intact => \A p \in Pair : Good(p)',
           UNCHANGED <<advice, counts>>
    PROVE  IInv'
<1>1. CertTypeOK'
  <2>1. at' \in 1 .. 4 /\ status' \in {"down", "starting", "up", "failed"}
    BY OrderFacts DEF CertTypeOK, Ensured
  <2>2. intact' \in BOOLEAN
    BY DEF CertTypeOK, Ensured
  <2>3. step' = "check" /\ new' = None
    BY DEF Ensured
  <2> QED
    BY <2>1, <2>2, <2>3 DEF CertTypeOK, counts
<1>2. EnsuredSoFar'
  <2>1. CASE at = 4
    BY <2>1, OrderFacts DEF Ensured, EnsuredSoFar
  <2>2. CASE at # 4
    <3>1. at' = at + 1 /\ at \in 1 .. 4
      BY <2>2, OrderFacts DEF Ensured, CertTypeOK
    <3>2. \A j \in 1 .. 4 : j < at' => j <= at
      BY <3>1
    <3> QED
      BY <3>2 DEF EnsuredSoFar
  <2> QED
    BY <2>1, <2>2
<1>3. BeingWritten'
  BY DEF BeingWritten, Ensured
<1>4. IntactGood'
  <2>1. CASE at = 4
    <3>1. \A j \in 1 .. 4 : Good(Order[j])'
      BY <2>1
    <3>2. \A p \in Pair : Good(p)'
      BY <3>1, OrderFacts
    <3> QED
      BY <2>1, <3>2, OrderFacts DEF IntactGood, Ensured
  <2>2. CASE at # 4
    BY <2>2, OrderFacts DEF IntactGood, Ensured
  <2> QED
    BY <2>1, <2>2
<1> QED
  BY <1>1, <1>2, <1>3, <1>4 DEF IInv

\* Init establishes the invariant.
LEMMA InitInv == Init => IInv
<1> SUFFICES ASSUME Init PROVE IInv
  OBVIOUS
<1>1. CertTypeOK
  <2>1. crt \in [Pair -> Cert \cup {None, Torn}] /\ key \in [Pair -> 1 .. MaxIds \cup {None, Torn}]
    BY DEF Init
  <2>2. ids \in 0 .. MaxIds /\ crashes \in 0 .. MaxCrashes /\ meddling \in 0 .. MaxMeddling
    BY CertAssumption DEF Init
  <2>3. at \in 1 .. 4
    BY DEF Init
  <2> QED
    BY <2>1, <2>2, <2>3 DEF Init, CertTypeOK
<1> QED
  BY <1>1, NotAFile DEF Init, IInv, FilesMatch, EnsuredSoFar, BeingWritten, IntactGood, Pair, Leaf

\* Errors.
LEMMA FailInv ==
    ASSUME IInv, NEW toClear \in SUBSET Pair, Fail(toClear), crashes' \in 0 .. MaxCrashes,
           intact => crt["ca"].expired
    PROVE  IInv'
<1>1. CertTypeOK'
  BY DEF IInv, CertTypeOK, Fail, files
<1> QED
  BY <1>1 DEF IInv, Fail, files, FilesMatch, EnsuredSoFar, BeingWritten, IntactGood, Good

\* What fails, half-way or before.
LEMMA ErrorInv ==
    ASSUME IInv, FindHalf \/ LoadFails \/ WriteFails
    PROVE  IInv'
<1>1. p0 \in Pair
  BY Current DEF IInv
<1>2. ~intact
  <2>1. CASE FindHalf \/ LoadFails
    BY <1>1, <2>1, GoodIsFound DEF FindHalf, LoadFails, IInv, IntactGood
  <2>2. CASE WriteFails
    BY <2>2 DEF WriteFails, IInv, IntactGood
  <2> QED
    BY <2>1, <2>2
<1>3. PICK toClear \in SUBSET Pair : Fail(toClear)
  BY <1>1 DEF FindHalf, LoadFails, WriteFails
<1>4. crashes' \in 0 .. MaxCrashes
  BY CertAssumption DEF FindHalf, LoadFails, WriteFails, IInv, CertTypeOK
<1> QED
  BY <1>2, <1>3, <1>4, FailInv

\* Loading.
LEMMA LoadInv ==
    ASSUME IInv, LoadCA \/ LoadLeaf
    PROVE  IInv'
<1> USE DEF IInv
<1>1. /\ status = "starting" /\ step = "check" /\ Loadable(p0)
      /\ p0 \in Pair /\ (p0 = "ca" <=> at = 1) /\ (p0 # "ca" <=> p0 \in Leaf) /\ at \in 1 .. 4
  BY Current DEF LoadCA, LoadLeaf, Ensuring, CertTypeOK
<1>2. CASE LoadLeaf /\ ~verifyCertChain(crt[p0])
  <2>1. Fail(Pair) /\ UNCHANGED crashes
    BY <1>2 DEF LoadLeaf
  <2>2. intact => crt["ca"].expired
    <3>1. intact => Good(p0)
      BY <1>1 DEF IntactGood
    <3>2. caCert = crt["ca"] /\ p0 \in Leaf
      BY <1>1, <1>2 DEF LoadLeaf, EnsuredSoFar
    <3> QED
      BY <1>2, <3>1, <3>2 DEF Good, verifyCertChain
  <2>3. crashes' \in 0 .. MaxCrashes
    BY <2>1 DEF CertTypeOK
  <2> QED
    BY <2>1, <2>2, <2>3, FailInv
<1>3. CASE LoadCA \/ (LoadLeaf /\ verifyCertChain(crt[p0]))
  <2>1. Ensured /\ UNCHANGED <<crt, key, advice, counts>>
    BY <1>3 DEF LoadCA, LoadLeaf, Fail, verifyCertChain, files, Ensured
  <2>2. caCert' = crt["ca"] /\ crt["ca"] \in Cert /\ Good(p0)
    <3>1. CASE LoadCA
      BY <1>1, <3>1 DEF LoadCA, Loadable, FilesMatch, Good, Leaf
    <3>2. CASE LoadLeaf /\ verifyCertChain(crt[p0])
      <4>1. at # 1 /\ caCert' = caCert /\ caCert = crt["ca"]
        BY <1>1, <3>2 DEF LoadLeaf, EnsuredSoFar, Fail
      <4>2. 1 < at /\ 1 \in 1 .. 4
        BY <1>1, <4>1
      <4>3. Good(Order[1]) /\ Order[1] = "ca"
        BY <1>1, <4>2, OrderFacts DEF EnsuredSoFar
      <4> QED
        BY <1>1, <3>2, <4>1, <4>3 DEF Loadable, Good, verifyCertChain
    <3> QED
      BY <1>3, <3>1, <3>2
  <2>3. \A p : Good(p)' <=> Good(p)
    BY <2>1 DEF Good
  <2>4. \A j \in 1 .. 4 : j <= at => Good(Order[j])
    BY <1>1, <2>2 DEF EnsuredSoFar, p0
  <2>5. FilesMatch'
    BY <2>1 DEF FilesMatch
  <2> QED
    BY <1>1, <2>1, <2>2, <2>3, <2>4, <2>5, EnsuredInv DEF IntactGood, CertTypeOK
<1> QED
  BY <1>2, <1>3

\* A new key pair, signed by the CA in memory.
LEMMA GenerateInv ==
    ASSUME IInv, Generate
    PROVE  IInv'
<1> USE DEF IInv
<1>1. /\ status = "starting" /\ step = "check" /\ Found(p0) = "neither" /\ step' = "crt"
      /\ new' = [id |-> ids + 1, ca |-> IF p0 = "ca" THEN ids + 1 ELSE caCert.id, expired |-> FALSE]
      /\ caCert' = IF p0 = "ca" THEN new' ELSE caCert
      /\ UNCHANGED <<crt, key, status, at, advice, intact, crashes, meddling>>
  BY DEF Generate, Ensuring, files
<1>2. p0 \in Pair /\ (p0 = "ca" <=> at = 1) /\ at \in 1 .. 4 /\ p0' = p0
  BY <1>1, Current DEF CertTypeOK, p0
<1>3. ids + 1 \in 1 .. MaxIds /\ ids' = ids + 1
  BY CertAssumption DEF Generate, CertTypeOK
<1>4. at # 1 => caCert = crt["ca"] /\ caCert \in Cert
  <2>1. at # 1 => 1 < at /\ 1 \in 1 .. 4
    BY <1>2
  <2> QED
    BY <1>1, <2>1, OrderFacts DEF EnsuredSoFar, Good
<1>5. new' \in Cert /\ ~new'.expired /\ new'.ca = caCert'.id /\ (at = 1 => caCert' = new')
  BY <1>1, <1>2, <1>3, <1>4 DEF Cert
<1>6. crt[p0] = None /\ (p0 # "apiserver" => key[p0] = None)
  BY <1>1 DEF Found, canReadCertAndKey, canReadFile
<1>7. CertTypeOK'
  BY <1>1, <1>2, <1>3, <1>4, <1>5 DEF CertTypeOK
<1>8. ~intact
  BY <1>1, <1>2, GoodIsFound DEF IntactGood
<1>9. FilesMatch' /\ IntactGood'
  BY <1>1, <1>8 DEF FilesMatch, IntactGood
<1>10. EnsuredSoFar'
  BY <1>1, <1>2 DEF EnsuredSoFar, Good
<1>11. BeingWritten'
  BY <1>1, <1>2, <1>5, <1>6 DEF BeingWritten
<1> QED
  BY <1>7, <1>9, <1>10, <1>11

\* persistCertKeyPairToDisk.
LEMMA PersistInv ==
    ASSUME IInv, Persist
    PROVE  IInv'
<1> USE DEF IInv
<1>1. /\ status = "starting" /\ step # "check" /\ ~intact /\ UNCHANGED <<caCert, advice, counts>>
      /\ new \in Cert /\ ~new.expired /\ new.ca = caCert.id /\ (at = 1 => caCert = new)
  BY DEF Persist, BeingWritten, IntactGood
<1>2. /\ p0 \in Pair /\ (p0 = "ca" <=> at = 1) /\ at \in 1 .. 4
      /\ \A j \in 1 .. 4 : j < at => Order[j] # p0
  BY Current DEF CertTypeOK
<1>3. at # 1 => "ca" # p0 /\ caCert = crt["ca"] /\ caCert \in Cert
  <2>1. at # 1 => 1 < at /\ 1 \in 1 .. 4
    BY <1>2
  <2> QED
    BY <1>1, <1>2, <2>1, OrderFacts DEF EnsuredSoFar, Good
<1>4. \A j \in 1 .. 4 : j < at => Order[j] \in Pair /\ Good(Order[j])
  BY <1>1, OrderFacts DEF EnsuredSoFar
<1>5. ASSUME NEW f \in {new, Torn}, crt' = [crt EXCEPT ![p0] = f], step' \in {"fillCrt", "key"},
             f = new <=> step' = "key", step \in {"crt", "fillCrt"},
             UNCHANGED <<key, status, at, new, intact>>
      PROVE  IInv'
  <2>1. p0' = p0 /\ f \in Cert \cup {Torn} /\ (f \in Cert <=> f = new)
    BY <1>1, <1>5, NotAFile DEF p0
  <2>2. crt' \in [Pair -> Cert \cup {None, Torn}] /\ crt'[p0] = f /\ \A p \in Pair \ {p0} : crt'[p] = crt[p]
    BY <1>2, <1>5, <2>1 DEF CertTypeOK
  <2>3. CertTypeOK'
    BY <1>1, <1>5, <2>2 DEF CertTypeOK, counts
  <2>4. p0 # "apiserver" => key[p0] = None
    BY <1>1, <1>5 DEF BeingWritten
  <2>5. FilesMatch'
    <3>1. ASSUME NEW p \in Pair \ {"apiserver"}, crt'[p] \in Cert, key[p] \in 1 .. MaxIds
          PROVE  key[p] = crt'[p].id
      <4>1. p # p0
        BY <2>4, <3>1, NotAFile
      <4> QED
        BY <2>2, <3>1, <4>1 DEF FilesMatch
    <3>2. ASSUME crt'["ca"] \in Cert PROVE crt'["ca"].ca = crt'["ca"].id
      <4>1. CASE p0 = "ca"
        BY <1>1, <1>2, <2>1, <2>2, <3>2, <4>1
      <4>2. CASE p0 # "ca"
        <5>1. "ca" \in Pair \ {p0}
          BY <4>2 DEF Pair
        <5> QED
          BY <2>2, <3>2, <5>1 DEF FilesMatch
      <4> QED
        BY <4>1, <4>2
    <3> QED
      BY <1>5, <3>1, <3>2 DEF FilesMatch
  <2>6. EnsuredSoFar'
    <3>1. at # 1 => crt'["ca"] = crt["ca"]
      BY <1>3, <2>2 DEF Pair
    <3>2. ASSUME NEW j \in 1 .. 4, j < at PROVE Good(Order[j])'
      <4>1. at # 1 /\ Order[j] # p0 /\ Order[j] \in Pair /\ Good(Order[j])
        BY <1>2, <1>4, <3>2
      <4> QED
        BY <1>5, <2>2, <3>1, <4>1 DEF Good
    <3> QED
      BY <1>1, <1>3, <1>5, <3>1, <3>2 DEF EnsuredSoFar
  <2>7. BeingWritten'
    BY <1>1, <1>5, <2>1, <2>2, <2>4 DEF BeingWritten
  <2>8. IntactGood'
    BY <1>1, <1>5 DEF IntactGood
  <2> QED
    BY <2>3, <2>5, <2>6, <2>7, <2>8
<1>6. CASE step = "key" /\ key' = [key EXCEPT ![p0] = Torn] /\ step' = "fillKey"
             /\ UNCHANGED <<crt, status, at, new, intact>>
  <2>1. p0' = p0 /\ crt[p0] = new
    BY <1>1, <1>6 DEF p0, BeingWritten
  <2>2. /\ key' \in [Pair -> 1 .. MaxIds \cup {None, Torn}] /\ key'[p0] = Torn
        /\ \A p \in Pair \ {p0} : key'[p] = key[p]
    BY <1>2, <1>6 DEF CertTypeOK
  <2>3. CertTypeOK'
    BY <1>1, <1>6, <2>2 DEF CertTypeOK, counts
  <2>4. FilesMatch'
    <3>1. ASSUME NEW p \in Pair \ {"apiserver"}, crt[p] \in Cert, key'[p] \in 1 .. MaxIds
          PROVE  key'[p] = crt[p].id
      <4>1. p # p0
        BY <2>2, <3>1, NotAFile
      <4> QED
        BY <2>2, <3>1, <4>1 DEF FilesMatch
    <3> QED
      BY <1>6, <3>1 DEF FilesMatch
  <2>5. EnsuredSoFar'
    <3>1. ASSUME NEW j \in 1 .. 4, j < at PROVE Good(Order[j])'
      BY <1>2, <1>4, <1>6, <2>2, <3>1 DEF Good
    <3> QED
      BY <1>1, <1>6, <3>1 DEF EnsuredSoFar
  <2>6. BeingWritten' /\ IntactGood'
    BY <1>1, <1>6, <2>1, <2>2 DEF BeingWritten, IntactGood
  <2> QED
    BY <2>3, <2>4, <2>5, <2>6
<1>7. CASE step = "fillKey" /\ key' = [key EXCEPT ![p0] = new.id] /\ Ensured /\ UNCHANGED crt
  <2>1. crt[p0] = new /\ new.id \in 1 .. MaxIds
    BY <1>1, <1>7 DEF BeingWritten, Cert
  <2>2. /\ key' \in [Pair -> 1 .. MaxIds \cup {None, Torn}] /\ key'[p0] = new.id
        /\ \A p \in Pair \ {p0} : key'[p] = key[p]
    BY <1>2, <1>7, <2>1 DEF CertTypeOK
  <2>3. FilesMatch'
    <3>1. ASSUME NEW p \in Pair \ {"apiserver"}, crt[p] \in Cert, key'[p] \in 1 .. MaxIds
          PROVE  key'[p] = crt[p].id
      BY <2>1, <2>2, <3>1 DEF FilesMatch
    <3> QED
      BY <1>7, <3>1 DEF FilesMatch
  <2>4. caCert = crt["ca"] /\ caCert \in Cert
    BY <1>1, <1>2, <1>3, <2>1
  <2>5. ASSUME NEW j \in 1 .. 4, j <= at PROVE Good(Order[j])'
    <3>1. CASE j = at
      BY <1>1, <1>2, <1>7, <2>1, <2>2, <2>4, <3>1 DEF Good, p0
    <3>2. CASE j # at
      <4>1. j < at
        BY <1>2, <2>5, <3>2
      <4> QED
        BY <1>2, <1>4, <1>7, <2>2, <4>1 DEF Good
    <3> QED
      BY <3>1, <3>2
  <2>6. caCert' = crt'["ca"] /\ caCert' \in Cert /\ crt' \in [Pair -> Cert \cup {None, Torn}]
    BY <1>1, <1>7, <2>4 DEF CertTypeOK
  <2> QED
    BY <1>1, <1>7, <2>2, <2>3, <2>5, <2>6, EnsuredInv
<1>8. CASE step = "crt" /\ crt' = [crt EXCEPT ![p0] = Torn] /\ step' = "fillCrt"
             /\ UNCHANGED <<key, status, at, new, intact>>
  <2>1. Torn # new
    BY <1>1, NotAFile
  <2> QED
    BY <1>5, <1>8, <2>1
<1>9. CASE step = "fillCrt" /\ crt' = [crt EXCEPT ![p0] = new] /\ step' = "key"
             /\ UNCHANGED <<key, status, at, new, intact>>
  BY <1>5, <1>9
<1> QED
  BY <1>6, <1>7, <1>8, <1>9 DEF Persist

\* Starts, deaths, and what the operator and time do to the files.
LEMMA EnvironmentInv ==
    ASSUME IInv, Start \/ Die \/ ClearAdvised \/ \E p \in Pair : Meddle(p)
    PROVE  IInv'
<1> USE DEF IInv
<1>1. CASE Start
  <2>1. CertTypeOK'
    BY <1>1 DEF Start, CertTypeOK, files, counts
  <2> QED
    BY <1>1, <2>1 DEF Start, FilesMatch, EnsuredSoFar, BeingWritten, IntactGood, Good, files
<1>2. CASE Die
  <2>1. CertTypeOK'
    BY <1>2, CertAssumption DEF Die, CertTypeOK, files
  <2> QED
    BY <1>2, <2>1 DEF Die, FilesMatch, EnsuredSoFar, BeingWritten, IntactGood, Good, files
<1>3. CASE ClearAdvised
  <2>1. /\ \A p \in Pair : crt'[p] \in {crt[p], None} /\ key'[p] \in {key[p], None}
        /\ crt' \in [Pair -> Cert \cup {None, Torn}] /\ key' \in [Pair -> 1 .. MaxIds \cup {None, Torn}]
    BY <1>3 DEF ClearAdvised, CertTypeOK
  <2>2. CertTypeOK'
    BY <1>3, <2>1 DEF ClearAdvised, CertTypeOK, counts
  <2>3. FilesMatch'
    BY <2>1, NotAFile DEF FilesMatch, Pair
  <2> QED
    BY <1>3, <2>2, <2>3 DEF ClearAdvised, EnsuredSoFar, BeingWritten, IntactGood
<1>4. ASSUME NEW p \in Pair, Meddle(p) PROVE IInv'
  <2>1. /\ crt' \in [Pair -> Cert \cup {None, Torn}]
        /\ \A q \in Pair : \/ crt'[q] \in {crt[q], None}
                           \/ crt[q] \in Cert /\ crt'[q] = [crt[q] EXCEPT !.expired = TRUE]
    <3>1. crt[p] \in Cert => [crt[p] EXCEPT !.expired = TRUE] \in Cert
      BY DEF Cert
    <3> QED
      BY <1>4, <3>1 DEF Meddle, CertTypeOK
  <2>2. /\ key' \in [Pair -> 1 .. MaxIds \cup {None, Torn}]
        /\ \A q \in Pair : key'[q] \in {key[q], None}
    BY <1>4 DEF Meddle, CertTypeOK
  <2>3. /\ UNCHANGED <<status, at, step, caCert, new, advice, ids, crashes>> /\ status # "starting"
        /\ intact' = FALSE /\ meddling' \in 0 .. MaxMeddling
    BY <1>4, CertAssumption DEF Meddle, CertTypeOK
  <2>4. CertTypeOK'
    BY <2>1, <2>2, <2>3 DEF CertTypeOK
  <2>5. ASSUME NEW q \in Pair, crt'[q] \in Cert
        PROVE  crt[q] \in Cert /\ crt'[q].id = crt[q].id /\ crt'[q].ca = crt[q].ca
    BY <2>1, <2>5, NotAFile DEF Cert
  <2>6. FilesMatch'
    BY <2>2, <2>5, NotAFile DEF FilesMatch, Pair
  <2> QED
    BY <2>3, <2>4, <2>6 DEF EnsuredSoFar, BeingWritten, IntactGood
<1> QED
  BY <1>1, <1>2, <1>3, <1>4

-----------------------------------------------------------------------------
\* Every step keeps the invariant.
LEMMA StepInv == IInv /\ [Next]_vars => IInv'
<1> SUFFICES ASSUME IInv, [Next]_vars PROVE IInv'
  OBVIOUS
<1>1. CASE UNCHANGED vars
  BY <1>1 DEF vars, files, counts, IInv, CertTypeOK, FilesMatch, EnsuredSoFar, BeingWritten, IntactGood, Good, p0
<1>2. CASE Next
  BY <1>2, ErrorInv, LoadInv, GenerateInv, PersistInv, EnvironmentInv DEF Next, ServiceStep
<1> QED
  BY <1>1, <1>2

\* Types.
THEOREM TypeCorrect == Spec => []CertTypeOK
<1>1. IInv => CertTypeOK
  BY DEF IInv
<1> QED
  BY <1>1, InitInv, StepInv, PTL DEF Spec

\* The pairs of a service that is up hold together, whatever earlier starts died in
\* the middle of (CertUtil, persistCertKeyPairToDisk).
THEOREM ConsistentWhenUp == Spec => []UpMeansConsistent
<1>1. IInv => UpMeansConsistent
  <2> SUFFICES ASSUME IInv, intact, NEW p \in Pair
               PROVE  /\ crt[p] \in Cert /\ crt[p].ca = crt["ca"].id
                      /\ p \in Leaf => ~crt[p].expired
                      /\ key[p] # None /\ (p # "apiserver" => key[p] = crt[p].id)
    BY DEF UpMeansConsistent
  <2>1. Good(p)
    BY DEF IInv, IntactGood
  <2> QED
    BY <2>1, NotAFile DEF Good, IInv, FilesMatch
<1> QED
  BY <1>1, InitInv, StepInv, PTL DEF Spec

\* A start on files that an earlier start has left does not fail, unless the CA has
\* expired (loadExistingCertPKI, verifyCertChain).
THEOREM RestartSucceeds == Spec => []RestartComesUp
<1>1. IInv => RestartComesUp
  BY DEF IInv, IntactGood, RestartComesUp
<1> QED
  BY <1>1, InitInv, StepInv, PTL DEF Spec
=============================================================================
