------------------------- MODULE FileStorageProofs -------------------------
(***************************************************************************)
(* Proofs about FileStorage, for any number of clients, keys and contents. *)
(*                                                                         *)
(* TornOnlyWhileWriting needs to know what a request holds between its     *)
(* file-system calls: an open file only between open and write, of a key   *)
(* that has a file, and something with content to write there (Holding).   *)
(*                                                                         *)
(* The other properties need requests that change one file not to overlap  *)
(* (Apart), which nothing in the storage sees to: with two at a time they  *)
(* fail.  Then what a request has learned of its file stays true until it  *)
(* is over (UnderWay), and a file is whole, being written or what a failed *)
(* write left (Whole).  A single writing client, the case of the run       *)
(* file_storage, is never at odds with itself (LoneWriter).                *)
(***************************************************************************)
EXTENDS FileStorage, TLAPS

USE DEF watch

\* What a request holds.
Holding ==
    \A c \in Client :
        /\ fd[c] => pc[c] = "fill" /\ file[req[c].key] # Absent
        /\ pc[c] \in {"open", "fill"} => buf[c].val \in Value
        /\ pc[c] = "stat" => req[c].op = "create"
        /\ pc[c] \in {"read", "exists"} => req[c].op \in UpdateOp

IInv == TypeOK /\ Holding /\ TornOnlyWhileWriting

-----------------------------------------------------------------------------
(* The operators. *)

\* Requests, and what they carry.
LEMMA RequestFacts ==
    ASSUME NEW r \in Request
    PROVE  /\ r.key \in Key /\ r.val \in Value \cup {NoValue} /\ r.rv \in Nat
           /\ r.op \in {"create"} \cup UpdateOp => r.val \in Value
           /\ FirstCall(r) \in PC \ {"idle", "open", "fill"}
           /\ FirstCall(r) = "stat" => r.op = "create"
           /\ FirstCall(r) \in {"read", "exists"} => r.op \in UpdateOp
<1>1. /\ r.key \in Key /\ r.val \in Value \cup {NoValue} /\ r.rv \in Nat
      /\ r.op \in {"create"} \cup UpdateOp => r.val \in Value
  BY FileStorageAssumption DEF Request, Clock, UpdateOp
<1>2. /\ FirstCall(r) \in PC \ {"idle", "open", "fill"}
      /\ FirstCall(r) = "stat" => r.op = "create"
      /\ FirstCall(r) \in {"read", "exists"} => r.op \in UpdateOp
  BY DEF FirstCall, FirstOfPass, PC
<1> QED
  BY <1>1, <1>2

\* A file that is there holds an object.
LEMMA FileFacts ==
    ASSUME TypeOK, NEW k \in Key
    PROVE  /\ file[k] # Absent => file[k].obj \in Obj /\ file[k].len \in Nat
           /\ GetOutcome(k) \in {"ok", "NotFound", "Decode"}
           /\ GetOutcome(k) = "ok" => file[k] # Absent /\ Decodable(file[k])
           /\ Decodable(file[k]) => file[k].obj \in Obj
<1>1. file[k] # Absent => file[k].obj \in Obj /\ file[k].len \in Nat
  BY DEF TypeOK, File
<1>2. GetOutcome(k) \in {"ok", "NotFound", "Decode"}
  BY DEF GetOutcome
<1>3. GetOutcome(k) = "ok" => file[k] # Absent /\ Decodable(file[k])
  <2>1. file[k] = Absent => ~Decodable(file[k])
    BY DEF Decodable
  <2>2. ~Decodable(file[k]) => GetOutcome(k) = "NotFound" \/ GetOutcome(k) = "Decode"
    BY DEF GetOutcome
  <2> QED
    BY <2>1, <2>2
<1> QED
  BY <1>1, <1>2, <1>3 DEF Decodable

\* A write leaves at least the bytes of the object it wrote.
LEMMA WrittenFacts ==
    ASSUME NEW f \in File, NEW o \in Obj, o.val \in Value
    PROVE  Written(f, o) \in File /\ Written(f, o).len # 0
  BY FileStorageAssumption DEF Written, File

\* The object of newFunc() is an object.
LEMMA NewObjType == NewObj \in Obj
  BY DEF NewObj, Obj

\* The outcome of tryUpdate.
LEMMA TryFacts ==
    ASSUME NEW r \in Request, NEW o \in Obj, r.op \in UpdateOp
    PROVE  /\ TryError(r, o) \in {"ok", "NotFound", "Conflict"}
           /\ TryUpdate(r, o) \in Obj /\ TryUpdate(r, o).val \in Value
<1>1. TryError(r, o) \in {"ok", "NotFound", "Conflict"}
  BY DEF TryError
<1>2. r.val \in Value
  BY RequestFacts
<1> QED
  BY <1>1, <1>2 DEF TryUpdate, Obj

-----------------------------------------------------------------------------
(* Steps. *)

\* A step that leaves the files alone, and every request between truncation and
\* write where it is, tears nothing.
LEMMA TornKept ==
    ASSUME IInv, UNCHANGED <<file, failed>>,
           \A d \in Client : pc[d] = "fill" => pc'[d] = "fill" /\ fd'[d] = fd[d] /\ req'[d] = req[d]
    PROVE  TornOnlyWhileWriting'
  BY DEF IInv, TornOnlyWhileWriting, Writing

\* Init establishes the invariant.
LEMMA InitInv == Init => IInv
<1> SUFFICES ASSUME Init PROVE IInv
  OBVIOUS
<1>1. TypeOK
  <2>1. 1 \in 1 .. MaxUpdateAttempts
    BY FileStorageAssumption
  <2> QED
    BY <2>1, NewObjType DEF Init, TypeOK, NoItems, PC, Result
<1> QED
  BY <1>1 DEF Init, IInv, Holding, TornOnlyWhileWriting

\* A request arrives.
LEMMA BeginInv ==
    ASSUME IInv, NEW c \in Client, Begin(c)
    PROVE  IInv'
<1>1. PICK r \in Request :
        /\ req' = [req EXCEPT ![c] = r]
        /\ pc' = [pc EXCEPT ![c] = FirstCall(r)]
        /\ view' = [view EXCEPT ![c] = IF r.op = "watch" /\ r.rv # 0 THEN @ ELSE NoItems]
  BY DEF Begin, Goto
<1>2. /\ FirstCall(r) \in PC \ {"idle", "open", "fill"}
      /\ FirstCall(r) = "stat" => r.op = "create"
      /\ FirstCall(r) \in {"read", "exists"} => r.op \in UpdateOp
  BY RequestFacts
<1> HIDE DEF FirstCall
<1>3. TypeOK'
  <2>1. 1 \in 1 .. MaxUpdateAttempts
    BY FileStorageAssumption
  <2>2. view' \in [Client -> [Key -> Obj \cup {Absent}]]
    BY <1>1 DEF IInv, TypeOK, NoItems
  <2> QED
    BY <1>1, <1>2, <2>1, <2>2, NewObjType DEF Begin, IInv, TypeOK, Result
<1>4. Holding'
  BY <1>1, <1>2 DEF Begin, IInv, TypeOK, Holding
<1>5. TornOnlyWhileWriting'
  BY <1>1, TornKept DEF Begin, IInv, TypeOK
<1> QED
  BY <1>3, <1>4, <1>5 DEF IInv

\* Create up to the write.
LEMMA CreateStatInv ==
    ASSUME IInv, NEW c \in Client, CreateStat(c)
    PROVE  IInv'
<1>1. req[c] \in Request /\ clock \in Nat /\ req[c].val \in Value
  BY RequestFacts DEF CreateStat, IInv, TypeOK, Holding
<1>2. TypeOK'
  <2>1. [val |-> req[c].val, rv |-> clock] \in Obj
    BY <1>1 DEF Obj
  <2>2. buf' \in [Client -> Obj]
    BY <2>1 DEF CreateStat, getResourceVersion, IInv, TypeOK
  <2>3. \/ pc' = [pc EXCEPT ![c] = "idle"] /\ res' = [res EXCEPT ![c] = "AlreadyExists"]
        \/ pc' = [pc EXCEPT ![c] = "open"] /\ res' = res
    BY DEF CreateStat, Return, Goto
  <2>4. {"idle", "open"} \subseteq PC /\ "AlreadyExists" \in Result
    BY DEF PC, Result
  <2>5. pc \in [Client -> PC] /\ res \in [Client -> Result]
    BY DEF IInv, TypeOK
  <2>6. pc' \in [Client -> PC]
    BY <2>3, <2>4, <2>5
  <2>7. res' \in [Client -> Result]
    BY <2>3, <2>4, <2>5
  <2> QED
    BY <2>2, <2>6, <2>7 DEF CreateStat, IInv, TypeOK
<1>3. Holding'
  BY <1>1 DEF CreateStat, Return, Goto, IInv, TypeOK, Holding
<1>4. TornOnlyWhileWriting'
  BY TornKept DEF CreateStat, Return, Goto, IInv, TypeOK
<1> QED
  BY <1>2, <1>3, <1>4 DEF IInv

\* Truncation: the file is torn, and c is going to write it.
LEMMA OpenInv ==
    ASSUME IInv, NEW c \in Client, Open(c)
    PROVE  IInv'
<1> DEFINE empty == [len |-> 0, obj |-> NewObj]
           k == req[c].key
<1>1. k \in Key
  BY RequestFacts DEF IInv, TypeOK
<1>2. empty \in File /\ empty # Absent
  BY NewObjType, FileStorageAssumption DEF File
<1>3. /\ file' = [file EXCEPT ![k] = empty] /\ fd' = [fd EXCEPT ![c] = TRUE]
      /\ pc' = [pc EXCEPT ![c] = "fill"] /\ failed' = failed \ {k} /\ pc[c] = "open"
      /\ UNCHANGED <<clock, req, buf, attempt, todo, view, watch, res, wrote>>
  BY DEF Open, Goto
<1> HIDE DEF empty, k
<1>4. TypeOK'
  BY <1>1, <1>2, <1>3 DEF IInv, TypeOK, PC
<1>5. Holding'
  <2>1. \A j \in Key : file[j] # Absent \/ j = k => file'[j] # Absent
    BY <1>1, <1>2, <1>3 DEF IInv, TypeOK
  <2>2. \A d \in Client : req[d].key \in Key
    BY RequestFacts DEF IInv, TypeOK
  <2>3. \A d \in Client : fd'[d] => file[req[d].key] # Absent \/ req[d].key = k
    BY <1>3 DEF IInv, TypeOK, Holding, k
  <2> QED
    BY <1>3, <2>1, <2>2, <2>3 DEF IInv, TypeOK, Holding
<1>6. TornOnlyWhileWriting'
  <2> SUFFICES ASSUME NEW j \in Key, file'[j] # Absent, file'[j].len = 0
               PROVE  j \in failed' \/ \E d \in Client : Writing(d, j)'
    BY DEF TornOnlyWhileWriting
  <2>1. CASE j = k
    BY <1>3, <2>1 DEF IInv, TypeOK, Writing, k
  <2>2. CASE j # k
    <3>1. file'[j] = file[j]
      BY <1>3, <2>2 DEF IInv, TypeOK
    <3>2. j \in failed \/ \E d \in Client : Writing(d, j)
      BY <3>1 DEF IInv, TornOnlyWhileWriting
    <3> QED
      BY <1>3, <2>2, <3>2 DEF IInv, TypeOK, Writing
  <2> QED
    BY <2>1, <2>2
<1> QED
  BY <1>4, <1>5, <1>6 DEF IInv

\* The write: whatever it leaves is not empty.
LEMMA FillInv ==
    ASSUME IInv, NEW c \in Client, Fill(c)
    PROVE  IInv'
<1> DEFINE k == req[c].key
           new == Written(file[k], buf[c])
<1>1. k \in Key /\ buf[c] \in Obj /\ buf[c].val \in Value
  BY RequestFacts DEF Fill, IInv, TypeOK, Holding
<1>2. fd[c] => new \in File /\ new.len # 0 /\ new # Absent
  BY <1>1, WrittenFacts, FileStorageAssumption DEF IInv, TypeOK, Holding
<1>3. /\ pc[c] = "fill"
      /\ file' = IF fd[c] THEN [file EXCEPT ![k] = new] ELSE file
      /\ wrote' = [wrote EXCEPT ![c] = @ \/ fd[c]]
      /\ fd' = [fd EXCEPT ![c] = FALSE]
      /\ pc' = [pc EXCEPT ![c] = IF req[c].op = "create" THEN "readback" ELSE "notify"]
      /\ UNCHANGED <<clock, req, buf, attempt, todo, view, watch, res, failed>>
  BY DEF Fill, Goto
<1> HIDE DEF new, k
<1>4. TypeOK'
  <2>1. file' \in [Key -> File \cup {Absent}]
    BY <1>1, <1>2, <1>3 DEF IInv, TypeOK
  <2>2. pc' \in [Client -> PC]
    BY <1>3 DEF IInv, TypeOK, PC
  <2>3. wrote' \in [Client -> BOOLEAN]
    BY <1>3 DEF IInv, TypeOK
  <2> QED
    BY <1>3, <2>1, <2>2, <2>3 DEF IInv, TypeOK
<1>5. Holding'
  <2>1. \A j \in Key : file[j] # Absent => file'[j] # Absent
    BY <1>1, <1>2, <1>3 DEF IInv, TypeOK
  <2>2. \A d \in Client : req[d].key \in Key
    BY RequestFacts DEF IInv, TypeOK
  <2> QED
    BY <1>3, <2>1, <2>2 DEF IInv, TypeOK, Holding
<1>6. TornOnlyWhileWriting'
  <2> SUFFICES ASSUME NEW j \in Key, file'[j] # Absent, file'[j].len = 0
               PROVE  j \in failed' \/ \E d \in Client : Writing(d, j)'
    BY DEF TornOnlyWhileWriting
  <2>1. ~fd[c] \/ j # k
    BY <1>1, <1>2, <1>3 DEF IInv, TypeOK
  <2>2. file'[j] = file[j]
    BY <1>3, <2>1 DEF IInv, TypeOK
  <2>3. j \in failed \/ \E d \in Client : Writing(d, j)
    BY <2>2 DEF IInv, TornOnlyWhileWriting
  <2>4. ASSUME NEW d \in Client, Writing(d, j) PROVE Writing(d, j)'
    <3>1. d # c
      BY <2>1, <2>4 DEF Writing, k
    <3> QED
      BY <1>3, <2>4, <3>1 DEF IInv, TypeOK, Writing
  <2> QED
    BY <1>3, <2>3, <2>4
<1> QED
  BY <1>4, <1>5, <1>6 DEF IInv

\* A step that leaves all this alone.
LEMMA HeldKept ==
    ASSUME IInv, UNCHANGED <<file, pc, req, buf, fd, failed>>
    PROVE  Holding' /\ TornOnlyWhileWriting'
<1>1. Holding'
  BY DEF IInv, Holding
<1>2. TornOnlyWhileWriting'
  BY TornKept
<1> QED
  BY <1>1, <1>2

\* What the remaining steps of a request have in common: they leave the disk, the
\* open files and the requests alone and do not go to "open" or "fill".
LEMMA ReadStep ==
    ASSUME IInv, NEW c \in Client, pc[c] # "fill",
           NEW p \in PC \ {"open", "fill", "stat"}, p \in {"read", "exists"} => req[c].op \in UpdateOp,
           pc' = [pc EXCEPT ![c] = p],
           UNCHANGED <<file, req, fd, failed>>,
           \A d \in Client : d # c => buf'[d] = buf[d]
    PROVE  /\ pc' \in [Client -> PC]
           /\ Holding' /\ TornOnlyWhileWriting'
<1>1. pc' \in [Client -> PC] /\ pc'[c] = p /\ \A d \in Client : d # c => pc'[d] = pc[d]
  BY DEF IInv, TypeOK
<1>2. Holding'
  BY <1>1 DEF IInv, Holding
<1>3. TornOnlyWhileWriting'
  BY <1>1, TornKept
<1> QED
  BY <1>1, <1>2, <1>3

\* A partial write leaves a file.
LEMMA PartlyWrittenFacts ==
    ASSUME NEW f \in File, NEW o \in Obj, o.val \in Value, NEW n \in 0 .. Size[o.val]
    PROVE  PartlyWritten(f, o, n) \in File /\ PartlyWritten(f, o, n) # Absent
<1>1. Written(f, o) \in File /\ NewObj \in Obj /\ n \in Nat /\ f.len \in Nat
  BY WrittenFacts, NewObjType, FileStorageAssumption DEF File
<1>2. [len |-> IF f.len > n THEN f.len ELSE n, obj |-> NewObj] \in File
  BY <1>1 DEF File
<1>3. PartlyWritten(f, o, n) \in File
  BY <1>1, <1>2 DEF PartlyWritten
<1> QED
  BY <1>3, FileStorageAssumption

\* A write that fails: what it leaves is recorded, and the file is closed.
LEMMA WriteFailsInv ==
    ASSUME IInv, NEW c \in Client, WriteFails(c)
    PROVE  IInv'
<1> DEFINE k == req[c].key
<1>1. k \in Key /\ buf[c] \in Obj /\ buf[c].val \in Value
  BY RequestFacts DEF WriteFails, IInv, TypeOK, Holding
<1>2. /\ pc' = [pc EXCEPT ![c] = "idle"] /\ res' = [res EXCEPT ![c] = "WriteError"]
      /\ UNCHANGED <<clock, req, buf, attempt, todo, view, watch, wrote>>
  BY DEF WriteFails, Return, Goto
<1> HIDE DEF k
<1>3. pc' \in [Client -> PC] /\ res' \in [Client -> Result] /\ pc'[c] = "idle"
      /\ \A d \in Client : d # c => pc'[d] = pc[d]
  BY <1>2 DEF IInv, TypeOK, PC, Result
<1>4. CASE pc[c] = "open" /\ UNCHANGED <<file, fd, failed>>
  <2>1. "idle" \in PC \ {"open", "fill", "stat"}
    BY DEF PC
  <2>2. Holding' /\ TornOnlyWhileWriting'
    BY <1>2, <1>4, <2>1, ReadStep
  <2>3. TypeOK'
    BY <1>2, <1>3, <1>4 DEF IInv, TypeOK
  <2> QED
    BY <2>2, <2>3 DEF IInv
<1>5. CASE pc[c] = "fill" /\ ~fd[c] /\ UNCHANGED <<file, failed>> /\ fd' = [fd EXCEPT ![c] = FALSE]
  <2>1. fd' = fd
    BY <1>5 DEF IInv, TypeOK
  <2>2. Holding'
    BY <1>2, <1>3, <1>5, <2>1 DEF IInv, Holding
  <2>3. TornOnlyWhileWriting'
    <3>1. \A d \in Client, j \in Key : Writing(d, j) => Writing(d, j)'
      BY <1>2, <1>3, <1>5, <2>1 DEF Writing
    <3> QED
      BY <1>5, <3>1 DEF IInv, TornOnlyWhileWriting
  <2>4. TypeOK'
    BY <1>2, <1>3, <1>5, <2>1 DEF IInv, TypeOK
  <2> QED
    BY <2>2, <2>3, <2>4 DEF IInv
<1>6. ASSUME pc[c] = "fill", fd[c], NEW n \in 0 .. Size[buf[c].val],
             file' = [file EXCEPT ![k] = PartlyWritten(file[k], buf[c], n)],
             failed' = failed \cup {k}, fd' = [fd EXCEPT ![c] = FALSE]
      PROVE  IInv'
  <2>1. PartlyWritten(file[k], buf[c], n) \in File /\ PartlyWritten(file[k], buf[c], n) # Absent
    BY <1>1, <1>6, PartlyWrittenFacts DEF IInv, TypeOK, Holding, k
  <2>2. /\ file' \in [Key -> File \cup {Absent}] /\ file'[k] # Absent
        /\ \A j \in Key : j # k => file'[j] = file[j]
    BY <1>1, <1>6, <2>1 DEF IInv, TypeOK
  <2>3. fd' \in [Client -> BOOLEAN] /\ ~fd'[c] /\ \A d \in Client : d # c => fd'[d] = fd[d]
    BY <1>6 DEF IInv, TypeOK
  <2>4. TypeOK'
    BY <1>1, <1>2, <1>3, <1>6, <2>2, <2>3 DEF IInv, TypeOK
  <2>5. \A d \in Client : req[d].key \in Key
    BY RequestFacts DEF IInv, TypeOK
  <2>6. Holding'
    <3>1. \A j \in Key : file[j] # Absent => file'[j] # Absent
      BY <2>2
    <3> QED
      BY <1>2, <1>3, <2>3, <2>5, <3>1 DEF IInv, Holding
  <2>7. TornOnlyWhileWriting'
    <3> SUFFICES ASSUME NEW j \in Key, file'[j] # Absent, file'[j].len = 0
                 PROVE  j \in failed' \/ \E d \in Client : Writing(d, j)'
      BY DEF TornOnlyWhileWriting
    <3>1. CASE j = k
      BY <1>6, <3>1
    <3>2. CASE j # k
      <4>1. j \in failed \/ \E d \in Client : Writing(d, j)
        BY <2>2, <3>2 DEF IInv, TornOnlyWhileWriting
      <4>2. ASSUME NEW d \in Client, Writing(d, j) PROVE Writing(d, j)'
        BY <1>2, <1>3, <2>3, <3>2, <4>2 DEF Writing, k
      <4> QED
        BY <1>6, <4>1, <4>2
    <3> QED
      BY <3>1, <3>2
  <2> QED
    BY <2>4, <2>6, <2>7 DEF IInv
<1>7. CASE pc[c] = "fill"
  <2>1. PICK n \in 0 .. Size[buf[c].val] :
          file' = IF fd[c] THEN [file EXCEPT ![k] = PartlyWritten(@, buf[c], n)] ELSE file
    BY <1>7 DEF WriteFails, k
  <2>2. failed' = (IF fd[c] THEN failed \cup {k} ELSE failed) /\ fd' = [fd EXCEPT ![c] = FALSE]
    BY <1>7 DEF WriteFails, k
  <2>3. CASE fd[c]
    <3>1. file' = [file EXCEPT ![k] = PartlyWritten(file[k], buf[c], n)]
      BY <2>1, <2>3
    <3> QED
      BY <1>6, <1>7, <2>2, <2>3, <3>1
  <2>4. CASE ~fd[c]
    BY <1>5, <1>7, <2>1, <2>2, <2>4
  <2> QED
    BY <2>3, <2>4
<1> QED
  BY <1>4, <1>7 DEF WriteFails

\* The Gets of Create and of clients.
LEMMA GetInv ==
    ASSUME IInv, NEW c \in Client, CreateReadBack(c) \/ Get(c)
    PROVE  IInv'
<1> DEFINE k == req[c].key
<1>1. /\ k \in Key
      /\ GetOutcome(k) \in Result
      /\ GetOutcome(k) = "ok" => file[k].obj \in Obj
  BY RequestFacts, FileFacts DEF IInv, TypeOK, Result
<1> HIDE DEF k
<1>2. \/ pc' = [pc EXCEPT ![c] = "notify"] /\ UNCHANGED res
      \/ pc' = [pc EXCEPT ![c] = "idle"] /\ res' = [res EXCEPT ![c] = GetOutcome(k)]
  BY DEF CreateReadBack, Get, Return, Goto, k
<1>3. \/ UNCHANGED buf
      \/ buf' = [buf EXCEPT ![c] = IF GetOutcome(k) = "ok" THEN file[k].obj ELSE @]
  BY DEF CreateReadBack, Get, k
<1>4. pc[c] # "fill" /\ UNCHANGED <<file, clock, req, fd, attempt, todo, view, watch, wrote, failed>>
  BY DEF CreateReadBack, Get
<1>5. buf' \in [Client -> Obj] /\ \A d \in Client : d # c => buf'[d] = buf[d]
  BY <1>1, <1>3 DEF IInv, TypeOK
<1>6. res' \in [Client -> Result]
  BY <1>1, <1>2 DEF IInv, TypeOK
<1>7. {"notify", "idle"} \subseteq PC \ {"open", "fill", "stat"}
  BY DEF PC
<1>8. pc' \in [Client -> PC] /\ Holding' /\ TornOnlyWhileWriting'
  BY <1>2, <1>4, <1>5, <1>7, ReadStep
<1>9. TypeOK'
  BY <1>4, <1>5, <1>6, <1>8 DEF IInv, TypeOK
<1> QED
  BY <1>8, <1>9 DEF IInv

\* Delete up to the removal.
LEMMA DeleteCheckInv ==
    ASSUME IInv, NEW c \in Client, DeleteCheck(c)
    PROVE  IInv'
<1> DEFINE k == req[c].key
<1>1. /\ k \in Key
      /\ GetOutcome(k) \in Result
      /\ GetOutcome(k) = "ok" => file[k].obj \in Obj
  BY RequestFacts, FileFacts DEF IInv, TypeOK, Result
<1> HIDE DEF k
<1>2. \/ pc' = [pc EXCEPT ![c] = "remove"] /\ UNCHANGED res
      \/ \E r \in {GetOutcome(k), "Conflict", "Rejected"} :
            pc' = [pc EXCEPT ![c] = "idle"] /\ res' = [res EXCEPT ![c] = r]
  BY DEF DeleteCheck, Return, Goto, k
<1>3. \/ UNCHANGED buf
      \/ GetOutcome(k) = "ok" /\ buf' = [buf EXCEPT ![c] = file[k].obj]
  BY DEF DeleteCheck, k
<1>4. pc[c] # "fill" /\ UNCHANGED <<file, clock, req, fd, attempt, todo, view, watch, wrote, failed>>
  BY DEF DeleteCheck
<1>5. buf' \in [Client -> Obj] /\ \A d \in Client : d # c => buf'[d] = buf[d]
  BY <1>1, <1>3 DEF IInv, TypeOK
<1>6. res' \in [Client -> Result]
  BY <1>1, <1>2 DEF IInv, TypeOK, Result
<1>7. {"remove", "idle"} \subseteq PC \ {"open", "fill", "stat"}
  BY DEF PC
<1>8. pc' \in [Client -> PC] /\ Holding' /\ TornOnlyWhileWriting'
  BY <1>2, <1>4, <1>5, <1>7, ReadStep
<1>9. TypeOK'
  BY <1>4, <1>5, <1>6, <1>8 DEF IInv, TypeOK
<1> QED
  BY <1>8, <1>9 DEF IInv

\* The removal: those who have the file open lose it, so nobody else's write can
\* be expected to fill it, and there is nothing to fill.
LEMMA DeleteRemoveInv ==
    ASSUME IInv, NEW c \in Client, DeleteRemove(c)
    PROVE  IInv'
<1> DEFINE k == req[c].key
<1>1. k \in Key /\ pc[c] = "remove" /\ UNCHANGED <<clock, req, buf, attempt, todo, view, watch, wrote>>
  BY RequestFacts DEF DeleteRemove, IInv, TypeOK
<1> HIDE DEF k
<1>2. CASE Return(c, "NotExist") /\ UNCHANGED <<file, fd, failed>>
  <2>1. "idle" \in PC \ {"open", "fill", "stat"}
    BY DEF PC
  <2>2. pc' \in [Client -> PC] /\ Holding' /\ TornOnlyWhileWriting'
    BY <1>1, <1>2, <2>1, ReadStep DEF Return, Goto
  <2>3. TypeOK'
    BY <1>1, <1>2, <2>2 DEF Return, IInv, TypeOK, Result
  <2> QED
    BY <2>2, <2>3 DEF IInv
<1>3. CASE /\ file' = [file EXCEPT ![k] = Absent]
           /\ fd' = [d \in Client |-> fd[d] /\ req[d].key # k]
           /\ failed' = failed \ {k} /\ Goto(c, "notify") /\ UNCHANGED res
  <2>1. pc' \in [Client -> PC] /\ \A d \in Client : d # c => pc'[d] = pc[d]
    BY <1>3 DEF Goto, IInv, TypeOK, PC
  <2>2. fd' \in [Client -> BOOLEAN]
    BY <1>3 DEF IInv, TypeOK
  <2>3. TypeOK'
    BY <1>1, <1>3, <2>1, <2>2 DEF IInv, TypeOK
  <2>4. \A j \in Key : j # k => file'[j] = file[j]
    BY <1>3 DEF IInv, TypeOK
  <2>5. pc'[c] = "notify"
    BY <1>3 DEF Goto, IInv, TypeOK
  <2>6. \A d \in Client : req[d].key \in Key
    BY RequestFacts DEF IInv, TypeOK
  <2>7. Holding'
    <3>1. \A d \in Client : fd'[d] => fd[d] /\ req[d].key # k
      BY <1>3
    <3>2. \A d \in Client : fd'[d] => pc'[d] = "fill" /\ file'[req[d].key] # Absent
      BY <1>1, <2>1, <2>4, <2>6, <3>1 DEF IInv, Holding
    <3> QED
      BY <1>1, <2>1, <2>5, <3>2 DEF IInv, Holding
  <2>8. TornOnlyWhileWriting'
    <3> SUFFICES ASSUME NEW j \in Key, file'[j] # Absent, file'[j].len = 0
                 PROVE  j \in failed' \/ \E d \in Client : Writing(d, j)'
      BY DEF TornOnlyWhileWriting
    <3>1. j # k
      BY <1>1, <1>3 DEF IInv, TypeOK
    <3>2. j \in failed \/ \E d \in Client : Writing(d, j)
      BY <2>4, <3>1 DEF IInv, TornOnlyWhileWriting
    <3>3. ASSUME NEW d \in Client, Writing(d, j) PROVE Writing(d, j)'
      BY <1>1, <1>3, <2>1, <3>1, <3>3 DEF Writing
    <3> QED
      BY <1>3, <3>1, <3>2, <3>3
  <2> QED
    BY <2>3, <2>7, <2>8 DEF IInv
<1> QED
  BY <1>2, <1>3 DEF DeleteRemove, k

\* The loop of GuaranteedUpdate goes on or ends.
LEMMA ContinueType ==
    ASSUME IInv, NEW c \in Client, NEW err \in Result, Continue(c, err)
    PROVE  /\ attempt' \in [Client -> 1 .. MaxUpdateAttempts] /\ res' \in [Client -> Result]
           /\ \E p \in {"read", "exists", "idle"} : pc' = [pc EXCEPT ![c] = p]
<1>1. attempt \in [Client -> 1 .. MaxUpdateAttempts] /\ res \in [Client -> Result] /\ MaxUpdateAttempts \in Nat
  BY FileStorageAssumption DEF IInv, TypeOK
<1>2. attempt[c] < MaxUpdateAttempts => attempt[c] + 1 \in 1 .. MaxUpdateAttempts
  BY <1>1
<1> QED
  BY <1>1, <1>2 DEF Continue, Return, Goto, FirstOfPass

\* One pass of GuaranteedUpdate up to the write.
LEMMA UpdateReadInv ==
    ASSUME IInv, NEW c \in Client, UpdateRead(c)
    PROVE  IInv'
<1> DEFINE r == req[c]
           f == file[r.key]
           o == IF Decodable(f) THEN f.obj ELSE NewObj
<1>1. /\ pc[c] = "read" /\ UNCHANGED <<file, clock, req, fd, todo, view, watch, wrote, failed>>
      /\ r \in Request /\ r.op \in UpdateOp /\ r.key \in Key /\ clock \in Nat
  BY RequestFacts DEF UpdateRead, IInv, TypeOK, Holding
<1>2. o \in Obj
  BY <1>1, FileFacts, NewObjType DEF IInv
<1> HIDE DEF o
<1>3. TryError(r, o) \in Result /\ TryUpdate(r, o) \in Obj /\ TryUpdate(r, o).val \in Value
  BY <1>1, <1>2, TryFacts DEF Result
<1>4. {"read", "exists", "idle"} \subseteq PC \ {"open", "fill", "stat"} /\ "ok" \in Result
  BY DEF PC, Result
<1>5. CASE Continue(c, TryError(r, o)) /\ UNCHANGED buf
  <2>1. /\ attempt' \in [Client -> 1 .. MaxUpdateAttempts] /\ res' \in [Client -> Result]
        /\ \E p \in {"read", "exists", "idle"} : pc' = [pc EXCEPT ![c] = p]
    BY <1>3, <1>5, ContinueType
  <2>2. pc' \in [Client -> PC] /\ Holding' /\ TornOnlyWhileWriting'
    BY <1>1, <1>4, <1>5, <2>1, ReadStep
  <2>3. TypeOK'
    BY <1>1, <1>5, <2>1, <2>2 DEF IInv, TypeOK
  <2> QED
    BY <2>2, <2>3 DEF IInv
<1>6. CASE buf' = [buf EXCEPT ![c] = TryUpdate(r, o)] /\ Return(c, "ok") /\ UNCHANGED attempt
  <2>1. buf' \in [Client -> Obj] /\ \A d \in Client : d # c => buf'[d] = buf[d]
    BY <1>3, <1>6 DEF IInv, TypeOK
  <2>2. pc' \in [Client -> PC] /\ Holding' /\ TornOnlyWhileWriting'
    BY <1>1, <1>4, <1>6, <2>1, ReadStep DEF Return, Goto
  <2>3. TypeOK'
    BY <1>1, <1>4, <1>6, <2>1, <2>2 DEF Return, IInv, TypeOK
  <2> QED
    BY <2>2, <2>3 DEF IInv
<1>7. CASE /\ buf' = [buf EXCEPT ![c] = [TryUpdate(r, o) EXCEPT !.rv = getResourceVersion]]
           /\ Goto(c, "open") /\ UNCHANGED <<attempt, res>>
  <2>1. /\ [TryUpdate(r, o) EXCEPT !.rv = clock] \in Obj
        /\ [TryUpdate(r, o) EXCEPT !.rv = clock].val \in Value
    BY <1>1, <1>3 DEF Obj
  <2>2. /\ buf' \in [Client -> Obj] /\ buf'[c].val \in Value
        /\ \A d \in Client : d # c => buf'[d] = buf[d]
    BY <1>7, <2>1 DEF getResourceVersion, IInv, TypeOK
  <2>3. /\ pc' \in [Client -> PC] /\ pc'[c] = "open"
        /\ \A d \in Client : d # c => pc'[d] = pc[d]
    BY <1>7 DEF Goto, IInv, TypeOK, PC
  <2>4. TypeOK'
    BY <1>1, <1>7, <2>2, <2>3 DEF IInv, TypeOK
  <2>5. Holding'
    BY <1>1, <2>2, <2>3 DEF IInv, Holding
  <2>6. TornOnlyWhileWriting'
    BY <1>1, <2>3, TornKept
  <2> QED
    BY <2>4, <2>5, <2>6 DEF IInv
<1> QED
  BY <1>5, <1>6, <1>7 DEF UpdateRead, o

\* The question whether the file exists.
LEMMA UpdateExistsInv ==
    ASSUME IInv, NEW c \in Client, UpdateExists(c)
    PROVE  IInv'
<1>1. /\ pc[c] = "exists" /\ req[c].op \in UpdateOp
      /\ UNCHANGED <<file, clock, req, buf, fd, attempt, todo, view, watch, wrote, failed>>
  BY DEF UpdateExists, IInv, Holding
<1>2. \E p \in {"read", "idle"} : pc' = [pc EXCEPT ![c] = p]
  BY DEF UpdateExists, Return, Goto
<1>3. {"read", "idle"} \subseteq PC \ {"open", "fill", "stat"}
  BY DEF PC
<1>4. pc' \in [Client -> PC] /\ Holding' /\ TornOnlyWhileWriting'
  BY <1>1, <1>2, <1>3, ReadStep
<1>5. res' \in [Client -> Result]
  BY DEF UpdateExists, Return, IInv, TypeOK, Result
<1>6. TypeOK'
  BY <1>1, <1>4, <1>5 DEF IInv, TypeOK
<1> QED
  BY <1>4, <1>6 DEF IInv

\* Notification of the watchers: the lock, the events and the end.
LEMMA NotifyInv ==
    ASSUME IInv, NEW c \in Client, Notify(c)
    PROVE  IInv'
<1>1. pc[c] = "telling" /\ UNCHANGED <<file, clock, req, fd, todo, view, watch, wrote, failed>>
  BY DEF Notify
<1>2. {"read", "exists", "idle"} \subseteq PC \ {"open", "fill", "stat"} /\ "ok" \in Result
  BY DEF PC, Result
<1>3. CASE req[c].op \in UpdateOp /\ Continue(c, "ok") /\ buf' = [buf EXCEPT ![c] = NewObj]
  <2>1. /\ attempt' \in [Client -> 1 .. MaxUpdateAttempts] /\ res' \in [Client -> Result]
        /\ \E p \in {"read", "exists", "idle"} : pc' = [pc EXCEPT ![c] = p]
    BY <1>2, <1>3, ContinueType
  <2>2. buf' \in [Client -> Obj] /\ \A d \in Client : d # c => buf'[d] = buf[d]
    BY <1>3, NewObjType DEF IInv, TypeOK
  <2>3. pc' \in [Client -> PC] /\ Holding' /\ TornOnlyWhileWriting'
    BY <1>1, <1>2, <1>3, <2>1, <2>2, ReadStep
  <2>4. TypeOK'
    BY <1>1, <2>1, <2>2, <2>3 DEF IInv, TypeOK
  <2> QED
    BY <2>3, <2>4 DEF IInv
<1>4. CASE Return(c, "ok") /\ UNCHANGED <<attempt, buf>>
  <2>1. pc' \in [Client -> PC] /\ Holding' /\ TornOnlyWhileWriting'
    BY <1>1, <1>2, <1>4, ReadStep DEF Return, Goto
  <2>2. TypeOK'
    BY <1>1, <1>2, <1>4, <2>1 DEF Return, IInv, TypeOK
  <2> QED
    BY <2>1, <2>2 DEF IInv
<1> QED
  BY <1>3, <1>4 DEF Notify

\* The same for the steps before it.
LEMMA TellInv ==
    ASSUME IInv, NEW c \in Client, NotifyLock(c) \/ \E w \in Client : Deliver(c, w)
    PROVE  IInv'
<1>1. CASE NotifyLock(c)
  <2>1. "telling" \in PC \ {"open", "fill", "stat"}
    BY DEF PC
  <2>2. pc' \in [Client -> PC] /\ Holding' /\ TornOnlyWhileWriting'
    BY <1>1, <2>1, ReadStep DEF NotifyLock, Goto
  <2>3. TypeOK'
    BY <1>1, <2>2 DEF NotifyLock, IInv, TypeOK
  <2> QED
    BY <2>2, <2>3 DEF IInv
<1>2. ASSUME NEW w \in Client, Deliver(c, w) PROVE IInv'
  <2>1. req[c].key \in Key /\ buf[c] \in Obj
    BY RequestFacts DEF IInv, TypeOK
  <2>2. view' \in [Client -> [Key -> Obj \cup {Absent}]]
    BY <1>2, <2>1 DEF Deliver, Sees, IInv, TypeOK
  <2>3. Holding' /\ TornOnlyWhileWriting'
    BY <1>2, HeldKept DEF Deliver
  <2>4. TypeOK'
    BY <1>2, <2>2 DEF Deliver, IInv, TypeOK
  <2> QED
    BY <2>3, <2>4 DEF IInv
<1> QED
  BY <1>1, <1>2

\* Lists and watches.
LEMMA ListInv ==
    ASSUME IInv, NEW c \in Client,
           \/ ListReadDir(c) \/ ListReadFile(c) \/ WatchStart(c) \/ WatchStop(c)
           \/ WatchReceive(c) \/ WatchLeave(c)
    PROVE  IInv'
<1>1. /\ pc[c] \in {"scan", "scanning", "register", "watching", "stopping"}
      /\ UNCHANGED <<file, clock, req, buf, fd, attempt, tell, wrote, failed>>
  BY DEF ListReadDir, ListReadFile, WatchStart, WatchStop, WatchReceive, WatchLeave
<1>2. todo' \in [Client -> SUBSET Key]
  <2>1. \/ UNCHANGED todo
        \/ \E T \in SUBSET Key : todo' = [todo EXCEPT ![c] = T]
    <3>1. CASE ListReadDir(c)
      BY <3>1 DEF ListReadDir
    <3>2. CASE ListReadFile(c)
      BY <3>2 DEF ListReadFile, IInv, TypeOK
    <3> QED
      BY <3>1, <3>2 DEF WatchStart, WatchStop, WatchReceive, WatchLeave
  <2> QED
    BY <2>1 DEF IInv, TypeOK
<1>3. view' \in [Client -> [Key -> Obj \cup {Absent}]]
  <2>1. view \in [Client -> [Key -> Obj \cup {Absent}]] /\ NoItems \in [Key -> Obj \cup {Absent}]
    BY DEF IInv, TypeOK, NoItems
  <2>2. \A k \in todo[c] : k \in Key /\ (Decodable(file[k]) => file[k].obj \in Obj)
    BY FileFacts DEF IInv, TypeOK
  <2>3. \/ UNCHANGED view
        \/ \E k \in todo[c] :
              /\ Decodable(file[k])
              /\ view' = [view EXCEPT ![c][k] =
                    IF validateMinimumResourceVersion(req[c].rv, file[k].obj) THEN file[k].obj ELSE @]
        \/ view' = [view EXCEPT ![c] = IF KindsGroup THEN NoItems ELSE @]
    BY DEF ListReadDir, ListReadFile, WatchStart, WatchStop, WatchReceive, WatchLeave
  <2> QED
    BY <2>1, <2>2, <2>3
<1>4. \E p \in {"scanning", "idle", "register", "watching", "stopping"} : pc' = [pc EXCEPT ![c] = p]
  BY DEF ListReadDir, ListReadFile, WatchStart, WatchStop, WatchReceive, WatchLeave, Return, Goto, IInv, TypeOK
<1>5. res' \in [Client -> Result]
  BY DEF ListReadDir, ListReadFile, WatchStart, WatchStop, WatchReceive, WatchLeave, Return, IInv, TypeOK, Result
<1>6. busy' \in [Client -> BOOLEAN]
  BY DEF ListReadDir, ListReadFile, WatchStart, WatchStop, WatchReceive, WatchLeave, IInv, TypeOK
<1>7. {"scanning", "idle", "register", "watching", "stopping"} \subseteq PC \ {"open", "fill", "stat"}
  BY DEF PC
<1>8. pc' \in [Client -> PC] /\ Holding' /\ TornOnlyWhileWriting'
  BY <1>1, <1>4, <1>7, ReadStep
<1>9. TypeOK'
  BY <1>1, <1>2, <1>3, <1>5, <1>6, <1>8 DEF IInv, TypeOK
<1> QED
  BY <1>8, <1>9 DEF IInv

\* A crash: what it tears is recorded.
LEMMA CrashInv ==
    ASSUME IInv, Crash
    PROVE  IInv'
<1>1. 1 \in 1 .. MaxUpdateAttempts
  BY FileStorageAssumption
<1>2. TypeOK'
  BY <1>1, NewObjType DEF Crash, IInv, TypeOK, NoItems, PC, Result
<1>3. Holding'
  BY DEF Crash, Holding
<1>4. TornOnlyWhileWriting'
  BY DEF Crash, TornOnlyWhileWriting
<1> QED
  BY <1>2, <1>3, <1>4 DEF IInv

\* Every step keeps the invariant.
LEMMA StepInv == IInv /\ [Next]_vars => IInv'
<1> SUFFICES ASSUME IInv, [Next]_vars PROVE IInv'
  OBVIOUS
<1>1. CASE UNCHANGED vars
  BY <1>1 DEF vars, IInv, TypeOK, Holding, TornOnlyWhileWriting, Writing
<1>2. CASE Tick
  BY <1>2 DEF Tick, local, IInv, TypeOK, Holding, TornOnlyWhileWriting, Writing
<1>3. ASSUME NEW c \in Client, Step(c) PROVE IInv'
  BY <1>3, CreateStatInv, OpenInv, FillInv, WriteFailsInv, GetInv, DeleteCheckInv, DeleteRemoveInv,
     UpdateExistsInv, UpdateReadInv, TellInv, NotifyInv, ListInv DEF Step
<1> QED
  BY <1>1, <1>2, <1>3, BeginInv, ListInv, CrashInv DEF Next

\* Type correctness of the file backend.
THEOREM TypeCorrect == Spec => []TypeOK
<1>1. IInv => TypeOK
  BY DEF IInv
<1> QED
  BY <1>1, InitInv, StepInv, PTL DEF Spec

\* However many requests interleave, an empty file is one that a writer has just
\* truncated, or one whose last write failed or was cut off by a crash.
THEOREM TornFilesAreTransient == Spec => []TornOnlyWhileWriting
<1>1. IInv => TornOnlyWhileWriting
  BY DEF IInv
<1> QED
  BY <1>1, InitInv, StepInv, PTL DEF Spec

-----------------------------------------------------------------------------
(***************************************************************************)
(* Requests are what their clients may ask for.                            *)
(***************************************************************************)
\* A step of c: of its request, or of the client behind it.
Move(c) == Begin(c) \/ Step(c) \/ WatchReceive(c) \/ WatchLeave(c)

\* The requests that may change a file.  An in-place update never does.
WriteOp == {"create", "delete", "put", "patch", "apply"}

AskedOf(c) ==
    /\ pc[c] # "idle" => req[c].op \in Allowed[c]
    /\ pc[c] \in {"stat", "readback"} => req[c].op = "create"
    /\ pc[c] \in {"check", "remove"} => req[c].op = "delete"
    /\ pc[c] \in {"exists", "read"} => req[c].op \in UpdateOp
    /\ pc[c] \in {"open", "fill"} => req[c].op \in WriteOp \ {"delete"}
    /\ pc[c] \in {"notify", "telling"} => req[c].op \in WriteOp

Asked == \A c \in Client : AskedOf(c)

\* A step of c is one of c alone.
LEMMA OwnStep ==
    ASSUME IInv, NEW c \in Client, Move(c)
    PROVE  \A d \in Client \ {c} : /\ pc'[d] = pc[d] /\ req'[d] = req[d] /\ buf'[d] = buf[d]
                                   /\ res'[d] = res[d] /\ tell'[d] = tell[d]
<1>1. CASE Begin(c)
  BY <1>1 DEF Begin, Goto, IInv, TypeOK
<1>2. CASE CreateStat(c) \/ Open(c) \/ Fill(c) \/ WriteFails(c) \/ CreateReadBack(c) \/ Get(c)
  BY <1>2 DEF CreateStat, Open, Fill, WriteFails, CreateReadBack, Get, Return, Goto, IInv, TypeOK
<1>3. CASE DeleteCheck(c) \/ DeleteRemove(c)
  BY <1>3 DEF DeleteCheck, DeleteRemove, Return, Goto, IInv, TypeOK
<1>4. CASE UpdateExists(c) \/ UpdateRead(c)
  BY <1>4 DEF UpdateExists, UpdateRead, Continue, Return, Goto, IInv, TypeOK
<1>5. CASE NotifyLock(c) \/ (\E w \in Client : Deliver(c, w)) \/ Notify(c)
  BY <1>5 DEF NotifyLock, Deliver, Notify, Continue, Return, Goto, IInv, TypeOK
<1>6. CASE ListReadDir(c) \/ ListReadFile(c)
  BY <1>6 DEF ListReadDir, ListReadFile, Return, Goto, IInv, TypeOK
<1>7. CASE WatchStart(c) \/ WatchStop(c) \/ WatchReceive(c) \/ WatchLeave(c)
  BY <1>7 DEF WatchStart, WatchStop, WatchReceive, WatchLeave, Return, Goto, IInv, TypeOK
<1> QED
  BY <1>1, <1>2, <1>3, <1>4, <1>5, <1>6, <1>7 DEF Move, Step

\* A step of a request.
LEMMA AskedStep ==
    ASSUME IInv, Asked, NEW c \in Client, Move(c)
    PROVE  AskedOf(c)'
<1> USE DEF IInv, TypeOK, Asked, AskedOf
<1>1. CASE Begin(c)
  <2>1. PICK r \in Request : r.op \in Allowed[c] /\ req' = [req EXCEPT ![c] = r]
          /\ pc' = [pc EXCEPT ![c] = FirstCall(r)]
    BY <1>1 DEF Begin, Goto
  <2>2. /\ FirstCall(r) \in {"stat", "get", "check", "exists", "read", "register", "scan"}
        /\ FirstCall(r) = "stat" => r.op = "create"
        /\ FirstCall(r) = "check" => r.op = "delete"
        /\ FirstCall(r) \in {"exists", "read"} => r.op \in UpdateOp
    BY DEF FirstCall, FirstOfPass
  <2> HIDE DEF FirstCall
  <2> QED
    BY <2>1, <2>2
<1>2. CASE CreateStat(c) \/ Open(c) \/ Fill(c) \/ WriteFails(c)
  BY <1>2 DEF CreateStat, Open, Fill, WriteFails, Return, Goto, WriteOp
<1>3. CASE CreateReadBack(c) \/ Get(c)
  BY <1>3 DEF CreateReadBack, Get, Return, Goto, WriteOp
<1>4. CASE DeleteCheck(c) \/ DeleteRemove(c)
  BY <1>4 DEF DeleteCheck, DeleteRemove, Return, Goto, WriteOp
<1>5. CASE UpdateExists(c) \/ UpdateRead(c)
  <2>1. /\ pc'[c] \in {"exists", "read", "idle", "open"} /\ req' = req /\ pc[c] \in {"exists", "read"}
        /\ pc'[c] = "open" => req[c].op # "inplace"
    BY <1>5 DEF UpdateExists, UpdateRead, Continue, Return, Goto, FirstOfPass, isUnchanged
  <2> QED
    BY <2>1 DEF UpdateOp, WriteOp
<1>6. CASE NotifyLock(c) \/ \E w \in Client : Deliver(c, w)
  BY <1>6 DEF NotifyLock, Deliver, Goto
<1>7. CASE Notify(c)
  <2>1. /\ pc'[c] \in {"exists", "read", "idle"} /\ req' = req /\ pc[c] = "telling"
        /\ pc'[c] # "idle" => req[c].op \in UpdateOp
    BY <1>7 DEF Notify, Continue, Return, Goto, FirstOfPass
  <2> QED
    BY <2>1
<1>8. CASE \/ ListReadDir(c) \/ ListReadFile(c) \/ WatchStart(c) \/ WatchStop(c)
           \/ WatchReceive(c) \/ WatchLeave(c)
  <2>1. /\ pc'[c] \in {"idle", "scanning", "register", "watching", "stopping"} /\ req' = req
        /\ pc[c] # "idle"
    BY <1>8 DEF ListReadDir, ListReadFile, WatchStart, WatchStop, WatchReceive, WatchLeave, Return, Goto
  <2> QED
    BY <2>1
<1> QED
  BY <1>1, <1>2, <1>3, <1>4, <1>5, <1>6, <1>7, <1>8 DEF Move, Step

\* Every step.
LEMMA AskedInv == IInv /\ Asked /\ [Next]_vars => IInv' /\ Asked'
<1> SUFFICES ASSUME IInv, Asked, [Next]_vars PROVE Asked'
  BY StepInv
<1>1. ASSUME NEW c \in Client, Move(c) PROVE Asked'
  <2>1. AskedOf(c)'
    BY <1>1, AskedStep
  <2>2. \A d \in Client \ {c} : AskedOf(d)'
    BY <1>1, OwnStep DEF Asked, AskedOf
  <2> QED
    BY <2>1, <2>2 DEF Asked
<1>2. CASE Crash
  BY <1>2 DEF Crash, Asked, AskedOf
<1>3. CASE Tick \/ UNCHANGED vars
  BY <1>3 DEF Tick, local, vars, Asked, AskedOf
<1> QED
  BY <1>1, <1>2, <1>3 DEF Next, Move

-----------------------------------------------------------------------------
(***************************************************************************)
(* One request at a time for every file.                                   *)
(***************************************************************************)
\* c has a request in progress that may change its file.
Changing(c) ==
    /\ pc[c] \in {"stat", "open", "fill", "readback", "notify", "telling", "read", "check", "remove"}
    /\ req[c].op # "inplace"

\* No two requests that may change one file overlap.
Apart == \A c, d \in Client : Changing(c) /\ Changing(d) /\ req[c].key = req[d].key => c = d

\* A file decodes, to an object that is not from the future, or it is empty, or a
\* write of it failed.
Whole ==
    \A k \in Key :
        /\ file[k] = Absent \/ file[k].len = 0 \/ Decodable(file[k]) \/ k \in failed
        /\ Decodable(file[k]) => file[k].obj.rv <= clock
        /\ k \in failed => file[k] # Absent

\* What the request of c knows of its file, which nobody else touches.
UnderWayOf(c) ==
    /\ pc[c] \in {"open", "fill"} => buf[c].rv <= clock
    /\ pc[c] = "open" =>
        /\ Decodable(file[req[c].key]) => file[req[c].key].obj.rv <= buf[c].rv
        /\ req[c].op = "create" => file[req[c].key] = Absent
        /\ req[c].op \in {"put", "patch"} => Decodable(file[req[c].key])
    /\ pc[c] = "fill" => fd[c] /\ file[req[c].key].len = 0 /\ req[c].key \notin failed
    /\ pc[c] \in {"readback", "remove"} => Decodable(file[req[c].key])
    /\ pc[c] \in {"notify", "telling"} =>
        IF req[c].op = "delete" THEN file[req[c].key] = Absent
        ELSE Decodable(file[req[c].key]) /\ file[req[c].key].obj = buf[c]

UnderWay == \A c \in Client : UnderWayOf(c)

LInv == Apart /\ IInv /\ Asked /\ Whole /\ UnderWay

\* A step of c that leaves the files alone.
LEMMA NoWrite ==
    ASSUME LInv, NEW c \in Client, Move(c),
           UNCHANGED <<file, clock, fd, failed>>, UnderWayOf(c)'
    PROVE  Whole' /\ UnderWay'
<1>1. Whole'
  BY DEF LInv, Whole, Decodable
<1>2. \A d \in Client \ {c} : UnderWayOf(d)'
  BY OwnStep DEF LInv, UnderWay, UnderWayOf, Decodable
<1> QED
  BY <1>1, <1>2 DEF UnderWay

\* A request that knows something of its file may change it.
LEMMA KnowsOwn ==
    ASSUME Asked, NEW c \in Client,
           pc[c] \in {"stat", "open", "fill", "readback", "notify", "telling", "check", "remove"}
    PROVE  Changing(c)
BY DEF Asked, AskedOf, Changing, WriteOp

\* A step of c that changes its file.
LEMMA Write ==
    ASSUME LInv, NEW c \in Client, Changing(c), Step(c), Whole', UnderWayOf(c)',
           \A k \in Key \ {req[c].key} : file'[k] = file[k] /\ (k \in failed' <=> k \in failed),
           \A d \in Client : req[d].key # req[c].key => fd'[d] = fd[d],
           UNCHANGED clock
    PROVE  UnderWay'
<1>1. ASSUME NEW d \in Client \ {c} PROVE UnderWayOf(d)'
  <2>1. pc'[d] = pc[d] /\ req'[d] = req[d] /\ buf'[d] = buf[d] /\ UnderWayOf(d)
    BY OwnStep DEF LInv, UnderWay, Move
  <2>2. CASE Changing(d)
    <3>1. req[d].key \in Key \ {req[c].key}
      BY <2>2, RequestFacts DEF LInv, Apart, IInv, TypeOK
    <3>2. /\ file'[req[d].key] = file[req[d].key] /\ fd'[d] = fd[d]
          /\ req[d].key \in failed' <=> req[d].key \in failed
      BY <3>1
    <3> QED
      BY <2>1, <3>2 DEF UnderWayOf, Decodable
  <2>3. CASE ~Changing(d)
    <3>1. pc[d] \notin {"open", "fill", "readback", "notify", "telling", "remove"}
      BY <2>3, KnowsOwn DEF LInv
    <3> QED
      BY <2>1, <3>1 DEF UnderWayOf
  <2> QED
    BY <2>2, <2>3
<1> QED
  BY <1>1 DEF UnderWay

\* What the request of c knows and needs.
LEMMA Known ==
    ASSUME LInv, NEW c \in Client
    PROVE  /\ req[c] \in Request /\ req[c].key \in Key /\ req[c].rv \in Nat /\ buf[c] \in Obj /\ buf[c].rv \in Nat
           /\ clock \in Nat /\ AskedOf(c) /\ UnderWayOf(c)
           /\ pc[c] \in {"open", "fill"} => buf[c].val \in Value
           /\ file[req[c].key] # Absent => file[req[c].key] \in File /\ file[req[c].key].len \in Nat
           /\ Decodable(file[req[c].key]) => file[req[c].key] # Absent /\ GetOutcome(req[c].key) = "ok"
<1>1. req[c] \in Request /\ buf[c] \in Obj /\ clock \in Nat /\ AskedOf(c) /\ UnderWayOf(c)
  BY DEF LInv, IInv, TypeOK, Asked, UnderWay
<1>2. req[c].key \in Key /\ req[c].rv \in Nat /\ buf[c].rv \in Nat
  BY <1>1, RequestFacts DEF Obj
<1>3. pc[c] \in {"open", "fill"} => buf[c].val \in Value
  BY DEF LInv, IInv, Holding
<1>4. file[req[c].key] # Absent => file[req[c].key] \in File /\ file[req[c].key].len \in Nat
  BY <1>2 DEF LInv, IInv, TypeOK, File
<1>5. Decodable(file[req[c].key]) => file[req[c].key] # Absent /\ GetOutcome(req[c].key) = "ok"
  BY DEF GetOutcome, Decodable
<1> QED
  BY <1>1, <1>2, <1>3, <1>4, <1>5

\* Opening and truncating: what is torn is under the writer's hands.
LEMMA OpenAlone ==
    ASSUME LInv, NEW c \in Client, Open(c)
    PROVE  Whole' /\ UnderWay'
<1> DEFINE empty == [len |-> 0, obj |-> NewObj]
           k == req[c].key
<1>1. /\ pc[c] = "open" /\ file' = [file EXCEPT ![k] = empty] /\ fd' = [fd EXCEPT ![c] = TRUE]
      /\ pc' = [pc EXCEPT ![c] = "fill"] /\ failed' = failed \ {k} /\ UNCHANGED <<clock, req, buf>>
  BY DEF Open, Goto
<1>2. k \in Key /\ empty.len = 0 /\ ~Decodable(empty) /\ buf[c].rv <= clock
  BY <1>1, Known, FileStorageAssumption DEF Decodable, NewObj, UnderWayOf
<1> HIDE DEF empty, k
<1>3. file'[k] = empty /\ (\A j \in Key \ {k} : file'[j] = file[j]) /\ pc'[c] = "fill" /\ fd'[c]
  BY <1>1, <1>2 DEF LInv, IInv, TypeOK
<1>4. Whole'
  BY <1>1, <1>2, <1>3 DEF LInv, Whole, Decodable
<1>5. UnderWayOf(c)'
  BY <1>1, <1>2, <1>3 DEF UnderWayOf, k
<1>6. \A d \in Client : req[d].key # req[c].key => fd'[d] = fd[d]
  BY <1>1 DEF LInv, IInv, TypeOK
<1>7. Changing(c)
  BY <1>1, KnowsOwn DEF LInv
<1> QED
  BY <1>1, <1>3, <1>4, <1>5, <1>6, <1>7, Write DEF Step, k

\* All the bytes, written to the file that was truncated, are the object.
LEMMA WrittenWhole ==
    ASSUME LInv, NEW c \in Client, pc[c] = "fill"
    PROVE  /\ fd[c] /\ file[req[c].key] # Absent /\ Writing(c, req[c].key)
           /\ Decodable(Written(file[req[c].key], buf[c])) /\ Written(file[req[c].key], buf[c]).obj = buf[c]
<1> DEFINE k == req[c].key
           new == Written(file[k], buf[c])
<1>1. /\ fd[c] /\ file[k].len = 0 /\ file[k] # Absent /\ buf[c].val \in Value /\ buf[c] \in Obj
  BY Known DEF UnderWayOf, LInv, IInv, Holding
<1>2. Size[buf[c].val] \in Nat \ {0}
  BY <1>1, FileStorageAssumption
<1>3. new = [len |-> Size[buf[c].val], obj |-> buf[c]]
  BY <1>1, <1>2 DEF Written
<1>4. new \in File /\ new # Absent
  BY <1>1, <1>2, <1>3, FileStorageAssumption DEF File
<1> QED
  BY <1>1, <1>3, <1>4 DEF Decodable, Writing

\* The write to the file that was truncated leaves the object, whole.
LEMMA FillAlone ==
    ASSUME LInv, NEW c \in Client, Fill(c)
    PROVE  /\ Whole' /\ UnderWay'
           /\ file' = [file EXCEPT ![req[c].key] = Written(file[req[c].key], buf[c])]
<1> DEFINE k == req[c].key
           new == Written(file[k], buf[c])
<1>1. /\ pc[c] = "fill" /\ k \in Key /\ buf[c].rv <= clock /\ req[c].op \in WriteOp \ {"delete"}
  BY Known DEF Fill, UnderWayOf, AskedOf
<1>2. fd[c] /\ Decodable(new) /\ new.obj = buf[c]
  BY <1>1, WrittenWhole
<1>3. /\ file' = [file EXCEPT ![k] = new]
      /\ pc' = [pc EXCEPT ![c] = IF req[c].op = "create" THEN "readback" ELSE "notify"]
      /\ fd' = [fd EXCEPT ![c] = FALSE] /\ UNCHANGED <<clock, req, buf, failed>>
  BY <1>2 DEF Fill, Goto
<1> HIDE DEF new, k
<1>4. new # Absent
  BY <1>2 DEF Decodable
<1>5. file'[k] = new /\ \A j \in Key \ {k} : file'[j] = file[j]
  BY <1>1, <1>3 DEF LInv, IInv, TypeOK
<1>6. Whole'
  BY <1>1, <1>2, <1>3, <1>4, <1>5 DEF LInv, Whole
<1>7. pc'[c] = IF req[c].op = "create" THEN "readback" ELSE "notify"
  BY <1>3 DEF LInv, IInv, TypeOK
<1>8. UnderWayOf(c)'
  BY <1>1, <1>2, <1>3, <1>5, <1>7 DEF UnderWayOf, k
<1>9. \A d \in Client : req[d].key # req[c].key => fd'[d] = fd[d]
  BY <1>3 DEF LInv, IInv, TypeOK
<1>10. Changing(c)
  BY <1>1, KnowsOwn DEF LInv
<1>11. UnderWay'
  BY <1>3, <1>5, <1>6, <1>8, <1>9, <1>10, Write DEF Step, k
<1> QED
  BY <1>3, <1>6, <1>11 DEF new, k

\* What a failed write leaves is nothing, or the object, or recorded as failed.
LEMMA WriteFailsAlone ==
    ASSUME LInv, NEW c \in Client, WriteFails(c)
    PROVE  Whole' /\ UnderWay'
<1> DEFINE k == req[c].key
<1>1. k \in Key /\ pc' = [pc EXCEPT ![c] = "idle"] /\ pc'[c] = "idle" /\ UNCHANGED <<clock, req, buf>>
  BY Known DEF WriteFails, Return, Goto, LInv, IInv, TypeOK
<1>2. UnderWayOf(c)'
  BY <1>1 DEF UnderWayOf
<1>3. CASE pc[c] = "open"
  BY <1>1, <1>2, <1>3, NoWrite DEF WriteFails, Move, Step
<1>4. CASE pc[c] = "fill"
  <2>1. fd[c] /\ file[k] # Absent /\ Decodable(Written(file[k], buf[c])) /\ Written(file[k], buf[c]).obj = buf[c]
    BY <1>4, WrittenWhole
  <2>2. PICK n \in 0 .. Size[buf[c].val] : file' = [file EXCEPT ![k] = PartlyWritten(@, buf[c], n)]
    BY <1>4, <2>1 DEF WriteFails
  <2>3. failed' = failed \cup {k} /\ fd' = [fd EXCEPT ![c] = FALSE]
    BY <1>4, <2>1 DEF WriteFails
  <2>4. /\ file'[k] = PartlyWritten(file[k], buf[c], n) /\ \A j \in Key \ {k} : file'[j] = file[j]
    BY <1>1, <2>2 DEF LInv, IInv, TypeOK
  <2>5. file[k] \in File /\ file[k].len = 0 /\ buf[c] \in Obj /\ buf[c].val \in Value /\ buf[c].rv <= clock
    BY <1>4, <2>1, Known DEF UnderWayOf
  <2>6. file'[k] # Absent
    BY <2>4, <2>5, PartlyWrittenFacts
  <2>7. Decodable(file'[k]) => file'[k].obj.rv <= clock
    <3>1. CASE file'[k] = Written(file[k], buf[c])
      BY <2>1, <2>5, <3>1
    <3>2. CASE file'[k] = file[k]
      BY <2>5, <3>2, FileStorageAssumption DEF Decodable
    <3>3. CASE file'[k].obj = NewObj
      BY <3>3, FileStorageAssumption DEF Decodable, NewObj
    <3> QED
      BY <2>4, <3>1, <3>2, <3>3 DEF PartlyWritten
  <2> HIDE DEF k
  <2>8. Whole'
    BY <1>1, <2>3, <2>4, <2>6, <2>7 DEF LInv, Whole, Decodable
  <2>9. \A d \in Client : req[d].key # req[c].key => fd'[d] = fd[d]
    BY <2>3 DEF LInv, IInv, TypeOK
  <2>10. Changing(c)
    BY <1>4, KnowsOwn DEF LInv
  <2> QED
    BY <1>1, <1>2, <2>3, <2>4, <2>8, <2>9, <2>10, Write DEF Step, k
<1> QED
  BY <1>3, <1>4 DEF WriteFails

\* A removal.
LEMMA RemoveAlone ==
    ASSUME LInv, NEW c \in Client, DeleteRemove(c)
    PROVE  Whole' /\ UnderWay'
<1> DEFINE k == req[c].key
<1>1. k \in Key /\ pc[c] = "remove" /\ req[c].op = "delete" /\ UNCHANGED <<clock, req, buf>>
  BY Known DEF DeleteRemove, AskedOf
<1>2. CASE pc' = [pc EXCEPT ![c] = "idle"] /\ UNCHANGED <<file, fd, failed>>
  <2>1. UnderWayOf(c)'
    BY <1>2 DEF UnderWayOf, LInv, IInv, TypeOK
  <2> QED
    BY <1>1, <1>2, <2>1, NoWrite DEF Move, Step
<1>3. CASE /\ pc' = [pc EXCEPT ![c] = "notify"] /\ file' = [file EXCEPT ![k] = Absent]
           /\ fd' = [d \in Client |-> fd[d] /\ req[d].key # k] /\ failed' = failed \ {k}
  <2> HIDE DEF k
  <2>1. file'[k] = Absent /\ (\A j \in Key \ {k} : file'[j] = file[j]) /\ pc'[c] = "notify"
    BY <1>1, <1>3 DEF LInv, IInv, TypeOK
  <2>2. ~Decodable(Absent)
    BY DEF Decodable
  <2>3. Whole'
    BY <1>1, <1>3, <2>1, <2>2 DEF LInv, Whole
  <2>4. UnderWayOf(c)'
    BY <1>1, <2>1 DEF UnderWayOf, k
  <2>5. ASSUME NEW d \in Client, req[d].key # k PROVE fd'[d] = fd[d]
    <3>1. fd'[d] = (fd[d] /\ req[d].key # k)
      BY <1>3
    <3>2. fd[d] \in BOOLEAN
      BY DEF LInv, IInv, TypeOK
    <3> QED
      BY <2>5, <3>1, <3>2, Zenon
  <2>6. Changing(c)
    BY <1>1, KnowsOwn DEF LInv
  <2> QED
    BY <1>1, <1>3, <2>1, <2>3, <2>4, <2>5, <2>6, Write DEF Step, k
<1> QED
  BY <1>2, <1>3 DEF DeleteRemove, Return, Goto

\* The pass of GuaranteedUpdate that ends in a write: the new version is the latest.
LEMMA UpdateAlone ==
    ASSUME LInv, NEW c \in Client, UpdateRead(c)
    PROVE  Whole' /\ UnderWay'
<1> DEFINE r == req[c]
           f == file[r.key]
           o == IF Decodable(f) THEN f.obj ELSE NewObj
<1>1. pc[c] = "read" /\ UNCHANGED <<file, clock, req, fd, failed>>
  BY DEF UpdateRead
<1>2. CASE \E p \in {"idle", "exists", "read"} : pc' = [pc EXCEPT ![c] = p]
  BY <1>1, <1>2, NoWrite DEF Move, Step, UnderWayOf, LInv, IInv, TypeOK
<1>3. CASE /\ TryError(r, o) = "ok" /\ pc' = [pc EXCEPT ![c] = "open"]
           /\ buf' = [buf EXCEPT ![c] = [TryUpdate(r, o) EXCEPT !.rv = clock]]
  <2>1. pc'[c] = "open" /\ buf'[c].rv = clock
    BY <1>3 DEF TryUpdate, LInv, IInv, TypeOK
  <2>2. clock <= clock /\ (Decodable(f) => f.obj.rv <= clock)
    BY Known DEF LInv, Whole
  <2>3. r.op \in {"put", "patch"} => Decodable(f)
    BY <1>3 DEF TryError, NewObj
  <2>4. r.op # "create"
    BY <1>1, Known DEF AskedOf, UpdateOp
  <2>5. UnderWayOf(c)'
    BY <1>1, <2>1, <2>2, <2>3, <2>4 DEF UnderWayOf
  <2> QED
    BY <1>1, <2>5, NoWrite DEF Move, Step
<1> QED
  BY <1>2, <1>3 DEF UpdateRead, Continue, Return, Goto, getResourceVersion, FirstOfPass

\* The other steps.
LEMMA OthersAlone ==
    ASSUME LInv, NEW c \in Client,
           \/ Begin(c) \/ CreateStat(c) \/ CreateReadBack(c) \/ Get(c) \/ DeleteCheck(c) \/ UpdateExists(c)
           \/ NotifyLock(c) \/ (\E w \in Client : Deliver(c, w)) \/ Notify(c)
           \/ ListReadDir(c) \/ ListReadFile(c) \/ WatchStart(c) \/ WatchStop(c)
           \/ WatchReceive(c) \/ WatchLeave(c)
    PROVE  Whole' /\ UnderWay'
<1> USE DEF LInv, IInv, TypeOK
<1>1. CASE Begin(c)
  <2>1. PICK r \in Request : pc' = [pc EXCEPT ![c] = FirstCall(r)]
    BY <1>1 DEF Begin, Goto
  <2>2. FirstCall(r) \in {"stat", "get", "check", "exists", "read", "register", "scan"}
    BY DEF FirstCall, FirstOfPass
  <2> HIDE DEF FirstCall
  <2>3. UnderWayOf(c)'
    BY <2>1, <2>2 DEF UnderWayOf
  <2> QED
    BY <1>1, <2>3, NoWrite DEF Begin, Move
<1>2. CASE CreateStat(c)
  <2>1. \/ pc'[c] = "idle"
        \/ pc'[c] = "open" /\ file[req[c].key] = Absent /\ buf'[c].rv = clock
    BY <1>2 DEF CreateStat, Return, Goto, getResourceVersion
  <2>2. /\ UNCHANGED <<file, clock, req, fd, failed>> /\ req[c].op = "create" /\ ~Decodable(Absent)
        /\ clock <= clock
    BY <1>2, Known DEF CreateStat, AskedOf, Decodable
  <2>3. UnderWayOf(c)'
    BY <2>1, <2>2 DEF UnderWayOf
  <2> QED
    BY <1>2, <2>2, <2>3, NoWrite DEF Move, Step
<1>3. CASE CreateReadBack(c)
  <2>1. \/ pc'[c] = "idle"
        \/ pc'[c] = "notify" /\ buf'[c] = file[req[c].key].obj
    BY <1>3 DEF CreateReadBack, Return, Goto
  <2>2. /\ UNCHANGED <<file, clock, req, fd, failed>> /\ req[c].op = "create" /\ Decodable(file[req[c].key])
    BY <1>3, Known DEF CreateReadBack, AskedOf, UnderWayOf
  <2>3. UnderWayOf(c)'
    BY <2>1, <2>2 DEF UnderWayOf
  <2> QED
    BY <1>3, <2>2, <2>3, NoWrite DEF Move, Step
<1>4. CASE Get(c) \/ DeleteCheck(c)
  <2>1. /\ pc'[c] \in {"idle", "remove"} /\ UNCHANGED <<file, clock, req, fd, failed>>
        /\ pc'[c] = "remove" => GetOutcome(req[c].key) = "ok"
    BY <1>4 DEF Get, DeleteCheck, Return, Goto
  <2>2. GetOutcome(req[c].key) = "ok" => Decodable(file[req[c].key])
    BY Known, FileFacts
  <2>3. UnderWayOf(c)'
    BY <2>1, <2>2 DEF UnderWayOf
  <2> QED
    BY <1>4, <2>1, <2>3, NoWrite DEF Move, Step
<1>5. CASE UpdateExists(c) \/ Notify(c)
  <2>1. pc'[c] \in {"idle", "exists", "read"} /\ UNCHANGED <<file, clock, fd, failed>>
    BY <1>5 DEF UpdateExists, Notify, Continue, Return, Goto, FirstOfPass
  <2> QED
    BY <1>5, <2>1, NoWrite DEF UnderWayOf, Move, Step
<1>6. CASE NotifyLock(c) \/ \E w \in Client : Deliver(c, w)
  <2>1. /\ pc[c] \in {"notify", "telling"} /\ pc'[c] = "telling"
        /\ UNCHANGED <<file, clock, req, buf, fd, failed>>
    BY <1>6 DEF NotifyLock, Deliver, Goto
  <2>2. UnderWayOf(c)'
    BY <2>1, Known DEF UnderWayOf
  <2> QED
    BY <1>6, <2>1, <2>2, NoWrite DEF Move, Step
<1>7. CASE \/ ListReadDir(c) \/ ListReadFile(c) \/ WatchStart(c) \/ WatchStop(c)
           \/ WatchReceive(c) \/ WatchLeave(c)
  <2>1. /\ pc'[c] \in {"idle", "scanning", "register", "watching", "stopping"}
        /\ UNCHANGED <<file, clock, fd, failed>>
    BY <1>7 DEF ListReadDir, ListReadFile, WatchStart, WatchStop, WatchReceive, WatchLeave, Return, Goto
  <2> QED
    BY <1>7, <2>1, NoWrite DEF UnderWayOf, Move, Step
<1> QED
  BY <1>1, <1>2, <1>3, <1>4, <1>5, <1>6, <1>7

\* Every step keeps what requests may rely on that do not overlap.
LEMMA AloneInv == LInv /\ Apart' /\ [Next]_vars => LInv'
<1> SUFFICES ASSUME LInv, [Next]_vars PROVE Whole' /\ UnderWay'
  BY AskedInv DEF LInv
<1>1. ASSUME NEW c \in Client, Move(c) PROVE Whole' /\ UnderWay'
  BY <1>1, OpenAlone, FillAlone, WriteFailsAlone, RemoveAlone, UpdateAlone, OthersAlone DEF Move, Step
<1>2. CASE Crash
  BY <1>2 DEF Crash, LInv, Whole, UnderWay, UnderWayOf, Decodable
<1>3. CASE Tick
  <2>1. clock \in Nat /\ clock' = clock + 1 /\ UNCHANGED <<file, local, failed>>
    BY <1>3 DEF Tick, LInv, IInv, TypeOK
  <2>2. ASSUME NEW k \in Key, Decodable(file[k]) PROVE file[k].obj.rv \in Nat
    BY <2>2, FileFacts DEF LInv, IInv, Obj
  <2>3. \A n \in Nat : n <= clock => n <= clock + 1
    BY <2>1
  <2>4. Whole'
    BY <2>1, <2>2, <2>3 DEF LInv, Whole
  <2>5. ASSUME NEW c \in Client PROVE UnderWayOf(c)'
    <3>1. buf[c].rv <= clock => buf[c].rv <= clock'
      BY <2>1, <2>3, Known
    <3> QED
      BY <2>1, <3>1 DEF LInv, UnderWay, UnderWayOf, local
  <2> QED
    BY <2>4, <2>5 DEF UnderWay
<1>4. CASE UNCHANGED vars
  BY <1>4 DEF vars, LInv, Whole, UnderWay, UnderWayOf
<1> QED
  BY <1>1, <1>2, <1>3, <1>4 DEF Next, Move

\* At first there are no files and no requests.
LEMMA AloneInit == Init => LInv
<1> SUFFICES ASSUME Init PROVE LInv
  OBVIOUS
<1>1. Apart /\ Asked /\ UnderWay
  BY DEF Init, Apart, Changing, Asked, AskedOf, UnderWay, UnderWayOf
<1>2. Whole
  BY DEF Init, Whole, Decodable
<1> QED
  BY <1>1, <1>2, InitInv DEF LInv

-----------------------------------------------------------------------------
(* What requests that do not overlap may rely on. *)

\* Only one client asks for anything that changes files.
OneWriter ==
    \A c, d \in Client : Allowed[c] \cap WriteOp # {} /\ Allowed[d] \cap WriteOp # {} => c = d

\* A single client that writes never has two requests in progress that change a
\* file: the theorems below hold for it.
THEOREM LoneWriter == OneWriter /\ Spec => []Apart
<1>1. Init => Asked
  BY DEF Init, Asked, AskedOf
<1>2. ASSUME OneWriter, IInv, Asked PROVE Apart
  <2>1. \A c \in Client : Changing(c) => req[c].op \in Allowed[c] \cap WriteOp
    BY <1>2 DEF Asked, AskedOf, Changing, WriteOp, UpdateOp
  <2> QED
    BY <1>2, <2>1 DEF OneWriter, Apart
<1>3. OneWriter => OneWriter'
  BY DEF OneWriter
<1> QED
  BY <1>1, <1>2, <1>3, InitInv, AskedInv, PTL DEF Spec

\* A step that changes a file that nobody can read truncates it, for an apply.
LEMMA UnreadableStep ==
    ASSUME LInv, [Next]_vars, NEW k \in failed, ~Decodable(file[k]), file'[k] # file[k]
    PROVE  \E c \in Client : pc[c] = "open" /\ req[c].key = k /\ req[c].op = "apply"
<1>1. k \in Key /\ file[k] # Absent
  BY DEF LInv, IInv, TypeOK, Whole
<1>2. ~Crash /\ ~Tick /\ ~UNCHANGED vars
  BY DEF Crash, Tick, vars
<1>3. PICK c \in Client : Move(c)
  BY <1>2 DEF Next, Move
<1>4. Open(c) \/ Fill(c) \/ WriteFails(c) \/ DeleteRemove(c)
  BY <1>3 DEF Move, Begin, Step, CreateStat, CreateReadBack, Get, DeleteCheck, UpdateExists, UpdateRead, NotifyLock,
     Deliver, Notify, ListReadDir, ListReadFile, WatchStart, WatchStop, WatchReceive, WatchLeave
<1>5. k = req[c].key
  BY <1>1, <1>4 DEF Open, Fill, WriteFails, DeleteRemove, LInv, IInv, TypeOK
<1>6. pc[c] \in {"open", "fill", "remove"}
  BY <1>4 DEF Open, Fill, WriteFails, DeleteRemove
<1>7. pc[c] = "open"
  BY <1>5, <1>6, Known DEF UnderWayOf
<1>8. req[c].op \in WriteOp \ {"delete"} /\ req[c].op \notin {"create", "put", "patch"}
  BY <1>1, <1>5, <1>7, Known DEF UnderWayOf, AskedOf
<1> QED
  BY <1>5, <1>7, <1>8 DEF WriteOp

\* If no two requests that may change one file overlap, a file that a failed write
\* or a crash left unreadable stays as it is until an apply writes to it: neither
\* create nor put, patch or delete destroys what could still be looked at.
THEOREM UnreadableStays == Spec /\ []Apart => UnreadableUntilApplied
<1>1. LInv /\ [Next]_vars =>
        [\A k \in failed : ~Decodable(file[k]) /\ file'[k] # file[k]
            => \E c \in Client : pc[c] = "open" /\ req[c].key = k /\ req[c].op = "apply"]_vars
  BY UnreadableStep
<1> QED
  BY <1>1, AloneInit, AloneInv, PTL DEF Spec, UnreadableUntilApplied

\* A step of c that leaves w and the file at k alone, and what c is about to tell.
LEMMA SyncKept ==
    ASSUME IInv, NEW c \in Client, Move(c),
           NEW w \in Client, NEW k \in Key, InSync(w, k), k \in failed => k \in failed',
           view'[w][k] = view[w][k], file'[k] = file[k], Pending(c, w, k) => Pending(c, w, k)'
    PROVE  InSync(w, k)'
<1>1. ASSUME NEW d \in Client, Pending(d, w, k) PROVE Pending(d, w, k)'
  BY <1>1, OwnStep DEF Pending
<1> QED
  BY <1>1 DEF InSync

\* A step of c that changes its file.
LEMMA SyncWrite ==
    ASSUME LInv, NEW c \in Client, NEW w \in Client \ {c}, NEW k \in Key, InSync(w, k),
           Open(c) \/ Fill(c) \/ WriteFails(c) \/ CreateReadBack(c) \/ DeleteRemove(c)
    PROVE  InSync(w, k)'
<1>1. req[c].key \in Key /\ req' = req /\ view' = view /\ Move(c)
  BY Known DEF Open, Fill, WriteFails, CreateReadBack, DeleteRemove, Move, Step
<1>2. ASSUME k # req[c].key PROVE InSync(w, k)'
  <2>1. file'[k] = file[k] /\ (k \in failed => k \in failed') /\ ~Pending(c, w, k)
    BY <1>1, <1>2 DEF Open, Fill, WriteFails, CreateReadBack, DeleteRemove, Pending, LInv, IInv, TypeOK
  <2> QED
    BY <1>1, <2>1, SyncKept DEF LInv
<1>3. ASSUME k = req[c].key PROVE InSync(w, k)'
  <2>1. CASE Open(c) \/ Fill(c)
    <3>1. pc'[c] \in {"fill", "readback", "notify"}
      BY <2>1 DEF Open, Fill, Goto, LInv, IInv, TypeOK
    <3>2. Pending(c, w, k)'
      BY <1>1, <1>3, <3>1 DEF Pending
    <3> QED
      BY <3>2 DEF InSync
  <2>2. CASE WriteFails(c) /\ pc[c] = "open"
    <3>1. file' = file /\ failed' = failed /\ ~Pending(c, w, k)
      BY <2>2 DEF WriteFails, Pending
    <3> QED
      BY <1>1, <3>1, SyncKept DEF LInv
  <2>3. CASE WriteFails(c) /\ pc[c] = "fill"
    <3>1. fd[c]
      BY <2>3, WrittenWhole
    <3>2. k \in failed'
      BY <1>3, <2>3, <3>1 DEF WriteFails
    <3> QED
      BY <3>2 DEF InSync
  <2>4. CASE CreateReadBack(c)
    <3>1. Decodable(file[req[c].key]) /\ GetOutcome(req[c].key) = "ok"
      BY <2>4, Known DEF CreateReadBack, UnderWayOf
    <3>2. pc'[c] = "notify" /\ file' = file /\ failed' = failed
      BY <2>4, <3>1 DEF CreateReadBack, Goto, LInv, IInv, TypeOK
    <3>3. Pending(c, w, k)'
      BY <1>1, <1>3, <3>2 DEF Pending
    <3> QED
      BY <3>3 DEF InSync
  <2>5. CASE DeleteRemove(c)
    <3>1. \/ pc'[c] = "notify"
          \/ file' = file /\ failed' = failed
      BY <2>5 DEF DeleteRemove, Goto, LInv, IInv, TypeOK
    <3>2. CASE pc'[c] = "notify"
      <4>1. Pending(c, w, k)'
        BY <1>1, <1>3, <3>2 DEF Pending
      <4> QED
        BY <4>1 DEF InSync
    <3>3. CASE file' = file /\ failed' = failed
      <4>1. ~Pending(c, w, k)
        BY <2>5 DEF DeleteRemove, Pending
      <4> QED
        BY <1>1, <3>3, <4>1, SyncKept DEF LInv
    <3> QED
      BY <3>1, <3>2, <3>3
  <2> QED
    BY <2>1, <2>2, <2>3, <2>4, <2>5 DEF WriteFails
<1> QED
  BY <1>2, <1>3

\* Those who watch when the lock is granted are told.
LEMMA SyncLock ==
    ASSUME LInv, NEW c \in Client, NEW w \in Client \ {c}, NEW k \in Key, InSync(w, k),
           pc[w] = "watching", NotifyLock(c)
    PROVE  InSync(w, k)'
<1>1. /\ pc[c] = "notify" /\ pc'[c] = "telling" /\ w \in tell'[c]
      /\ UNCHANGED <<file, req, view, failed>> /\ Move(c)
  BY DEF NotifyLock, Goto, LInv, IInv, TypeOK, Move, Step
<1>2. Pending(c, w, k) => Pending(c, w, k)'
  BY <1>1 DEF Pending
<1> QED
  BY <1>1, <1>2, SyncKept DEF LInv

\* What a watcher is told is what is on disk.
LEMMA SyncDeliver ==
    ASSUME LInv, NEW c \in Client, NEW w \in Client \ {c}, NEW k \in Key, InSync(w, k),
           NEW v \in Client, Deliver(c, v)
    PROVE  InSync(w, k)'
<1> DEFINE o == IF req[c].op = "delete" THEN Absent ELSE buf[c]
<1>1. /\ req[c].key \in Key /\ pc[c] = "telling" /\ UNCHANGED <<file, pc, req, failed>> /\ Move(c)
      /\ IF req[c].op = "delete" THEN file[req[c].key] = Absent
         ELSE file[req[c].key] # Absent /\ file[req[c].key].obj = buf[c]
  BY Known DEF Deliver, UnderWayOf, Move, Step
<1>2. view' = [view EXCEPT ![v][req[c].key] = o] /\ tell' = [tell EXCEPT ![c] = @ \ {v}]
  BY DEF Deliver, Sees
<1>3. view \in [Client -> [Key -> Obj \cup {Absent}]] /\ tell \in [Client -> SUBSET Client]
  BY DEF LInv, IInv, TypeOK
<1>4. CASE v = w /\ k = req[c].key
  <2>1. view'[w][k] = o
    BY <1>1, <1>2, <1>3, <1>4
  <2>2. o = IF file'[k] = Absent THEN Absent ELSE file'[k].obj
    BY <1>1, <1>4
  <2> QED
    BY <2>1, <2>2 DEF InSync
<1>5. CASE v # w \/ k # req[c].key
  <2>1. view'[w][k] = view[w][k]
    BY <1>2, <1>3, <1>5
  <2>2. Pending(c, w, k) => Pending(c, w, k)'
    BY <1>1, <1>2, <1>3, <1>5 DEF Pending
  <2> QED
    BY <1>1, <2>1, <2>2, SyncKept DEF LInv
<1> QED
  BY <1>4, <1>5

\* A watching client only reads its events.
LEMMA WatcherWaits ==
    ASSUME IInv, NEW w \in Client, pc[w] = "watching", pc'[w] = "watching"
    PROVE  ~Crash /\ (Move(w) => WatchReceive(w))
<1>1. ~Begin(w) /\ ~Step(w)
  BY DEF Begin, Step, CreateStat, Open, Fill, WriteFails, CreateReadBack, Get, DeleteCheck, DeleteRemove,
         UpdateExists, UpdateRead, NotifyLock, Deliver, Notify, ListReadDir, ListReadFile, WatchStart, WatchStop
<1>2. ~WatchLeave(w) /\ ~Crash
  BY DEF WatchLeave, Goto, Crash, IInv, TypeOK
<1> QED
  BY <1>1, <1>2 DEF Move

\* The remaining steps of c change neither files nor what others know of them.
LEMMA SyncOthers ==
    ASSUME LInv, NEW c \in Client, NEW w \in Client \ {c}, NEW k \in Key, InSync(w, k),
           \/ Begin(c) \/ CreateStat(c) \/ Get(c) \/ DeleteCheck(c) \/ UpdateExists(c) \/ UpdateRead(c) \/ Notify(c)
           \/ ListReadDir(c) \/ ListReadFile(c) \/ WatchStart(c) \/ WatchStop(c)
           \/ WatchReceive(c) \/ WatchLeave(c)
    PROVE  InSync(w, k)'
<1>1. /\ file' = file /\ failed' = failed
      /\ pc[c] \notin {"fill", "readback", "notify"} /\ (pc[c] = "telling" => tell[c] = {})
  BY DEF Begin, CreateStat, Get, DeleteCheck, UpdateExists, UpdateRead, Notify, ListReadDir, ListReadFile,
         WatchStart, WatchStop, WatchReceive, WatchLeave
<1>2. view'[w] = view[w]
  BY DEF Begin, CreateStat, Get, DeleteCheck, UpdateExists, UpdateRead, Notify, ListReadDir, ListReadFile,
         WatchStart, WatchStop, WatchReceive, WatchLeave, LInv, IInv, TypeOK
<1>3. Move(c)
  BY DEF Move, Step
<1> QED
  BY <1>1, <1>2, <1>3, SyncKept DEF Pending, LInv

\* Every step keeps a watcher that knows an object, or is about to be told, in sync.
LEMMA SyncStep ==
    ASSUME LInv, [Next]_vars, NEW w \in Client, NEW k \in Key,
           pc[w] = "watching", pc'[w] = "watching", InSync(w, k)
    PROVE  InSync(w, k)'
<1>1. CASE Tick \/ UNCHANGED vars
  BY <1>1 DEF Tick, vars, local, InSync, Pending
<1>2. ASSUME NEW c \in Client, Move(c) PROVE InSync(w, k)'
  <2>1. CASE c = w
    <3>1. UNCHANGED <<file, pc, req, view, tell, failed>>
      BY <1>2, <2>1, WatcherWaits DEF LInv, WatchReceive
    <3> QED
      BY <3>1 DEF InSync, Pending
  <2>2. CASE c # w
    <3>1. w \in Client \ {c}
      BY <2>2
    <3> QED
      BY <1>2, <3>1, SyncWrite, SyncLock, SyncDeliver, SyncOthers DEF Move, Step
  <2> QED
    BY <2>1, <2>2
<1> QED
  BY <1>1, <1>2, WatcherWaits DEF Next, Move, LInv

\* If no two requests that may change one file overlap, every write and removal that
\* succeeds reaches the watchers, the last one last.
THEOREM WatchersInSync == Spec /\ []Apart => WatchersStayInSync
<1>1. LInv /\ [Next]_vars =>
        [\A w \in Client, k \in Key :
            pc[w] = "watching" /\ pc'[w] = "watching" /\ InSync(w, k) => InSync(w, k)']_vars
  BY SyncStep
<1> QED
  BY <1>1, AloneInit, AloneInv, PTL DEF Spec, WatchersStayInSync

-----------------------------------------------------------------------------
(***************************************************************************)
(* The refinement of ObjectStore.                                          *)
(***************************************************************************)
\* What a key stands for, in terms of its file and of the one request that may be
\* writing it.
StoredFacts(k) ==
    /\ file[k] = Absent => Stored(k) = Absent
    /\ Decodable(file[k]) => Stored(k) = file[k].obj
    /\ \A c \in Client : Writing(c, k) => Stored(k) = buf[c]
    /\ file[k] # Absent /\ ~Decodable(file[k]) /\ (\A c \in Client : ~Writing(c, k)) => Stored(k) = Lost

\* A file with content is not empty.
LEMMA NotEmpty ==
    ASSUME NEW f, Decodable(f)
    PROVE  f # Absent /\ f.len # 0
BY FileStorageAssumption DEF Decodable

\* A file that is being written is empty, and no other request writes it.
LEMMA WriterAlone ==
    ASSUME LInv, NEW c \in Client, NEW k \in Key, Writing(c, k)
    PROVE  /\ file[k] # Absent /\ file[k].len = 0 /\ ~Decodable(file[k])
           /\ \A d \in Client : Writing(d, k) => d = c
<1>1. \A d \in Client : Writing(d, k) => Changing(d) /\ req[d].key = k
  BY KnowsOwn DEF LInv, Writing
<1>2. file[k] # Absent /\ file[k].len = 0
  BY Known DEF Writing, UnderWayOf, LInv, IInv, Holding
<1> QED
  BY <1>1, <1>2, NotEmpty DEF LInv, Apart

AllStored == \A k \in Key : StoredFacts(k)

\* The facts hold.
LEMMA StoredIs == LInv => AllStored
<1> SUFFICES ASSUME LInv, NEW k \in Key PROVE StoredFacts(k)
  BY DEF AllStored
<1> DEFINE W == {c \in Client : Writing(c, k)}
<1>1. /\ file[k] = Absent => Stored(k) = Absent
      /\ Decodable(file[k]) => Stored(k) = file[k].obj
  BY NotEmpty DEF Stored
<1>2. ASSUME NEW c \in Client, Writing(c, k)
      PROVE  Stored(k) = buf[c]
  <2>1. W = {c} /\ file[k] # Absent /\ file[k].len = 0 /\ ~Decodable(file[k])
    BY <1>2, WriterAlone
  <2>2. (CHOOSE d \in W : TRUE) = c
    BY <2>1
  <2> QED
    BY <2>1, <2>2 DEF Stored
<1>3. ASSUME file[k] # Absent, ~Decodable(file[k]), \A c \in Client : ~Writing(c, k)
      PROVE  Stored(k) = Lost
  <2>1. W = {}
    BY <1>3
  <2>2. k \in failed
    BY <1>3 DEF LInv, IInv, TornOnlyWhileWriting, Whole
  <2> QED
    BY <1>3, <2>1, <2>2 DEF Stored
<1> QED
  BY <1>1, <1>2, <1>3 DEF StoredFacts

\* The same, after a step.
LEMMA StoredIsNext == LInv' => AllStored'
BY StoredIs, PTL

\* The mapped state.
Mapped == [k \in Key |-> Stored(k)]

\* A key whose file and writer are not touched stands for what it stood for.
LEMMA StoredKept ==
    ASSUME LInv, LInv', NEW k \in Key, file'[k] = file[k],
           \A d \in Client : Writing(d, k)' <=> Writing(d, k),
           \A d \in Client : Writing(d, k) => buf'[d] = buf[d]
    PROVE  Stored(k)' = Stored(k)
<1>1. StoredFacts(k) /\ StoredFacts(k)'
  BY StoredIs, StoredIsNext DEF AllStored
<1>2. Decodable(file[k])' <=> Decodable(file[k])
  BY DEF Decodable
<1> QED
  BY <1>1, <1>2 DEF AllStored, StoredFacts

\* A step of c that leaves the disk alone and does not fill.
LEMMA MappedKept ==
    ASSUME LInv, LInv', NEW c \in Client, Move(c),
           file' = file, fd' = fd, pc[c] # "fill", pc'[c] # "fill"
    PROVE  Mapped' = Mapped
<1>1. ASSUME NEW k \in Key, NEW d \in Client
      PROVE  (Writing(d, k)' <=> Writing(d, k)) /\ (Writing(d, k) => buf'[d] = buf[d])
  BY OwnStep DEF Writing, LInv
<1>2. \A k \in Key : Stored(k)' = Stored(k)
  BY <1>1, StoredKept
<1> QED
  BY <1>2 DEF Mapped

\* Truncation is the moment of the write: the key stands for what will be filled in.
LEMMA OpenIsPut ==
    ASSUME LInv, LInv', NEW c \in Client, NEW k \in Key, k = req[c].key, Open(c)
    PROVE  Store!Put(k)
<1>1. /\ pc[c] = "open" /\ k \in Key /\ buf[c] \in Obj /\ req' = req /\ buf' = buf
      /\ file' = [file EXCEPT ![k] = [len |-> 0, obj |-> NewObj]]
      /\ fd' = [fd EXCEPT ![c] = TRUE]
      /\ pc' = [pc EXCEPT ![c] = "fill"] /\ Move(c) /\ Changing(c)
  BY Known, KnowsOwn DEF Open, Goto, Move, Step, LInv
<1>2. Writing(c, k)'
  BY <1>1 DEF Writing, LInv, IInv, TypeOK
<1>3. Stored(k)' = buf[c]
  BY <1>1, <1>2, StoredIsNext DEF AllStored, StoredFacts
<1>4. ASSUME Stored(k) \in Obj PROVE Stored(k)'.rv >= Stored(k).rv
  <2>1. \A d \in Client : ~Writing(d, k)
    BY <1>1, KnowsOwn DEF LInv, Apart, Writing
  <2>2. file[k] # Absent /\ Stored(k) # Lost
    BY <1>1, <1>4, StoredIs, FileStorageAssumption DEF AllStored, StoredFacts
  <2>3. Decodable(file[k])
    BY <1>1, <2>1, <2>2, StoredIs DEF AllStored, StoredFacts
  <2>4. Stored(k) = file[k].obj /\ Stored(k).rv <= buf[c].rv
    BY <1>1, <2>3, StoredIs, Known DEF AllStored, StoredFacts, UnderWayOf
  <2>5. \A m, n \in Nat : m <= n => n >= m
    OBVIOUS
  <2>6. Stored(k).rv \in Nat /\ buf[c].rv \in Nat
    BY <1>4, Known DEF Obj
  <2> QED
    BY <1>3, <2>4, <2>5, <2>6
<1>5. ASSUME NEW j \in Key \ {k} PROVE Stored(j)' = Stored(j)
  <2>1. file'[j] = file[j]
    BY <1>1 DEF LInv, IInv, TypeOK
  <2>2. \A d \in Client : Writing(d, j)' <=> Writing(d, j)
    BY <1>1, OwnStep DEF Writing, LInv, IInv, TypeOK
  <2> QED
    BY <1>1, <2>1, <2>2, StoredKept
<1>6. Mapped' = [Mapped EXCEPT ![k] = Mapped'[k]] /\ Mapped'[k] = Stored(k)' /\ Mapped[k] = Stored(k)
  BY <1>1, <1>5 DEF Mapped
<1>7. Mapped'[k] \in Obj /\ (Mapped[k] \in Obj => Mapped'[k].rv >= Mapped[k].rv)
  BY <1>1, <1>3, <1>4, <1>6
<1> QED
  BY <1>6, <1>7 DEF Store!Put, Mapped

\* A step of c that ends its write leaves the other keys what they were.
LEMMA OthersKept ==
    ASSUME LInv, LInv', NEW c \in Client, NEW k \in Key, k = req[c].key, Move(c), pc[c] = "fill",
           \A j \in Key \ {k} : file'[j] = file[j], fd' = [fd EXCEPT ![c] = FALSE], req' = req, buf' = buf
    PROVE  \A j \in Key \ {k} : Stored(j)' = Stored(j)
<1> SUFFICES ASSUME NEW j \in Key \ {k} PROVE Stored(j)' = Stored(j)
  OBVIOUS
<1>1. \A d \in Client \ {c} : pc'[d] = pc[d]
  BY OwnStep DEF LInv
<1>2. \A d \in Client : Writing(d, j)' <=> Writing(d, j)
  BY <1>1 DEF Writing, LInv, IInv, TypeOK
<1> QED
  BY <1>2, StoredKept

\* The write leaves the object the key already stands for.
LEMMA FillIsStutter ==
    ASSUME LInv, LInv', NEW c \in Client, NEW k \in Key, k = req[c].key, Fill(c)
    PROVE  Mapped' = Mapped
<1> DEFINE new == Written(file[k], buf[c])
<1>1. pc[c] = "fill" /\ Writing(c, k) /\ Decodable(new) /\ new.obj = buf[c] /\ Move(c)
  BY WrittenWhole DEF Fill, Move, Step
<1>2. /\ file' = [file EXCEPT ![k] = new] /\ buf' = buf /\ req' = req
      /\ fd' = [fd EXCEPT ![c] = FALSE]
  BY FillAlone DEF Fill
<1>3. Stored(k) = buf[c]
  BY <1>1, StoredIs DEF AllStored, StoredFacts
<1> HIDE DEF new
<1>4. file'[k] = new /\ \A j \in Key \ {k} : file'[j] = file[j]
  BY <1>2 DEF LInv, IInv, TypeOK
<1>5. Stored(k)' = buf[c]
  BY <1>1, <1>4, StoredIsNext DEF AllStored, StoredFacts, Decodable
<1>6. \A j \in Key \ {k} : Stored(j)' = Stored(j)
  BY <1>1, <1>2, <1>4, OthersKept
<1> QED
  BY <1>3, <1>5, <1>6 DEF Mapped

\* A write that fails leaves the key what it stands for, or loses it.
LEMMA FailedIsFailed ==
    ASSUME LInv, LInv', NEW c \in Client, NEW k \in Key, k = req[c].key, WriteFails(c)
    PROVE  Store!FailedWrite(k) \/ Mapped' = Mapped
<1>1. WriteErrors /\ req' = req /\ buf' = buf /\ pc'[c] = "idle" /\ Move(c)
  BY DEF WriteFails, Return, Goto, LInv, IInv, TypeOK, Move, Step
<1>2. CASE pc[c] = "open"
  BY <1>1, <1>2, MappedKept DEF WriteFails
<1>3. CASE pc[c] = "fill"
  <2>1. /\ fd[c] /\ Writing(c, k) /\ file[k] \in File
        /\ Decodable(Written(file[k], buf[c])) /\ Written(file[k], buf[c]).obj = buf[c]
    BY <1>3, WrittenWhole, Known
  <2>2. PICK n \in 0 .. Size[buf[c].val] : file' = [file EXCEPT ![k] = PartlyWritten(@, buf[c], n)]
    BY <1>3, <2>1 DEF WriteFails
  <2>3. fd' = [fd EXCEPT ![c] = FALSE]
    BY <1>3 DEF WriteFails
  <2>4. file'[k] = PartlyWritten(file[k], buf[c], n) /\ \A j \in Key \ {k} : file'[j] = file[j]
    BY <2>2 DEF LInv, IInv, TypeOK
  <2>5. Stored(k) = buf[c] /\ ~Decodable(file[k])
    BY <2>1, StoredIs, WriterAlone DEF AllStored, StoredFacts
  <2>6. \A j \in Key \ {k} : Stored(j)' = Stored(j)
    BY <1>1, <1>3, <2>3, <2>4, OthersKept
  <2>7. CASE file'[k] = Written(file[k], buf[c])
    <3>1. Stored(k)' = buf[c]
      BY <2>1, <2>7, StoredIsNext DEF AllStored, StoredFacts, Decodable
    <3> QED
      BY <2>5, <2>6, <3>1 DEF Mapped
  <2>8. CASE ~Decodable(file'[k])
    <3>1. file'[k] # Absent
      <4>1. buf[c] \in Obj /\ buf[c].val \in Value
        BY <1>3, Known
      <4> QED
        BY <2>1, <2>4, <4>1, PartlyWrittenFacts
    <3>2. \A d \in Client : ~Writing(d, k)'
      <4>1. \A d \in Client \ {c} : pc'[d] = pc[d] /\ fd'[d] = fd[d]
        BY <1>1, <2>3, OwnStep DEF LInv, IInv, TypeOK
      <4>2. \A d \in Client \ {c} : ~Writing(d, k)
        BY <2>1, WriterAlone
      <4> QED
        BY <1>1, <4>1, <4>2 DEF Writing
    <3>3. Stored(k)' = Lost
      BY <2>8, <3>1, <3>2, StoredIsNext DEF AllStored, StoredFacts, Decodable
    <3>4. Mapped' = [Mapped EXCEPT ![k] = Lost]
      BY <2>6, <3>3 DEF Mapped
    <3> QED
      BY <1>1, <3>4 DEF Store!FailedWrite, Mapped
  <2>9. file'[k] = Written(file[k], buf[c]) \/ file'[k] = file[k] \/ file'[k].obj = NewObj
    BY <2>4 DEF PartlyWritten
  <2>10. file'[k].obj = NewObj => ~Decodable(file'[k])
    BY FileStorageAssumption DEF Decodable, NewObj
  <2> QED
    BY <2>5, <2>7, <2>8, <2>9, <2>10
<1> QED
  BY <1>2, <1>3 DEF WriteFails

\* A removal.
LEMMA RemoveIsRemove ==
    ASSUME LInv, LInv', NEW c \in Client, NEW k \in Key, k = req[c].key, DeleteRemove(c)
    PROVE  Store!Remove(k) \/ Mapped' = Mapped
<1>1. k \in Key /\ pc[c] = "remove" /\ req' = req /\ buf' = buf /\ Move(c)
  BY Known DEF DeleteRemove, Move, Step
<1>2. CASE UNCHANGED <<file, fd>>
  <2>1. pc'[c] # "fill"
    BY DEF DeleteRemove, Return, Goto, LInv, IInv, TypeOK
  <2> QED
    BY <1>1, <1>2, <2>1, MappedKept
<1>3. CASE /\ file' = [file EXCEPT ![k] = Absent]
           /\ fd' = [d \in Client |-> fd[d] /\ req[d].key # k]
  <2>1. file'[k] = Absent
    BY <1>1, <1>3 DEF LInv, IInv, TypeOK
  <2>2. Stored(k)' = Absent
    BY <1>1, <2>1, StoredIsNext DEF AllStored, StoredFacts
  <2>3. ASSUME NEW j \in Key \ {k} PROVE Stored(j)' = Stored(j)
    <3>1. file'[j] = file[j]
      BY <1>3 DEF LInv, IInv, TypeOK
    <3>2. pc'[c] # "fill" /\ \A d \in Client \ {c} : pc'[d] = pc[d]
      BY <1>1, OwnStep DEF DeleteRemove, Return, Goto, LInv, IInv, TypeOK
    <3>3. \A d \in Client : Writing(d, j)' <=> Writing(d, j)
      BY <1>1, <1>3, <3>2 DEF Writing
    <3> QED
      BY <1>1, <3>1, <3>3, StoredKept
  <2>4. Mapped' = [Mapped EXCEPT ![k] = Absent]
    BY <1>1, <2>2, <2>3 DEF Mapped
  <2> QED
    BY <2>4 DEF Store!Remove, Mapped
<1> QED
  BY <1>2, <1>3 DEF DeleteRemove

\* A crash loses what was being written.
LEMMA CrashIsCrash ==
    ASSUME LInv, LInv', Crash
    PROVE  Store!Crash
<1> DEFINE K == {k \in Key : \E c \in Client : Writing(c, k)}
<1>1. file' = file /\ Crashes /\ \A c \in Client, k \in Key : ~Writing(c, k)'
  BY DEF Crash, Writing
<1>2. ASSUME NEW k \in Key PROVE Stored(k)' = IF k \in K THEN Lost ELSE Stored(k)
  <2>1. StoredFacts(k) /\ StoredFacts(k)' /\ (Decodable(file[k])' <=> Decodable(file[k]))
    BY <1>1, StoredIs, StoredIsNext DEF AllStored, Decodable
  <2>2. k \in K => file[k] # Absent /\ ~Decodable(file[k])
    BY WriterAlone
  <2> QED
    BY <1>1, <2>1, <2>2 DEF StoredFacts
<1> HIDE DEF K
<1>3. Mapped' = [k \in Key |-> IF k \in K THEN Lost ELSE Mapped[k]]
  BY <1>2 DEF Mapped
<1>4. K \in SUBSET Key
  BY DEF K
<1> QED
  BY <1>1, <1>3, <1>4 DEF Store!Crash, Mapped

\* The other steps of a request do not touch the disk.
LEMMA NoDisk ==
    ASSUME LInv, NEW c \in Client, Move(c), ~Open(c), ~Fill(c), ~WriteFails(c), ~DeleteRemove(c)
    PROVE  file' = file /\ fd' = fd /\ pc[c] # "fill" /\ pc'[c] # "fill"
<1>1. file' = file /\ fd' = fd /\ pc[c] # "fill"
  BY DEF Move, Begin, Step, CreateStat, CreateReadBack, Get, DeleteCheck, UpdateExists, UpdateRead, NotifyLock,
         Deliver, Notify, ListReadDir, ListReadFile, WatchStart, WatchStop, WatchReceive, WatchLeave
<1>2. CASE Begin(c)
  <2>1. PICK r \in Request : pc' = [pc EXCEPT ![c] = FirstCall(r)]
    BY <1>2 DEF Begin, Goto
  <2>2. FirstCall(r) # "fill"
    BY RequestFacts
  <2> QED
    BY <1>1, <2>1, <2>2 DEF LInv, IInv, TypeOK
<1>3. CASE CreateStat(c) \/ CreateReadBack(c) \/ Get(c) \/ DeleteCheck(c)
  BY <1>1, <1>3 DEF CreateStat, CreateReadBack, Get, DeleteCheck, Return, Goto, LInv, IInv, TypeOK
<1>4. CASE UpdateExists(c) \/ UpdateRead(c) \/ Notify(c)
  BY <1>1, <1>4 DEF UpdateExists, UpdateRead, Notify, Continue, Return, Goto, FirstOfPass, LInv, IInv, TypeOK
<1>5. CASE NotifyLock(c) \/ \E w \in Client : Deliver(c, w)
  BY <1>1, <1>5 DEF NotifyLock, Deliver, Goto, LInv, IInv, TypeOK
<1>6. CASE \/ ListReadDir(c) \/ ListReadFile(c) \/ WatchStart(c) \/ WatchStop(c)
           \/ WatchReceive(c) \/ WatchLeave(c)
  BY <1>1, <1>6 DEF ListReadDir, ListReadFile, WatchStart, WatchStop, WatchReceive, WatchLeave, Return, Goto,
     LInv, IInv, TypeOK
<1> QED
  BY <1>2, <1>3, <1>4, <1>5, <1>6 DEF Move, Step

\* Every step is one of the abstract store, or none.
LEMMA StoreStep ==
    ASSUME LInv, LInv', [Next]_vars
    PROVE  Store!Next \/ Mapped' = Mapped
<1>1. ASSUME NEW c \in Client, Move(c)
      PROVE  Store!Next \/ Mapped' = Mapped
  <2>1. req[c].key \in Key
    BY Known
  <2>2. CASE Open(c) \/ WriteFails(c) \/ DeleteRemove(c)
    BY <2>1, <2>2, OpenIsPut, FailedIsFailed, RemoveIsRemove DEF Store!Next
  <2>3. CASE Fill(c)
    BY <2>1, <2>3, FillIsStutter
  <2>4. CASE ~Open(c) /\ ~WriteFails(c) /\ ~DeleteRemove(c) /\ ~Fill(c)
    BY <1>1, <2>4, NoDisk, MappedKept
  <2> QED
    BY <2>2, <2>3, <2>4
<1>2. CASE Crash
  BY <1>2, CrashIsCrash DEF Store!Next
<1>3. CASE Tick \/ UNCHANGED vars
  <2>1. UNCHANGED <<file, local, failed>>
    BY <1>3 DEF Tick, vars, local
  <2>2. \A k \in Key : Stored(k)' = Stored(k)
    BY <2>1 DEF Stored, Writing, Decodable, local
  <2> QED
    BY <2>2 DEF Mapped
<1> QED
  BY <1>1, <1>2, <1>3 DEF Next, Move

\* The file storage keeps the promise of ObjectStore as long as no two requests that
\* may change one file overlap: an object is lost by a write of it that fails, or by a
\* crash, and by nothing else.
THEOREM FilesImplementStore == Spec /\ []Apart => ImplementsObjectStore
<1>1. LInv /\ Init => Store!Init
  BY StoredIs DEF Store!Init, AllStored, StoredFacts, Init
<1>2. LInv /\ LInv' /\ [Next]_vars => [Store!Next]_Mapped
  BY StoreStep
<1> QED
  BY <1>1, <1>2, AloneInit, AloneInv, PTL DEF Spec, ImplementsObjectStore, Store!Spec, Mapped
=============================================================================
