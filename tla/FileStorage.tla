---------------------------- MODULE FileStorage ----------------------------
(***************************************************************************)
(* The file backend (pkg/storage/filepath): a storage.Interface that keeps *)
(* every object in a JSON file of its own.  Nothing in Storage is locked,  *)
(* so requests of different clients interleave at every file-system call.  *)
(* (In Get and Delete exists and the readFile after it are one step: in    *)
(* between the file could only go away, which readFile reports as well,    *)
(* with another error.)  A request is a record; pc[c] is the next          *)
(* file-system call of the request client c has in progress, or the lock   *)
(* or channel of the watch set it waits for.                               *)
(*                                                                         *)
(* An object is its content (val, whose encoding has Size[val] bytes) and  *)
(* its resource version.  A file is what is on disk: its length and the    *)
(* object written last at offset 0.  It decodes only if the length is that *)
(* object's: 0 bytes after the O_TRUNC of os.WriteFile, too many bytes     *)
(* after a shorter object was written over a longer one.                   *)
(***************************************************************************)
EXTENDS Integers, FiniteSets

CONSTANTS
    Client,             \* requests in flight at the same time, one per client
    Key,                \* file names
    Value,              \* object contents
    NoValue,            \* the content of an object made by newFunc()
    Absent,             \* no such file
    Lost,               \* a file whose content is gone (refinement mapping only)
    Damaged,            \* a file no single write produced (likewise)
    Size,               \* [Value -> Nat \ {0}], length of the encoding
    Allowed,            \* [Client -> SUBSET Op], what a client asks for
    MaxUpdateAttempts,  \* 30 in the code
    MaxClock,           \* bound on the milliseconds that pass
    KindsGroup,         \* the storage is the one of GRDs (kinds.GroupName)
    Crashes,            \* the process may die
    WriteErrors         \* writing a file may fail: no space, no descriptors

UpdateOp == {"put", "patch", "apply", "inplace"}
Op == {"create", "get", "delete", "list", "watch"} \cup UpdateOp

Clock == 1 .. MaxClock
Obj == [val : Value \cup {NoValue}, rv : Nat]
File == [len : Nat, obj : Obj]

\* The object newFunc() returns: no content, resource version 0.
NewObj == [val |-> NoValue, rv |-> 0]

ASSUME FileStorageAssumption ==
    /\ Absent \notin File \cup Obj
    /\ {Lost, Damaged} \cap (Obj \cup {Absent}) = {}
    /\ Lost # Damaged
    /\ NoValue \notin Value
    /\ Size \in [Value -> Nat \ {0}]
    /\ Allowed \in [Client -> SUBSET Op]
    /\ MaxUpdateAttempts \in Nat \ {0}
    /\ MaxClock \in Nat \ {0}
    /\ KindsGroup \in BOOLEAN /\ Crashes \in BOOLEAN /\ WriteErrors \in BOOLEAN

(***************************************************************************)
(* What a client may ask for.  rv is the resource version of a put (the    *)
(* version the client read), of the precondition of a delete or of an      *)
(* in-place update (0: none), or the ListOptions.ResourceVersion of a list *)
(* or watch (0: "0").  The four updates are the tryUpdate functions the    *)
(* registries pass to GuaranteedUpdate: put (of a PUT), patch, apply (a    *)
(* server-side apply, which may create), and inplace (changes the object   *)
(* it is given and returns it: storage.SimpleUpdate of the GRD registry's  *)
(* Delete, and the generic store's deletion with finalizers).              *)
(***************************************************************************)
Request ==
    [op : {"create", "patch", "apply"}, key : Key, val : Value, rv : {0}]
    \cup [op : {"put"}, key : Key, val : Value, rv : Clock]
    \cup [op : {"inplace"}, key : Key, val : Value, rv : {0} \cup Clock]
    \cup [op : {"get"}, key : Key, val : {NoValue}, rv : {0}]
    \cup [op : {"delete", "list", "watch"}, key : Key, val : {NoValue}, rv : {0} \cup Clock]

PC == {"idle", "stat", "open", "fill", "readback", "notify", "telling", "exists",
       "read", "get", "check", "remove", "scan", "scanning", "register", "watching",
       "stopping"}

Result == {"none", "ok", "AlreadyExists", "NotFound", "Conflict", "Decode",
           "Rejected", "NotExist", "WriteError"}

VARIABLES
    file,     \* [Key -> File \cup {Absent}]: the disk
    clock,    \* the time in milliseconds
    pc, req,  \* per client: where it is, what it asked for
    buf,      \* per client: out / updatedObj / destination
    fd,       \* per client: its open file is (still) the one at the key's path
    attempt,  \* per client: the loop counter of GuaranteedUpdate
    todo,     \* per client: directory entries its list has yet to read
    view,     \* per client: what its list returned and its watch was sent
    tell,     \* per client: watchers its notification has yet to reach
    busy,     \* per client: its watch holds an event the client has yet to read
    res,      \* per client: what the last request returned
    wrote,    \* history: the request has written its object to the key's file
    failed    \* history: keys whose last write failed or was cut off by a crash

watch == <<tell, busy>>
vars == <<file, clock, pc, req, buf, fd, attempt, todo, view, watch, res, wrote, failed>>
local == <<pc, req, buf, fd, attempt, todo, view, watch, res, wrote>>

TypeOK ==
    /\ file \in [Key -> File \cup {Absent}]
    /\ clock \in Nat
    /\ pc \in [Client -> PC]
    /\ req \in [Client -> Request]
    /\ buf \in [Client -> Obj]
    /\ fd \in [Client -> BOOLEAN]
    /\ attempt \in [Client -> 1 .. MaxUpdateAttempts]
    /\ todo \in [Client -> SUBSET Key]
    /\ view \in [Client -> [Key -> Obj \cup {Absent}]]
    /\ tell \in [Client -> SUBSET Client]
    /\ busy \in [Client -> BOOLEAN]
    /\ res \in [Client -> Result]
    /\ wrote \in [Client -> BOOLEAN]
    /\ failed \in SUBSET Key

NoItems == [k \in Key |-> Absent]

Init ==
    /\ file = [k \in Key |-> Absent]
    /\ clock = 1
    /\ pc = [c \in Client |-> "idle"]
    /\ req \in [Client -> {r \in Request : r.op = "get"}]
    /\ buf = [c \in Client |-> NewObj]
    /\ fd = [c \in Client |-> FALSE]
    /\ attempt = [c \in Client |-> 1]
    /\ todo = [c \in Client |-> {}]
    /\ view = [c \in Client |-> NoItems]
    /\ tell = [c \in Client |-> {}]
    /\ busy = [c \in Client |-> FALSE]
    /\ res = [c \in Client |-> "none"]
    /\ wrote = [c \in Client |-> FALSE]
    /\ failed = {}

-----------------------------------------------------------------------------
\* readFile succeeds: the file is there and codec.Decode accepts its bytes.
Decodable(f) == f # Absent /\ f.obj.val \in Value /\ f.len = Size[f.obj.val]

\* An object gets its resource version from a snowflake node made for the call:
\* node id and sequence number never change, only the millisecond does.
getResourceVersion == clock

Goto(c, p) == pc' = [pc EXCEPT ![c] = p]

Return(c, r) == Goto(c, "idle") /\ res' = [res EXCEPT ![c] = r]

\* A pass of GuaranteedUpdate starts with exists, whose answer only matters if
\* ignoreNotFound is false: for in-place updates.
FirstOfPass(r) == IF r.op = "inplace" THEN "exists" ELSE "read"

FirstCall(r) ==
    CASE r.op = "create" -> "stat"
      [] r.op = "get" -> "get"
      [] r.op = "delete" -> "check"
      [] r.op \in UpdateOp -> FirstOfPass(r)
      [] r.op = "watch" /\ r.rv # 0 -> "register"
      [] OTHER -> "scan"

\* A request arrives.  A watch from a version other than "0" continues a list
\* the client did before, so what that list returned is kept.
Begin(c) ==
    /\ pc[c] = "idle"
    /\ \E r \in Request :
        /\ r.op \in Allowed[c]
        /\ r.rv <= clock
        /\ req' = [req EXCEPT ![c] = r]
        /\ Goto(c, FirstCall(r))
        /\ view' = [view EXCEPT ![c] = IF r.op = "watch" /\ r.rv # 0 THEN @ ELSE NoItems]
    /\ buf' = [buf EXCEPT ![c] = NewObj]
    /\ attempt' = [attempt EXCEPT ![c] = 1]
    /\ res' = [res EXCEPT ![c] = "none"]
    /\ wrote' = [wrote EXCEPT ![c] = FALSE]
    /\ UNCHANGED <<file, clock, fd, todo, watch, failed>>

-----------------------------------------------------------------------------
(* Create, up to the write. *)

CreateStat(c) ==
    /\ pc[c] = "stat"
    /\ \/ /\ file[req[c].key] # Absent
          /\ Return(c, "AlreadyExists")
          /\ UNCHANGED buf
       \/ /\ file[req[c].key] = Absent
          /\ buf' = [buf EXCEPT ![c] = [val |-> req[c].val, rv |-> getResourceVersion]]
          /\ Goto(c, "open")
          /\ UNCHANGED res
    /\ UNCHANGED <<file, clock, req, fd, attempt, todo, view, watch, wrote, failed>>

(* writeFile = os.WriteFile: open with O_CREATE|O_TRUNC, then write. *)

\* Seeded fault: open without O_TRUNC.
OpenWithoutTruncation(c) ==
    /\ pc[c] = "open"
    /\ file' = [file EXCEPT ![req[c].key] = IF @ = Absent THEN [len |-> 0, obj |-> NewObj] ELSE @]
    /\ fd' = [fd EXCEPT ![c] = TRUE]
    /\ failed' = failed \ {req[c].key}
    /\ Goto(c, "fill")
    /\ UNCHANGED <<clock, req, buf, attempt, todo, view, watch, res, wrote>>

Open(c) ==
    /\ pc[c] = "open"
    /\ file' = [file EXCEPT ![req[c].key] = [len |-> 0, obj |-> NewObj]]
    /\ fd' = [fd EXCEPT ![c] = TRUE]
    /\ failed' = failed \ {req[c].key}
    /\ Goto(c, "fill")
    /\ UNCHANGED <<clock, req, buf, attempt, todo, view, watch, res, wrote>>

\* Seeded fault: the error of the write is ignored.
WriteIgnored(f, o) == f

\* The bytes go to offset 0 of the file that was opened.  If it was removed
\* since, nobody will ever see them.
Written(f, o) == [len |-> IF f.len > Size[o.val] THEN f.len ELSE Size[o.val], obj |-> o]

Fill(c) ==
    /\ pc[c] = "fill"
    /\ file' = IF fd[c] THEN [file EXCEPT ![req[c].key] = Written(@, buf[c])] ELSE file
    /\ wrote' = [wrote EXCEPT ![c] = @ \/ fd[c]]
    /\ fd' = [fd EXCEPT ![c] = FALSE]
    /\ Goto(c, IF req[c].op = "create" THEN "readback" ELSE "notify")
    /\ UNCHANGED <<clock, req, buf, attempt, todo, view, watch, res, failed>>

\* What is in the file after n of the bytes: not an object, unless none or all
\* of them were written.
PartlyWritten(f, o, n) ==
    CASE n = 0 -> f
      [] n = Size[o.val] -> Written(f, o)
      [] OTHER -> [len |-> IF f.len > n THEN f.len ELSE n, obj |-> NewObj]

\* writeFile fails: before the file is open nothing has happened to it; later it
\* is truncated, some of the bytes are there (all, if it is closing the file that
\* fails), and there it stays.  Create and GuaranteedUpdate return the error, no
\* watcher hears of anything.
WriteFails(c) ==
    /\ WriteErrors
    /\ \/ /\ pc[c] = "open"
          /\ UNCHANGED <<file, fd, failed>>
       \/ /\ pc[c] = "fill"
          /\ \E n \in 0 .. Size[buf[c].val] :
                file' = IF fd[c] THEN [file EXCEPT ![req[c].key] = PartlyWritten(@, buf[c], n)] ELSE file
          /\ failed' = IF fd[c] THEN failed \cup {req[c].key} ELSE failed
          /\ fd' = [fd EXCEPT ![c] = FALSE]
    /\ Return(c, "WriteError")
    /\ UNCHANGED <<clock, req, buf, attempt, todo, view, watch, wrote>>

-----------------------------------------------------------------------------
\* Get: the object at the key, which is also the `out' of Create and Delete.
GetOutcome(k) ==
    CASE file[k] = Absent -> "NotFound"
      [] Decodable(file[k]) -> "ok"
      [] OTHER -> "Decode"

\* The Get at the end of Create.  Its error is Create's, and then no watcher
\* hears of the object.
CreateReadBack(c) ==
    /\ pc[c] = "readback"
    /\ LET k == req[c].key IN
       \/ /\ GetOutcome(k) = "ok"
          /\ buf' = [buf EXCEPT ![c] = file[k].obj]
          /\ Goto(c, "notify")
          /\ UNCHANGED res
       \/ /\ GetOutcome(k) # "ok"
          /\ Return(c, GetOutcome(k))
          /\ UNCHANGED buf
    /\ UNCHANGED <<file, clock, req, fd, attempt, todo, view, watch, wrote, failed>>

Get(c) ==
    /\ pc[c] = "get"
    /\ LET k == req[c].key IN
       /\ Return(c, GetOutcome(k))
       /\ buf' = [buf EXCEPT ![c] = IF GetOutcome(k) = "ok" THEN file[k].obj ELSE @]
    /\ UNCHANGED <<file, clock, req, fd, attempt, todo, view, watch, wrote, failed>>

-----------------------------------------------------------------------------
(* Delete. *)

PreconditionFails(r, o) == r.rv # 0 /\ r.rv # o.rv

\* exists, Get, preconditions.Check and validateDeletion (which may refuse).
DeleteCheck(c) ==
    /\ pc[c] = "check"
    /\ LET k == req[c].key IN
       \/ /\ GetOutcome(k) # "ok"
          /\ Return(c, GetOutcome(k))
          /\ UNCHANGED buf
       \/ /\ GetOutcome(k) = "ok"
          /\ buf' = [buf EXCEPT ![c] = file[k].obj]
          /\ \/ PreconditionFails(req[c], file[k].obj) /\ Return(c, "Conflict")
             \/ ~PreconditionFails(req[c], file[k].obj) /\ Return(c, "Rejected")
             \/ /\ ~PreconditionFails(req[c], file[k].obj)
                /\ Goto(c, "remove")
                /\ UNCHANGED res
    /\ UNCHANGED <<file, clock, req, fd, attempt, todo, view, watch, wrote, failed>>

\* deleteFile = os.Remove.  Files others have open lose their name.
DeleteRemove(c) ==
    /\ pc[c] = "remove"
    /\ LET k == req[c].key IN
       \/ /\ file[k] = Absent
          /\ Return(c, "NotExist")
          /\ UNCHANGED <<file, fd, failed>>
       \/ /\ file[k] # Absent
          /\ file' = [file EXCEPT ![k] = Absent]
          /\ fd' = [d \in Client |-> fd[d] /\ req[d].key # k]
          /\ failed' = failed \ {k}
          /\ Goto(c, "notify")
          /\ UNCHANGED res
    /\ UNCHANGED <<clock, req, buf, attempt, todo, view, watch, wrote>>

-----------------------------------------------------------------------------
(* GuaranteedUpdate. *)

\* Seeded fault: nobody asks whether the object exists.
TryErrorIgnoringAbsence(r, o) ==
    IF r.op \in {"put", "inplace"} /\ PreconditionFails(r, o) THEN "Conflict" ELSE "ok"

\* The error of the preconditions or of tryUpdate(o), "ok" if there is none.
TryError(r, o) ==
    CASE r.op \in {"put", "patch"} /\ o.rv = 0 -> "NotFound"
      [] r.op \in {"put", "inplace"} /\ PreconditionFails(r, o) -> "Conflict"
      [] OTHER -> "ok"

\* What a tryUpdate(o) that does not fail returns.
TryUpdate(r, o) == [val |-> r.val, rv |-> o.rv]

\* isUnchanged compares encodings after tryUpdate ran: an object changed in
\* place is compared with itself.
isUnchanged(r, o) == r.op = "inplace" \/ TryUpdate(r, o) = o

\* Seeded fault: one attempt too many.
ContinueOffByOne(c, err) ==
    \/ /\ attempt[c] <= MaxUpdateAttempts
       /\ attempt' = [attempt EXCEPT ![c] = @ + 1]
       /\ Goto(c, FirstOfPass(req[c]))
       /\ UNCHANGED res
    \/ /\ attempt[c] > MaxUpdateAttempts
       /\ Return(c, err)
       /\ UNCHANGED attempt

\* Seeded fault: attempts are not counted.
ContinueForever(c, err) == Goto(c, FirstOfPass(req[c])) /\ UNCHANGED <<attempt, res>>

\* The loop continues, or ends with err once it has run MaxUpdateAttempts times.
Continue(c, err) ==
    \/ /\ attempt[c] < MaxUpdateAttempts
       /\ attempt' = [attempt EXCEPT ![c] = @ + 1]
       /\ Goto(c, FirstOfPass(req[c]))
       /\ UNCHANGED res
    \/ /\ attempt[c] >= MaxUpdateAttempts
       /\ Return(c, err)
       /\ UNCHANGED attempt

UpdateExists(c) ==
    /\ pc[c] = "exists"
    /\ \/ file[req[c].key] = Absent /\ Return(c, "NotFound")
       \/ file[req[c].key] # Absent /\ Goto(c, "read") /\ UNCHANGED res
    /\ UNCHANGED <<file, clock, req, buf, fd, attempt, todo, view, watch, wrote, failed>>

\* The rest of a pass up to the write.  A file that does not decode, or is not
\* there (any more), is taken for a new object.
UpdateRead(c) ==
    /\ pc[c] = "read"
    /\ LET r == req[c]
           f == file[r.key]
           o == IF Decodable(f) THEN f.obj ELSE NewObj
       IN \/ /\ TryError(r, o) # "ok"
             /\ Continue(c, TryError(r, o))
             /\ UNCHANGED buf
          \/ /\ TryError(r, o) = "ok" /\ isUnchanged(r, o)
             /\ buf' = [buf EXCEPT ![c] = TryUpdate(r, o)]
             /\ Return(c, "ok")
             /\ UNCHANGED attempt
          \/ /\ TryError(r, o) = "ok" /\ ~isUnchanged(r, o)
             /\ buf' = [buf EXCEPT ![c] = [TryUpdate(r, o) EXCEPT !.rv = getResourceVersion]]
             /\ Goto(c, "open")
             /\ UNCHANGED <<attempt, res>>
    /\ UNCHANGED <<file, clock, req, fd, todo, view, watch, wrote, failed>>

-----------------------------------------------------------------------------
(***************************************************************************)
(* watchSet.notifyWatchers.  Module WatchSet has the lock, the channels    *)
(* and the goroutines one by one; here a watch is a slot for one event,    *)
(* the one its forwarder holds until the client has read it.  The read     *)
(* lock is held by the clients at "telling" and is not granted while       *)
(* somebody waits for the write lock, in Start ("register") or in Stop     *)
(* ("stopping").                                                           *)
(***************************************************************************)
NotifyLock(c) ==
    /\ pc[c] = "notify"
    /\ \A w \in Client : pc[w] \notin {"register", "stopping"}
    /\ tell' = [tell EXCEPT ![c] = {w \in Client : pc[w] = "watching"}]
    /\ Goto(c, "telling")
    /\ UNCHANGED <<file, clock, req, buf, fd, attempt, todo, view, busy, res, wrote, failed>>

\* Seeded fault: deletions are not announced.
SeesPutsOnly(c, w) ==
    view' = [view EXCEPT ![w][req[c].key] = IF req[c].op = "delete" THEN @ ELSE buf[c]]

\* What the event of c makes of what w knows.  ADDED and MODIFIED are the same.
Sees(c, w) ==
    view' = [view EXCEPT ![w][req[c].key] = IF req[c].op = "delete" THEN Absent ELSE buf[c]]

\* The send on w's unbuffered updateCh waits until its forwarder is done with the
\* event before: until the client has read that one.
Deliver(c, w) ==
    /\ pc[c] = "telling" /\ w \in tell[c] /\ ~busy[w]
    /\ Sees(c, w)
    /\ tell' = [tell EXCEPT ![c] = @ \ {w}]
    /\ busy' = [busy EXCEPT ![w] = TRUE]
    /\ UNCHANGED <<file, clock, pc, req, buf, fd, attempt, todo, res, wrote, failed>>

\* Create and Delete return after they notified; GuaranteedUpdate goes round
\* its loop once more, and the object it wrote is not yet its destination.
Notify(c) ==
    /\ pc[c] = "telling" /\ tell[c] = {}
    /\ \/ /\ req[c].op \in UpdateOp
          /\ Continue(c, "ok")
          /\ buf' = [buf EXCEPT ![c] = NewObj]
       \/ /\ req[c].op \notin UpdateOp
          /\ Return(c, "ok")
          /\ UNCHANGED <<attempt, buf>>
    /\ UNCHANGED <<file, clock, req, fd, todo, view, watch, wrote, failed>>

-----------------------------------------------------------------------------
(* GetList and Watch. *)

\* os.ReadDir (one directory stands for those of all namespaces).
ListReadDir(c) ==
    /\ pc[c] = "scan"
    /\ todo' = [todo EXCEPT ![c] = {k \in Key : file[k] # Absent}]
    /\ Goto(c, "scanning")
    /\ UNCHANGED <<file, clock, req, buf, fd, attempt, view, watch, res, wrote, failed>>

\* An object at least as new as the version that was asked for.
validateMinimumResourceVersion(rv, o) == rv <= o.rv

\* The entries are read one by one; one that cannot be read fails the list, one
\* older than the requested version is left out.  The items go through getItems
\* when the list is the start of a watch: it returns none for a list of GRDs.
ListReadFile(c) ==
    /\ pc[c] = "scanning"
    /\ \/ \E k \in todo[c] :
          \/ /\ ~Decodable(file[k])
             /\ Return(c, IF file[k] = Absent THEN "NotExist" ELSE "Decode")
             /\ todo' = [todo EXCEPT ![c] = {}]
             /\ UNCHANGED view
          \/ /\ Decodable(file[k])
             /\ todo' = [todo EXCEPT ![c] = @ \ {k}]
             /\ view' = [view EXCEPT ![c][k] =
                   IF validateMinimumResourceVersion(req[c].rv, file[k].obj) THEN file[k].obj ELSE @]
             /\ UNCHANGED <<pc, res>>
       \/ /\ todo[c] = {} /\ req[c].op = "list"
          /\ Return(c, "ok")
          /\ UNCHANGED <<todo, view>>
       \/ /\ todo[c] = {} /\ req[c].op = "watch"
          /\ Goto(c, "register")
          /\ view' = [view EXCEPT ![c] = IF KindsGroup THEN NoItems ELSE @]
          /\ UNCHANGED <<todo, res>>
    /\ UNCHANGED <<file, clock, req, buf, fd, attempt, watch, wrote, failed>>

NobodyTells == \A c \in Client : pc[c] # "telling"

\* watchNode.Start: under the write lock the watch joins the set, and its
\* forwarder has the initial events to get rid of first.  (newWatch takes the
\* lock for a moment, too, before the list.)
WatchStart(c) ==
    /\ pc[c] = "register" /\ NobodyTells
    /\ Goto(c, "watching")
    /\ busy' = [busy EXCEPT ![c] = req[c].rv = 0 /\ view[c] # NoItems]
    /\ UNCHANGED <<file, clock, req, buf, fd, attempt, todo, view, tell, res, wrote, failed>>

\* The client of a watch reads an event from outCh.
WatchReceive(w) ==
    /\ pc[w] = "watching" /\ busy[w]
    /\ busy' = [busy EXCEPT ![w] = FALSE]
    /\ UNCHANGED <<file, clock, pc, req, buf, fd, attempt, todo, view, tell, res, wrote, failed>>

\* The client goes away: its handler stops reading and calls watchNode.Stop,
\* which needs the write lock.
WatchLeave(w) ==
    /\ pc[w] = "watching"
    /\ Goto(w, "stopping")
    /\ UNCHANGED <<file, clock, req, buf, fd, attempt, todo, view, watch, res, wrote, failed>>

WatchStop(c) ==
    /\ pc[c] = "stopping" /\ NobodyTells
    /\ Return(c, "ok")
    /\ busy' = [busy EXCEPT ![c] = FALSE]
    /\ UNCHANGED <<file, clock, req, buf, fd, attempt, todo, view, tell, wrote, failed>>

-----------------------------------------------------------------------------
\* The process dies and is started again: only the disk survives.
Crash ==
    /\ Crashes
    /\ pc' = [c \in Client |-> "idle"]
    /\ buf' = [c \in Client |-> NewObj]
    /\ fd' = [c \in Client |-> FALSE]
    /\ attempt' = [c \in Client |-> 1]
    /\ todo' = [c \in Client |-> {}]
    /\ view' = [c \in Client |-> NoItems]
    /\ tell' = [c \in Client |-> {}]
    /\ busy' = [c \in Client |-> FALSE]
    /\ res' = [c \in Client |-> "none"]
    /\ wrote' = [c \in Client |-> FALSE]
    /\ failed' = failed \cup {k \in Key : file[k] # Absent /\ file[k].len = 0}
    /\ UNCHANGED <<file, clock, req>>

Tick ==
    /\ clock < MaxClock
    /\ clock' = clock + 1
    /\ UNCHANGED <<file, local, failed>>

\* A step of a request in progress.
Step(c) ==
    \/ CreateStat(c) \/ Open(c) \/ Fill(c) \/ WriteFails(c) \/ CreateReadBack(c)
    \/ Get(c)
    \/ DeleteCheck(c) \/ DeleteRemove(c)
    \/ UpdateExists(c) \/ UpdateRead(c)
    \/ NotifyLock(c) \/ (\E w \in Client : Deliver(c, w)) \/ Notify(c)
    \/ ListReadDir(c) \/ ListReadFile(c) \/ WatchStart(c) \/ WatchStop(c)

Next ==
    \/ \E c \in Client : Begin(c) \/ Step(c) \/ WatchReceive(c) \/ WatchLeave(c)
    \/ Crash
    \/ Tick

Spec == Init /\ [][Next]_vars

\* The Go scheduler runs every goroutine that is not blocked, and the client of a
\* watch reads until it goes away; nobody has to ask for anything or to leave.
FairSpec == Spec /\ \A c \in Client : WF_vars(Step(c)) /\ WF_vars(WatchReceive(c))

-----------------------------------------------------------------------------
(***************************************************************************)
(* Properties.                                                             *)
(***************************************************************************)

\* c has truncated the file at k and not yet written to it.
Writing(c, k) == pc[c] = "fill" /\ fd[c] /\ req[c].key = k

\* However many writers there are, a file is empty only between a writer's open and
\* its write, unless the write failed or the process died there.  (Whoever reads it
\* then gets an error; the writer whose write failed has got one.)
TornOnlyWhileWriting ==
    \A k \in Key : file[k] # Absent /\ file[k].len = 0
        => k \in failed \/ \E c \in Client : Writing(c, k)

\* The file at k is under the hands of c: it is writing or has written or removed
\* it, and w is one of the watchers c has yet to tell.
Pending(c, w, k) ==
    /\ req[c].key = k
    /\ \/ pc[c] \in {"fill", "readback", "notify"}
       \/ pc[c] = "telling" /\ w \in tell[c]

\* The watcher w knows what is on disk at k, or is about to be told, or the write
\* failed: that no watcher is told.
InSync(w, k) ==
    \/ view[w][k] = IF file[k] = Absent THEN Absent ELSE file[k].obj
    \/ \E c \in Client : Pending(c, w, k)
    \/ k \in failed

\* A watcher that knows the object at a key never silently loses track of it:
\* every write and removal that succeeds reaches it before the request is over,
\* the last one last, and after a failed write the next one that succeeds does.
WatchersStayInSync ==
    [][\A w \in Client, k \in Key :
          pc[w] = "watching" /\ pc'[w] = "watching" /\ InSync(w, k) => InSync(w, k)']_vars

\* c is in the middle of a request.
InProgress(c) == pc[c] \notin {"idle", "watching"}

\* Every request returns, as GuaranteedUpdate gives up after MaxUpdateAttempts and
\* watchers read their events; or else the client of a watch has gone away just when
\* an event was on its way to it, and its Stop, the writer and all who need the lock
\* after them wait for one another (the run watch_set_stuck of WatchSet).
RequestsReturn ==
    \A c \in Client : InProgress(c) ~> ~InProgress(c) \/ \E w \in Client : pc[w] = "stopping"

\* A file that a failed write or a crash left unreadable is not made worse: create
\* and delete refuse it, put and patch take the object for missing, and only an
\* apply, which may create objects, writes to it.
UnreadableUntilApplied ==
    [][\A k \in failed : ~Decodable(file[k]) /\ file'[k] # file[k]
          => \E c \in Client : pc[c] = "open" /\ req[c].key = k /\ req[c].op = "apply"]_vars

\* The object a key stands for: the file's, or, from the moment a writer has
\* truncated it, the one that writer is about to put there.
Stored(k) ==
    LET W == {c \in Client : Writing(c, k)}
    IN  CASE file[k] = Absent -> Absent
          [] Decodable(file[k]) -> file[k].obj
          [] file[k] # Absent /\ file[k].len = 0 /\ W # {} -> buf[CHOOSE c \in W : TRUE]
          [] file[k] # Absent /\ ~Decodable(file[k]) /\ k \in failed /\ W = {} -> Lost
          [] OTHER -> Damaged

\* With one writer per key the storage keeps the promise of ObjectStore: no
\* request that succeeds leaves a partial object behind, versions never go back,
\* and only a write that fails or a crash in the middle of one loses an object.
Store == INSTANCE ObjectStore WITH store <- [k \in Key |-> Stored(k)]
ImplementsObjectStore == Store!Spec

-----------------------------------------------------------------------------
(* What the comments of storage.go say and the code does not do: TLC refutes each. *)

\* storage.go:386 "retrying the update until success": a put that has stored
\* its object does not go on to return an error.
StoredPutSucceeds ==
    \A c \in Client : req[c].op = "put" /\ wrote[c] /\ pc[c] = "idle" => res[c] \in {"ok", "none"}

\* storage.go:385-389: the update is retried "if there is index conflict", and
\* tryUpdate takes "into account the current contents of the object": what a put
\* overwrites is the version that its client read.
PutReplacesItsBase ==
    [][\A c \in Client : pc[c] = "open" /\ pc'[c] = "fill" /\ req[c].op = "put"
          => Decodable(file[req[c].key]) /\ file[req[c].key].obj.rv = req[c].rv]_vars

\* storage.go:391-394: destination is set, to the zero value, to what is stored, or
\* to the new object: an update that returns no error returns an object that has
\* been on disk.
UpdateReturnsObject ==
    [][\A c \in Client : req[c].op \in UpdateOp /\ pc[c] # "idle" /\ pc'[c] = "idle" /\ res'[c] = "ok"
          => buf'[c] # NewObj]_vars

\* storage.go:255: Get "treats empty responses [...] exactly like a not found error".
EmptyIsNotFound ==
    [][\A c \in Client : pc[c] = "get" /\ pc'[c] = "idle" /\ res'[c] # "none"
          => (file[req[c].key] # Absent /\ file[req[c].key].len = 0 => res'[c] = "NotFound")]_vars

\* storage.go:190-191: a watch from version "0" "will get current object at given key
\* and send it in an "ADDED" event, before watch starts": when it starts, it knows, or
\* is about to be told, what is on disk.
WatchStartsInSync ==
    [][\A w \in Client, k \in Key :
          pc[w] = "register" /\ pc'[w] = "watching" /\ req[w].rv = 0 => InSync(w, k)']_vars
=============================================================================
