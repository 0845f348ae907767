# A TLA+ model of grafana-apiserver

grafana-apiserver serves resources whose types are defined at run time by
GrafanaResourceDefinitions (GRDs), the way Kubernetes serves custom resources.
This project models the parts of it that keep state and run concurrently, checks
them with TLC on small instances, and proves every safety property of those
runs with TLAPS for all instances. File names without a directory are those under `src/pkg`.

## The system

| Part | State | Operations | Hard about it |
| --- | --- | --- | --- |
| File storage, `storage/filepath/storage.go`, `util.go` | one JSON file per object | Create, Get, Delete, GetList, Watch, GuaranteedUpdate | no lock at all: requests interleave at every file-system call; truncate-then-write, which may fail or be cut off in between; a retry loop; versions from the clock; notifications that wait for watchers |
| Watch fan-out, `storage/filepath/watchset.go` | map of watches under an RWMutex, two unbuffered channels and a goroutine per watch | newWatch, Start, Stop, notifyWatchers, cleanupWatchers | sends inside a lock; close after unlock; cleanup without lock |
| NamingConditionController, `controller/status` | work queue, one worker, mutation cache | event handlers, sync | decides on a lister that lags; optimistic updates that may be refused |
| EstablishingController, `controller/establish` | delaying work queue | QueueGRD, sync | races with naming for the same status |
| GRD registry, `registry/grafanaresourcedefinition` | the stored GRDs | strategies, two-phase Delete, status update | a delete that first adds a finalizer, in place |
| Finalizer, `controller/finalizer` | work queue | sync, deleteInstances | creation of instances during deletion; finalizers of others; swallowed conflicts; filtered events |
| Request handler, `apiserver/grafanaresource_handler.go` | copy-on-write map of storages, wait groups | ServeHTTP, event handlers, removeDeadStorage, tearDown, destroy | requests in flight on a storage that is torn down |
| Discovery, `apiserver/grafanaresource_discovery*.go` | maps of discovery documents | sync per group-version | an initial pass and a worker; moves between versions |
| API registration, `controller/apiregistration` | desired APIServices, what existed at start | sync, checkAPIService | two controllers and a remote API server |
| API approval, `controller/apiapproval` | last annotation seen | sync | cached value read before and written after an update |
| Instance registry, `registry/grafanaresource`, `runtime` | the stored instances | strategies, status | generation and status from copies read earlier; no conversion between versions |
| Definition types, `apis/kinds/v1` | none | defaults, conversions | run at every read and write |
| Certificate generator, `certgenerator` | files | create and load CA, server and client pairs | a crash between two files |

How they interact: a client's request goes through the generic registry store of
k8s.io/apiserver (outside this repository) to a storage; on the file backend that is
`filepath.Storage`, which tells its WatchSet about every change.  The controllers and
the handler share one informer of GRDs: they are called on its events, read its
lister, and write back with UpdateStatus, which is accepted only if it is based on
the stored version.  The handler's update event feeds the EstablishingController; the
finalizer asks the handler for the storage of the instances; tearing down a storage
runs cleanupWatchers.

What makes each part correct: no request that succeeds leaves a partial object in the storage,
versions never go back, watchers are kept up to date and requests return; the fan-out delivers every
selected event once and in order, never sends on a closed channel and does not block;
no two GRDs hold the same name, names that are free are granted, Established is reached
and never taken back; deleting a GRD deletes its instances first and comes to an
end; a request never uses a destroyed storage; discovery and APIServices converge to
what is stored; an interrupted certificate generation is repaired or reported; a
generation stands for one spec, and status and spec do not mix.

## Modules

| Module | Models |
| --- | --- |
| `FileStorage` | the file storage; one action per file-system call |
| `ObjectStore` | what the file storage promises to a lone writer: an atomic map |
| `WatchSet` | the watch fan-out; one action per lock or channel operation |
| `GRDNaming` | informer, NamingConditionController, EstablishingController, and the users who change GRDs |
| `GRDStore` | one GRD in the registry, and the informer that follows it |
| `GRDFinalizer` (on `GRDStore`) | REST.Delete, creation of instances, the finalizer |
| `APIApproval` (on `GRDStore`) | the API approval controller |
| `GRDLifecycle` | composes the three: one informer, one stored object, two controllers that write it |
| `RequestDispatch` | which request goes to which storage, by subresource and verb |
| `GRDServing` (with `RequestDispatch`) | the request handler's map of storages, requests on them, their tear down |
| `GRDLister` | the GRDs of one group in the lister, from the start of the informers on |
| `Discovery` (on `GRDLister`, `RequestDispatch`) | the discovery controller |
| `APIRegistration` (on `GRDLister`) | the two registration controllers, the aggregator's APIServices and their users |
| `Publishing` | composes Discovery and APIRegistration, with the post-start hooks |
| `GRDConversion` | defaults and conversions of a GRD, as operators |
| `Registry` (on `GRDConversion`) | the registries of GRDs and instances, their strategies, and clients with old copies |
| `CertGenerator` | the certificate service and its files |
| `FileStorageProofs`, `WatchSetProofs`, `GRDNamingProofs`, `GRDLifecycleProofs`, `GRDServingProofs`, `PublishingProofs`, `RegistryProofs`, `CertGeneratorProofs` | theorems about the module in their name |
| `MC...` | constants for TLC |

`PROJECT.json` maps each definition to the lines it models.  Definitions commented
"Seeded fault" are wrong variants of the definition after them.  They belong to no
specification: putting one in the place of its original shows that the property named
with it in `PROJECT.json` ("mutants") can fail.

### FileStorage

`file[k]` is a file: its length and the object last written at offset 0; it decodes only
if the length is that of the object.  `pc[c]` is the next call of the request of client
`c`, `buf`, `attempt`, `todo`, `fd` are the locals of the Go function, `view[c]` is what a
list returned or a watch has been told.  Create is CreateStat, Open, Fill, CreateReadBack and a
notification; Delete is DeleteCheck, DeleteRemove and a notification; a pass of GuaranteedUpdate is
UpdateExists (if it may not create) and UpdateRead, between which the file may go, and, if
something changed, Open, Fill and a notification, after which the loop continues; a list is
ListReadDir and a ListReadFile per entry, a watch a list and WatchStart.

A write may fail at its open or, once the file is truncated, after any part of the object
(WriteFails); the request returns the error, and the file stays as it is.  The process may
die at any time.  `failed` is the history of files that one or the other left unreadable.

A notification is NotifyLock, a Deliver per watch and Notify (the unlocking, and the return or
the next pass).  Deliver waits until the forwarder has got rid of the event before, that is, until
the client has read it; a client may go away at any time (WatchLeave), and the Stop of its watch
waits for the notifications under way, while new ones wait for it.  `WatchSet` has the same with
its channels and goroutines one by one.

In Get and Delete `exists` and the `readFile` that follows it are one step: between the two
the file could only disappear, which `readFile` reports as well.  A Get with
IgnoreNotFound, encoding errors and failing calls other than a write's are left out; the three
`tryUpdate` functions the registries pass in (put, patch, apply), and the in-place
update of the GRD registry's Delete, are modelled from how the generic store builds them.
An error of `preconditions.Check` takes the same path as one of `tryUpdate`.
The clock counts milliseconds: a version is a snowflake of a node made for the call, so
two versions of one millisecond are equal.

### WatchSet

Writers hold the read lock from NotifyRLock to NotifyRUnlock and send to one watch after
another; handlers and the cleaner take the write lock, and while one of them waits no
reader gets in, as with `sync.RWMutex`.  A send on an unbuffered channel is one step of
sender and receiver.  The forwarder is `fpc`, what it holds is `slot`.  Closing a
closed channel makes the goroutine panic.  cleanupWatchers ranges over the
map without the lock while others write to it: the range may or may not produce
an entry that comes or goes meanwhile; should the Go runtime detect the race, the
process ends, and with it the behaviour.

### GRDNaming

`hist[g]` holds all versions of a GRD, the last one being stored; `pos[g]` is the version in the
lister, and Observe moves it on and calls the event handlers.  A sync of the naming worker
is NamingGet, NamingCompute and one of NamingUpdate, NamingRefused, NamingError; of the
establishing worker EstablishGet and one of EstablishUpdate, EstablishRefused,
EstablishError.  An update is accepted only if its base is the last version.  A
names field is a set of names, a clash is reported with the last field that failed, as in
calculateNamesAndConditions.  `FileBackend` is the behaviour that `FileStorage` shows
for puts: stored, and answered with Conflict.  Categories are left out (they are
copied without a check); so are other groups (names clash only within a group), the
rate limits of the queues, the expiry of the mutation cache and several masters.

### GRDStore, GRDFinalizer, APIApproval, GRDLifecycle

`hist` holds the versions of the one GRD from the lister's to the stored one; an update by a
controller is accepted if its copy is the stored version (`fresh`), and what changes nothing
is not written.  The GRD may be deleted and created again; `uid` tells the two apart.  A
broken watch ends in a new list, which shows a deletion and a new creation as one update.
`backend` is "etcd" or "file"; on "file" the update in place of REST.Delete is not written and
every stored status update is answered with Conflict, which is what `FileStorage` shows.

DELETE is DeleteGet and DeleteUpdate; POST of an instance is CheckCreate (the handler looks at the
lister) and StoreInstance (up to two seconds later).  A sync of the finalizer is FinalizerGet,
FinalizerMark, then for an established GRD FinalizerList, a FinalizerDelete per namespace,
FinalizerDeleted, FinalizerPoll, and FinalizerRemove, or FinalizerReport after a failure.
FinalizerRemove sets Terminating to False and takes the cleanup finalizer away; only with the last
finalizer goes the GRD.  It may be created with one of somebody else (`other`), whose owner
takes it away at any time (ReleaseGRD); until then the GRD stays, with its deletion timestamp,
and instances may be created again.  Users who take away the cleanup finalizer themselves are not modelled.
`late` remembers the POSTs that were under way when the worker took the GRD up.
Five workers share the queue,
but a key is with one worker at a time and there is one key.  The approval controller's sync
is ApprovalGet, ApprovalUpdate and ApprovalRecord.

### RequestDispatch, GRDServing

The lister changes first and the notification comes later (`events`).  Everything that
writes the map holds customStorageLock; removeDeadStorage lists before it takes the lock, and a
request reads the map without it.  A request is ServeHTTP, FastPath, BuildBegin and
BuildEnd (from the lock to its release), Register, Finish.  An info is live, removed (the second
in which late requests may register), closing (Wait has begun: registration is refused with 503)
and destroyed.  What an info consists of (scopes, codecs, warnings) is left out; the version
it was built for is its spec.

### GRDLister, Discovery, APIRegistration, Publishing

One group.  `Specs` gives each GRD the specs it may have: which versions it has and
serves.  A sync of the discovery controller lists (SyncList) and publishes
(SyncPublish); the initial pass does so for every version before `synchedCh` is closed.  For an
APIService it matters how it is labelled, whether its spec is the desired one, and whether a
user made it; a decision of checkAPIService and the call that follows are two steps, so that
users may come in between.  `Registered` are the versions whose APIServices are followed: those of
different names share only the queue.

### Registry, GRDConversion

A client reads an object and later sends it back, changed, to the main or the status endpoint.
The body is decoded (defaults, conversion), BeforeUpdate and the strategy work on it,
and it is encoded and written if it differs from what is stored.  A body may have any list of
`storedVersions`; only the status endpoint takes it over.  `wasStorage` is the history of
versions that were the storage version and have not been taken off the list by a status since.
Instances are unstructured and are stored in the version of the request.  Their strategies
are always made with a status subresource (`grafanaresource_handler.go:677-685`), so the branches without one
are left out; those of the conversion for a top-level version or subresources, fields of
the internal form that no v1 object fills, are modelled and never come up.  `born` is the revision in which an object was created.
Validation, which accepts everything here, field management and names are left out.

### CertGenerator

`crt` and `key` are the files of the four pairs; a certificate is its key, the key of its issuer
and whether it has expired.  Persist is four steps: each file is emptied and then filled.  An
error ends the start and names what to clear ("Try clearing the certs and retry").  A file without a PEM
block makes the process panic, and a missing key is an error without advice: that the operator
then clears everything is an assumption of the model, not something the code says.

## Runs

| Run | Result | Distinct states | Shows |
| --- | --- | --- | --- |
| `file_storage` | pass | 133,900 | the promise to a lone writer, across failed writes and crashes: refines ObjectStore, watchers stay in sync; files are empty only under a writer's hands or after a failed write, and then only an apply writes them; all requests return, unless a watcher leaves in the middle of a notification |
| `file_storage_spurious_conflict` | violation | | a put that was stored is answered with Conflict |
| `watch_set_safety` | pass | 1,942,000 | no send on a closed channel; no gaps, duplicates or reordering per writer |
| `watch_set_live` | pass | 28,500 | selected events arrive as long as clients read; destroying a storage ends its watches |
| `watch_set_stuck` | violation | | one client that goes away can block all writers and watches for ever |
| `grd_naming_safety` | pass | 635,000 | no name held twice; Established never taken back; with resyncs, failures and a restart |
| `grd_naming_live` | pass | 30,000 | names that are free are granted, and accepted GRDs established, without the help of resyncs |
| `grd_lifecycle` | pass | 633,700 | when the finalizer lets go of an established GRD only instances admitted before it began are left, whether or not another finalizer keeps the GRD; a deletion is never undone and comes to an end; the approval condition converges; on both backends |
| `grd_serving` | pass | 198,700 | a storage that does not fit the GRD is on its way out; requests that registered keep theirs; what is abandoned is destroyed |
| `publishing` | pass | 363,100 | stale documents are queued; healthy means published; what is advertised is served; served versions get APIServices and those of others are kept |
| `certs` | pass | 1,661,200 | a service that is up has consistent pairs and comes up again; one that fails comes up after what it advises |
| `registry` | pass | 221,000 | generation identifies spec; status and spec are separate; putting back what was read is no change; no write of a spec shortens storedVersions |

Bounds.  *FileStorage*: two clients, one of which does all the writing while the other reads, lists,
watches and changes objects in place; one key (requests for different keys meet only in
lists), two contents of different length, two attempts instead of 30 (one that fails
or writes and one more), and two milliseconds, so that both equal and different
versions occur.  *WatchSet*: two writers with two notifications each, two watches, one
of which selects every event and one of which does not (in general); writers are symmetric.
The liveness run has one writer and an initial event.  *GRDNaming*: two GRDs that can
clash in a resource name in different fields and in both kinds; users leave a GRD alone
from a given version on (four and three; five and two for liveness), which allows a change or a
deletion after names have been accepted, or the GRD established; at most one restart or failed call.
*GRDLifecycle*: one DELETE and one fault, which may be a failed call of any step or a broken watch.
Besides, a behaviour has either a POST of an instance, in a single incarnation of a GRD whose annotation
is left alone; or two changes of the annotation, or one and a second incarnation, of a GRD
without another finalizer (`MCInputs`): instances and annotations have nothing to do with each
other, and `MCInputs` keeps only inputs back, none that fairness asks for.  The theorems hold for all of it at once.  *GRDServing*: a request that is counted and a
watch, two incarnations, one further change; two requests build at most two infos.  *Publishing*: a GRD
that moves between two versions, one change, one edit or failed call, two APIServices; one
of the two versions is registered.  *Registry*: two clients, four revisions (no write is tried at the last), three
specs (two versions, of which either is the storage version, or a single one that is not), any list of stored versions,
two values of everything else; clients, labels and values
are symmetric.  *CertGenerator*: three crashes or failed writes and three files lost or certificates
expired; the 28 key pairs are as many as these can use up.

Deadlock checks say nothing here: the file storage may always crash, and the other systems may
stop, as writers, watches, users and operators have a bounded number of things to do.  What must
go on is stated as liveness.

Fairness.  Every goroutine that can take a step takes one in the end (the Go scheduler),
the informer delivers its events, and where the configuration has resyncs they go
on happening (`apiserver.go:169`).  No client has to send a request, go away or
write; no storage has to be destroyed; no failure has to happen.  In `FileStorage` weak fairness of a request's
steps is enough, with that of the clients of watches, who read their events until they go away;
in `WatchSet` each handler, forwarder, writer and the cleaner has weak fairness of its own steps; a handler
keeps reading until its client goes away.  The naming run has no resyncs so that requeueing alone
must do.  In `GRDLifecycle` resyncs are needed: the finalizer's event filter drops changes of Terminating,
so that after a Conflict only a resync brings the GRD back; a POST under way
ends, and whoever holds an instance or the GRD by a finalizer lets go of it in the end.  In `GRDServing` the goroutines
started for tear down run, and requests end.  In `Publishing` ServedVersionsAreRegistered needs
resyncs, since nothing tells the controller about APIServices.  In `CertGenerator` the service is
started again, and the operator acts on an error.

### What the violations show

* GuaranteedUpdate has no exit after a successful write.  A put is stored, announced, and
  then compared with itself in the next pass: the version its client sent is no longer the
  current one, and after the last attempt the client gets a Conflict.
* notifyWatchers waits for a forwarder inside the read lock.  If the client of that watch has
  gone, its Stop waits for the write lock and the forwarder for somebody to read:
  nothing moves any more, and the other watches hear no more events.

A consequence of the first point: on the file backend the naming worker never fills its mutation
cache, and may accept for one GRD a name it has just given to another (`GRDNaming` with
FileBackend TRUE violates NamesExclusive).  And because the backend compares an update in place with
itself, no GRD can be deleted on it.

The same models, with two writers for a key, also reach creates that overwrite each other, deletes of
objects that were replaced, and events in the wrong order; the storage has no lock that
would exclude them.

### What else the docs say and the code does not do

The modules state some promises of comments that TLC refutes at once.  No run is kept for them;
to see one, add it to the configuration named.

| Statement | Configuration | What happens |
| --- | --- | --- |
| `PutReplacesItsBase` (storage.go:385-389) | `FileStorage.cfg` with `AllowedTwoWriters` | two puts that read the same version both write, and the first is lost |
| `UpdateReturnsObject` (storage.go:390-394) | `FileStorage.cfg` with `AllowedTwoWriters` | two writers take turns; after the last attempt nil is returned and destination was never set |
| `EmptyIsNotFound` (storage.go:254-255) | `FileStorage.cfg` | a Get between truncation and write returns a decoding error |
| `WatchStartsInSync` (storage.go:190-191) | `FileStorage.cfg` | what is written between the list and the start of a watch is in neither |
| `NoCreateWhileDeleting` (types.go:150) | `GRDLifecycle.cfg` | a GRD that another finalizer keeps admits instances again when GRDFinalizer is done, and nothing deletes them |
| `ListedVersionsAreDefined` (v1/types.go:195) | `Registry.cfg` | a put removes a version that storedVersions lists |
| `PersistedVersionsAreListed` (v1/types.go:190) | `Registry.cfg` | an instance is persisted as of the version of its endpoint, which need not be listed |

### What the properties leave out

Where the code does not do what one might expect, the property says so and claims the rest:

* ImplementsObjectStore and WatchersStayInSync are about a lone writer; that an object is lost when its write fails after
  the truncation, or the process dies there, is part of ObjectStore (`FailedWrite`, `Crash`).
* RequestsReturn excepts the deadlock of `watch_set_stuck`: a watcher that leaves while an event is on its way to it.
* DestroyEndsWatches counts a handler as ended that panics because cleanupWatchers has closed its channel already.
* NoOrphans is about the step with which the finalizer lets go, and excepts instances of POSTs that were admitted
  before it took the GRD up, GRDs that were never established and those that overlap a built-in resource.  What is
  created afterwards, while another finalizer keeps the GRD, stays (`NoCreateWhileDeleting` above).
* StoredVersionsAreKept is about writes of specs: a status may be written with any list.
* ApprovalConverges is about the first GRD of a name: the entry of lastSeenProtectedAnnotation
  survives when a deletion and a new creation reach the informer as one update.
* DrainedBeforeDestroyed is about requests that count: watches and the finalizer do not, and tearDown gives
  up after twice the request timeout.
* AdvertisedIsServed excepts `scale`, which is advertised and answered with NotFound.
* ServedVersionsAreRegistered says nothing of versions no longer served: an APIService that the lister did
  not show when it was dropped stays.
* ForeignServicesAreKept is about objects a user made; one taken out of management by removing its label keeps
  its UID, and a call under way still deletes or overwrites it.
* UpMeansConsistent excepts the server's key, which is looked for under the certificate's name;
  RestartComesUp excepts an expired CA, which signs without a look at its date.
* StatusIsSeparate is about the metadata of instances only: the GRD's status strategy resets the metadata to itself.

## Proofs

Every invariant and every action property of the passing runs is a theorem, and so is the refinement
of `ObjectStore`.  What a run shows for two clients and three milliseconds, the theorem says
for any sets of clients, keys, writers, watches, definitions, names, versions and requests and for any
bounds.  The assumptions are those named in the modules (`FileStorageAssumption`, `WatchSetAssumption`,
...): they type the constants, keep the model values for "nothing" apart from data, and ask that the
set of GRDs is finite.  TLC evaluates them in every run.  Some theorems have a further hypothesis,
given below.

A property is seldom inductive.  Each module has an invariant that is (`IInv`, or one per part), which
TLC has checked on the instance of the module's safety run, and a lemma per action that keeps it.

* `GRDNamingProofs`: `TypeCorrect`, `NamesStayExclusive` (if not `FileBackend`) and
  `EstablishedStaysTrue`.  Exclusive names are not inductive: the worker writes what it
  computed some steps ago from what it knew then.  The invariant adds that the
  knowledge of the worker (the newer of lister and mutation cache) is no older than the
  last status the worker wrote (`CacheAhead`); that the versions after that
  only lose names, since users change no status and the other controller copies it
  (`HeldShrinks`); that one GRD is synced at a time (`OneWorker`); and that a result waiting to be
  written is disjoint from what every other GRD holds (`ResultDisjoint`).  `BaseInv` types the
  positions and bases the two workers have read.
* `WatchSetProofs`: `TypeCorrect`, `NeverSendsOnClosed` and `StreamsHaveNoGaps`.  A writer with
  watches to go holds the read lock, and these watches are registered (`SendersLocked`); a closed or
  closing watch is not registered (`ClosedUnregistered`).  From the same lock: whoever is registered when
  a writer takes it stays so until that writer is done.  So a watch is behind a writer by at most the
  notification it has yet to be sent (`Done`), and what has arrived, what the forwarder holds
  included, is whole up to there (`Streams`).
* `FileStorageProofs`: `TypeCorrect` and `TornFilesAreTransient` hold whatever overlaps, fails and crashes;
  their invariant says that a client with an open file is about to fill it and that the file is
  there (`Holding`).  `WatchersInSync`, `FilesImplementStore` and `UnreadableStays` are about the
  executions in which no two requests that may change one file overlap (`Spec /\ []Apart`): the storage
  locks nothing, and with two at a time they fail.  Requests for different files, and reads, lists and
  watches of the same, overlap as they like.  `LoneWriter` shows that the hypothesis holds where
  one client does all the writing, as in the run.  The invariant says what a request knows of its
  file between two system calls (`UnderWay`), and that a file is empty, whole, or one that a write
  has failed on (`Whole`).  In the refinement Open is the abstract Put: from then on a key stands for
  what its one writer is going to fill in (`StoredIs`); DeleteRemove is Remove; a write that fails
  loses what it was to put, and a crash what was open.
* `GRDLifecycleProofs`: `TypeCorrect`, `DeletionIsKept` and `OnlyLateInstancesStay`, on both backends, with
  and without finalizers of others.  An update replaces the whole GRD, so what it keeps depends on the copy it
  was computed from.  The invariant says that a copy that would be accepted is the stored GRD
  (`CopiesAreStored`); that, in any version or copy, a deletion timestamp comes with the cleanup finalizer and
  Terminating, or GRDFinalizer is done and another finalizer keeps the GRD (`HistoryOK`, `WorkerHolds`); that
  while the worker can go on every version from the lister's to the stored one is Terminating, so
  that the POSTs under way are those it counts as late (`Finalizing`); and that from the poll to the
  removal of the finalizer all instances are late ones (`PolledEmpty`).
* `GRDServingProofs`: `TypeCorrect`, `NothingStaleStays` and `DrainingWorks`.  A stale entry need not be
  there when its notification is handled: a request that read the GRD before may add it later.  The
  invariant says that what is in the map, and what a request under the lock is going to put there,
  fits a version the event functions have not left behind, or is condemned by the removeDeadStorage
  under way (`MapFits`, `BuilderFits`); for this the notifications form a chain up to the lister,
  and UIDs do not come back (`EventsChained`).
* `PublishingProofs`: `DiscoveryCatchesUp`, `HealthyAfterInitialSync`, `DocumentsAreServed` and
  `UsersKeepTheirs`.  A document that differs from what the lister implies is queued or in a sync, and
  if the sync has listed something else it is queued again (`StaleQueued`).  The initial pass has no queue to
  rest on: versions that have not changed are published or still in its list
  (`UntouchedPublished`).  For APIServices, a UID stands for one object, what users made has no label
  (`Distinct`), and a call that deletes or updates was decided on a labelled object
  (`CallsOnLabelled`), so that its precondition fails on a user's.
* `RegistryProofs`: `TypeCorrect`, `GenerationsTell`, `StoredVersionsStay`, `NothingWithoutAChange` and
  `EndpointsAreSeparate`.  The first half is about operators: defaults are idempotent, to memory and
  back is the identity on what has been defaulted, and what a request writes has the parts
  that `WrittenMain` and `WrittenStatus` list.  The invariant (`StoredOK`, `CopiesOK`, `InstInv`) says
  that a copy is of an earlier generation than the stored object, or of the same one and then of the same spec,
  and that what was the storage version is listed; a copy of an instance counts only until that instance
  is deleted, hence `born`.
* `CertGeneratorProofs`: `TypeCorrect`, `ConsistentWhenUp` and `RestartSucceeds`.  `FilesMatch` is about
  the files alone, and so survives every crash: of all pairs but the server's, a whole key belongs to
  the whole certificate next to it.  `EnsuredSoFar` relates the pairs before the current one to the CA
  in memory, and that to the one on disk; `BeingWritten` says how far the current write is;
  `IntactGood` that on files left by a start the next one writes nothing.

Only model-checked:

* Liveness, whose proof would need ENABLED: `RequestsReturn`, `SelectedEventsArrive`, `DestroyEndsWatches`,
  `FreeNamesGranted`, `AcceptedIsEstablished`, `DeletionCompletes`, `ApprovalConverges`,
  `AbandonedStorageIsDestroyed`, `ServedVersionsAreRegistered` and `ComesUp`.
* The two violations: TLC exhibits the executions.

Two definitions are written for the proofs: `NoGaps` says with the places of a writer's notifications
in a stream what a filtered sequence would say, and `Definitions` in `Registry` bounds the stored
definitions by `GrafanaResourceDefinitionSpec`, for which `Subs` names the subresource sections there are.

## Not modelled, and the plan

Next, in this order:

1. The safety half of the liveness properties, as invariants with proofs: in `GRDNaming`, that a GRD whose
   names are free and not granted, or accepted and not established, is queued, in a sync or yet
   to be observed; the same in `APIRegistration` for a version without its APIService, and in `GRDServing` for a
   storage that has left the map.
2. `FileStorage` without `Apart`: what overlapping requests can still rely on for one file.
3. `RequestDispatch` and `GRDConversion`: the lemmas of the proofs stated as theorems of their own.

Not modelled:

* `restoptions.go` builds a NewStorage per resource and keeps no state.
* Options, flags and `main.go`: wiring.  Of `apiserver.go` the hooks and the resync period are modelled.
* ScaleREST (`registry/grafanaresource/storage.go`) is installed nowhere; the streamers behind ref and history only read.
* Validation of GRDs and instances returns no errors in this code base; managed fields and admission belong
  to k8s.io/apiserver.
* Generated deep copies, OpenAPI, listers, fakes: no state and no decisions.
* The expiry of the mutation cache and several server processes: see the hazards in `PROJECT.json`.
