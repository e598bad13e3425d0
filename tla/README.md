# Verification of the document management service

TLA+ models, TLC runs and TLAPS proofs for the Django project under `src/dms`:
a REST API that stores users' documents in MinIO through Celery tasks, and
broadcasts what happens to them over WebSockets.

There are four models. The core is the document pipeline, where several processes
share rows, files and messages that outlive them. Beside it stand the document
types with the requests that check and use them, the start of the deployment with
the object storage client that its processes share, and the accounts with the
notifications whose connections they let in.

## The system

| Component | State it keeps | Operations | Hard behaviour |
|---|---|---|---|
| Document pipeline (`document/services/document.py`, `document/tasks.py`, `document/services/storage.py`) | `Document` rows, staged files on a disk shared by all processes, Celery messages | upload, replace, delete, download link (HTTP); upload task, replacement task, failure handler, reconciliation (Celery) | several processes on one row without row locks; a request or task made of calls to five services any of which may fail; processes that die; messages delivered twice |
| Audit log (`document/services/audit.py`) | `DocumentAuditLog` rows, whose reference to a document is cleared when it goes | `record`, in the transaction of what it records | requests that race on a row one of them erases |
| Object storage client (`document/storage`) | shared MinIO clients, a bucket flag | upload, delete, exists, presigned URL, bucket preparation | calls whose answer is lost; double-checked locking; bucket creation by several processes |
| Notifications (`notification`, `config/middleware.py`) | channel groups in Redis | publish; connect with a token, disconnect, deliver | events lost or overtaken; a token deleted after the connection |
| Document types (`document/serializers.py`, `models.py`, `seed_document_types.py`) | `DocumentType` rows | create, update, delete, seed | a type changed while uploads validate against it; the seed that runs at every start |
| Upload validation (`document/validators.py`) | none | size, extension, content sniffing | boundaries of pure functions |
| Access control and accounts (`account`, `backoffice/document/permissions.py`) | users, groups, tokens | signup, login, logout, assign group, permission checks | checks that read what is read again later |
| Bootstrap (`docker/entrypoint.sh`, management commands) | groups, permissions, the admin user | run at each start of a container | containers that start together; interrupted and repeated runs |

How they interact: an HTTP request (gunicorn) validates a file, **stages** it on
the shared disk, **commits** the row and its audit entry, **sends** a message to
RabbitMQ and **publishes** a `pending` event on Redis. A Celery worker takes the
message, **reads** the row, **puts** the staged file under the row's object key
in MinIO, **verifies** it, **updates** the row to `ready` if it is still
`pending`, **reads it again**, **removes** the staged file and **publishes** the
outcome. A storage error is retried by a new message, up to `max_retries`; then
the row becomes `failed`. Every five minutes a task takes the failed rows that
still have a staged file back to `pending` and sends a message for each.

Around the pipeline: before an upload is staged, the request reads its document
type for the permission, for the validation and, by the foreign key, at the
commit, while administrators change types and starting containers seed them. The
puts and removals go through clients that the threads of a process build on first
use, to a bucket the first upload prepares. The events go through a group in Redis
to every connection that came with a valid token when it was opened. And no process
serves before the entrypoint of its container has migrated, made the roles,
promoted the administrator and seeded the types, with every other container doing
the same.

## The modules

| Module | What it is |
|---|---|
| `DocumentLifecycle` | The abstract specification: the statuses a document goes through and the content its row describes, with no request, task, file or message. `ReplaceableIn` says in which statuses a replacement may take effect. |
| `DocumentService` | The pipeline. One action per call to a shared resource, so other processes act, or the process dies, between any two calls. Its properties and the two refinements of `DocumentLifecycle` are at its end. |
| `MCDocumentService` | The symmetry the safety runs use. |
| `DocumentServiceProofs` | Type correctness. |
| `DocumentOwnershipProofs` | The inductive invariant on staged files, and what follows from it. |
| `DocumentLifecycleProofs` | The audit log, and the refinement of `DocumentLifecycle`. |
| `DocumentFaultProofs` | What holds while some kinds of fault do not happen: nothing pending is forgotten, a ready document has its content, and the documented lifecycle; and, whatever happens, that a ready document has its object. |
| `UploadValidation` | `validators.py` as operators: which file a type accepts, what is detected in a file, which types are of images. |
| `Roles` | The permissions of `bootstrap_roles.py`; `HasPerm` is what everything else asks. |
| `DocumentTypes`, `MCDocumentTypes` | Types, and the requests and seed commands that read, check and use them. One action per query. Extends the two modules above. |
| `PrivateBucket` | The abstract specification of the bucket: nothing is stored before it is private, and it stays private. |
| `ObjectStorageClient` | `document/storage`: one action per step of a thread that another thread could see. |
| `Bootstrap` | The entrypoint of the containers: one action per statement that commits. |
| `Deployment`, `MCDeployment` | Composes the two: the threads of a container call the storage only after its entrypoint is through, processes and containers die and come back. |
| `Accounts` | Users, groups, tokens; a request is authenticated in one step and writes in another. |
| `Notifications`, `MCNotifications` | Extends `Accounts`: connections, the group and the channels in Redis, publications. |
| `DocumentTypesProofs`, `BootstrapProofs`, `ObjectStorageProofs`, `NotificationProofs` | The inductive invariants of these modules and their theorems; `NotificationProofs` has those of `Accounts` too. |

### State and code (`DocumentService`)

| Variable | Code |
|---|---|
| `row` | `Document`: `status`, `local_file_path`, `checksum`; `absent` and `deleted` are the statuses of a row that does not exist yet or any more |
| `audit` | number of `DocumentAuditLog` entries per action and document |
| `staged`, `minted` | files on the staging disk; paths `stage_uploaded_file` has ever returned (a fresh uuid each) |
| `object` | content under each document's `object_key` in the bucket |
| `queue` | Celery messages: task, document, retries so far, with the number of copies |
| `lastEvent` | kind and status of the last event broadcast for each document |
| `handler` | each gunicorn process: where its request is, the document, the file, and the status its view read (`seen`); for a deletion, how many audit entries its transaction finds (`entries`) |
| `worker` | each Celery worker: where its task is, and what the task holds in local variables |
| `faultsLeft` | the bound on faults |
| `undone` | not in the code: a history variable, read by properties only. What a deletion took (the staged file, or the object, written `None`) of a document whose row it then left; the pair of an object goes when a task stores the object again |

A staged path stands for its content: the path is a fresh uuid and the file is
never written again, so `checksum`, `local_file_path` and the object's content
are all named by it. A document is named by its object key, which is also a
uuid (`generate_object_key`); a key is never used again, and neither is a
member of `Docs`.

| Actions | Code |
|---|---|
| `BeginUpload`, `CreateRow`, `Enqueue`, `PublishAccepted` | `upload_document` and `_after_upload_commit` |
| `BeginReplace`, `SaveReplacement`, `Enqueue`, `PublishAccepted` | `replace_document` and `_after_replacement_commit`; the status check is on the row the view read |
| `BeginDelete`, `RemoveObject` or `RemoveStagedFile`, `EraseRow` | `delete_document`; which of the two is decided by the row the view read. The transaction may be refused: see below |
| `BeginDownload`, `RecordLink` | `retrieve` and `generate_download_url` |
| `Deliver`, `CheckStaged`, `OpenStaged`, `PutObject`, `StatObject`, `MarkReady`, `Reread`, `Unlink`, `PublishOutcome` | `_complete_pending_document` and `upload_staged_file` |
| `Retry`, `MarkFailed`, `RereadFailed` | `autoretry_for`, `on_failure` and `mark_document_upload_failed` |
| `BeginReconcile`, `ReconcileNext`, `TakeFailed`, `Requeue`, `FinishReconcile` | `enqueue_failed_upload_retries` |
| `HandlerCrash`, `WorkerCrash`, `WorkerDatabaseError`, `Redeliver` | gunicorn's timeout, `reject_on_worker_lost`, any other exception, redelivery by the broker |

A database transaction is one action: it commits with everything in it or with
nothing. What its statements do to each other is in its outcomes. The deletion's inserts
an audit entry, clears the references of the entries it sees (Django's `SET_NULL`,
`models.py:77-83`) and deletes the row. An entry that a download link or a replacement
commits after the second statement still refers to the row, and the foreign key, checked
at the commit, refuses the whole transaction although the database answers. So
`EraseRow` may end without effect once another request has committed an entry since the
object or file was removed (`MayBeRefused`); the entry may as well have come before the
statement that clears it, and then the row goes. Retrieving, validating and writing the upload to disk is one action
too: it touches nothing that another process knows until the row is committed.
Retry delays, dates, names, sizes and metadata are left out.

### State and code (`DocumentTypes`)

| Variable | Code |
|---|---|
| `dtype` | `DocumentType` rows: code, extensions, content types, maximal size, `is_active`; `NoType` and `DeletedType` where there is none |
| `document` | `Document` rows: type and content type; for the properties, whether an editor wrote it (`by_editor`) and whether the type changed under the request that wrote it (`raced`) |
| `request` | each request: its step, the type and file it came with, the type row it holds in a Python object (`read`) |
| `seeder` | each run of `seed_document_types` |

| Actions | Code |
|---|---|
| `CreateType`, `BeginUpdateType`, `SaveType`, `BeginDeleteType`, `DropType` | the views on types with `DocumentTypeSerializer`. An update validates the body merged with the row it read and saves all fields later; a deletion looks for documents, then deletes |
| `BeginUpload`, `Validate`, `SaveUpload` | `POST` in both APIs: permission, `DocumentUploadSerializer`, commit |
| `BeginReplace`, `PermitReplace`, `Validate`, `SaveReplacement` | `PUT`: the document with its type, the permission (which reads the type in the body), `DocumentReplaceSerializer`, commit |
| `EraseDocument` | `DELETE` of a document |
| `SeedGet`, `SeedInsert`, `SeedFill` | `seed_document_types` |

### State and code (`Bootstrap`, `ObjectStorageClient`, `Deployment`)

| Variable | Code |
|---|---|
| `migrated`, `groups`, `admin` | the database: whether the tables and permissions exist, the permissions of each group, the user `admin` with its password (none, the default, or one of its own) and flags |
| `container` | each container: the step of its entrypoint, and what `get_or_create` returned |
| `clients`, `cached`, `bucketReady`, `bucketLock` | the memory of each process: `MinioClientFactory`'s two clients, the cached storage object, the flag and lock of every storage object. An object is named by the thread that built it |
| `thread`, `processOf` | the call each thread is in; where it runs |
| `bucket`, `objects` | the MinIO server: no bucket, one with a public policy, or a private one; what it holds |

| Actions | Code |
|---|---|
| `PlanMigrations`, `ApplyMigrations` | `migrate`: who applies what another container has applied meanwhile collides with it |
| `BootstrapRoles` | `bootstrap_roles`, one transaction |
| `AdminGet`, `AdminSave`, `AdminJoin` | `create_default_superuser`: three statements that commit one by one |
| `BeginCall`, `LookUpClient`, `BuildClient`, `KeepStorage` | `get_object_storage` (an `lru_cache` without a lock) and the double-checked locking of the clients. A client's lock is held for one check and one assignment, so that is one step |
| `LookAtFlag`, `LockBucket`, `BucketExists`, `MakeBucket`, `DeletePolicy` | `_ensure_private_bucket`: every call to MinIO under the lock is a step of its own |
| `PutObject`, `RemoveObject` | `upload`, `delete` |
| `WorkerDies`, `ContainerDies` | a process replaced by gunicorn or Celery; a container restarted by Docker |

The threads are those the locks are written for. In this deployment gunicorn's and
Celery's processes run one call at a time; Daphne serves the same views under ASGI
(`config/asgi.py`) with a thread for each request, but nginx sends it only `/ws/`. A
process with one thread is the placement with one thread in each process.

### State and code (`Accounts`, `Notifications`)

| Variable | Code |
|---|---|
| `user`, `token`, `issued` | users with their groups; the one token row a user may have, as the number of the key issued last |
| `call`, `answered` | requests between authentication and their write; keys whose logout was answered |
| `connection` | each `NotificationConsumer`: its step, the key it was authenticated with, whether that key's logout had been answered (`late`), the events announced before it was accepted (`since`) |
| `members`, `queue` | in Redis: the channels of the group, the messages in each channel |
| `received`, `missed`, `sent`, `events`, `publication` | what each client was sent, what a full channel dropped, what reached Redis, what was announced, what each publisher is sending and to whom |
| `stale` | channels left in the group by a failure |

| Actions | Code |
|---|---|
| `Signup`, `Login` | one transaction each |
| `BeginRequest` with `Logout`, `CreateUser`, `AssignGroup` | authentication and permission first, the view's write later |
| `Connect` | `TokenAuthMiddleware`: the token of the header, else of the query string |
| `BeginConnect`, `JoinGroup`, `Accept`, `Disconnect`, `Receive` | `NotificationConsumer` |
| `BeginPublish`, `Publish` | `_publish`: `group_send` reads the group, then puts the event into the channels with room |
| `ServerDies` | the Daphne process; Redis keeps the group |

### Faults

In `DocumentService` a fault is a disjunct of the action it strikes, allowed by `Faults` and bounded
by `MaxFaults`:

| Kind | What happens |
|---|---|
| `storage` | a MinIO call fails without effect (`ObjectStorageError`) |
| `lost_reply` | a MinIO call takes effect and its answer is lost |
| `database` | a transaction or query fails and has no effect |
| `broker` | RabbitMQ refuses a message |
| `redis` | an event is not published; the publisher swallows the error |
| `handler_crash` | a gunicorn process dies or is killed |
| `worker_crash` | a worker dies in an upload task; the message goes back to the queue |
| `reconcile_crash` | a worker dies in the reconciliation |
| `redelivery` | the broker delivers the message again while the task goes on |

In `Deployment`, `MaxStorageFaults` bounds the MinIO calls that fail without effect and
`MaxDeaths` the deaths: of a process, of a container, or of one command of an
entrypoint, at any step of it. In `Notifications`, `MaxFaults` bounds the failures of
Redis (joining, discarding, publishing) and the deaths of the server. `DocumentTypes`
has no faults: each of its steps is one transaction, and a request that stops between
two of them is a request that is never scheduled again.

## The runs

The runs of `DocumentService` use one document: the operations on different documents share no
state but the staging disk, and that they do not meet there is what
`OwnershipCorrect` proves for any number of documents (a two-document instance
of the same invariant was checked on the way). A document that
is created, replaced, failed, retried and deleted needs one row; two uploads
(`Files`) are needed for a replacement, three for two of them to race. Two
handlers and two workers are the smallest numbers that race. One retry makes the
limit and the step below it both happen. Redelivery multiplies the
states threefold and is left to `live`; the theorems below cover the properties of `storm` and
`steady` with it. Downloads (`MaxLinks`) are in `steady`, where a deletion that one of
them makes fail is what the properties are about, and in `serial`. `CHECK_DEADLOCK FALSE` except in `deployment`: when
the files, the tokens and the events are used up and every task has ended, the
system stops.

| Run | Instance | Shows |
|---|---|---|
| `storm` | 2 handlers, 2 workers, any 2 faults of any kind but `redelivery` (duplicated messages come from a worker that dies between its retry and its acknowledgement) | what holds whatever happens: `TypeOK`, `RowConsistent`, `AuditMatchesRow`, `StagedFileKept`, and the refinement `RefinesLifecycle` |
| `steady` | 2 handlers, 2 workers, 1 download, 2 faults among failed storage calls and dead workers; 6.5 million states | `PendingDriven` (no pending document is forgotten) and `ReadyHasObject` (no ready document is without its object), but by a deletion that could not erase the row |
| `live` | 1 handler, 2 workers, 2 faults among failed storage calls, dead workers, redelivery; fairness | `EventuallyStored`, `FailedRetried` |
| `serial` | 1 handler, 2 workers, 2 faults among failed storage calls, lost answers, refused messages; fairness | the documented behaviour when requests do not overlap and tasks are not duplicated: `ContentMatches`, `StatusBroadcast`, `RefinesDocumentedLifecycle` |
| `delete_orphan` | 1 handler, 1 worker, no fault | violated: `DeleteRemovesObject` |
| `replace_race` | 2 handlers, 1 worker, no fault | violated: `RefinesDocumentedLifecycle` |
| `broadcast_lost` | 1 handler, 1 worker, 1 crash; fairness | violated: `StatusBroadcast` |
| `retry_lost` | 1 handler, 1 worker, a storage error and a refused message; fairness | violated: `FailedUploadsReconciled` |
| `types` | 2 types, 1 document, 2 requests, 1 seed command; 1.8 million states | what a request has checked still holds where it counts: `TypeOK`, `TypesUsableUnlessSeeded`, `AcceptedFilesGenuine`, `DocumentsTyped`, `EditorsStoreImages`, `WritesFitType` |
| `seed_breaks_type` | 1 request, 1 seed command | violated: `TypesUsable` |
| `deployment` | 2 containers with a process each, 2 threads in one process or one in each, an empty or an old database, 1 failed MinIO call, 1 death; fairness; 490 000 states | the start: `BootTypeOK`, `RolesExact`, `ServingAdmin`, `AdminGetsPassword`, `AdminPasswordKept`, `StartupCompletes`; the storage: `StorageTypeOK`, `ReadyMeansPrivate`, `LocksHeldInside`, `ClientsKept`, `UploadsSucceed`, and the refinement `RefinesPrivateBucket` |
| `notifications` | 1 connection, 1 publisher, 2 events, channels for 1 message, 1 fault, 2 users, 2 requests at a time; fairness; 540 000 states | the accounts: `TokensOfActiveUsers`, `LoggedOutForGood`, `LogoutEndsOwnToken`, `GroupsGranted`; the connections: `TypeOK`, `MembersAuthenticated`, `NothingMissed`, `MembersConnected`, `HandshakesEnd`, `EventsReceived` |

Why these bounds are enough to show something:

- `types`: a type must be able to change between any two steps of a request, which
  needs one other request and a seed command. Two types let a replacement move a
  document from one to the other and two rows want one code. The bodies have an invalid
  one, one that makes a type inactive and leaves content types out, and one that turns
  an image type into a type that is not; of the files, one is a JPEG under the alias of
  its extension. One request is the administrator's, the other may be anybody's.
- `deployment`: races over one client, one lock or one bucket need two threads, in one
  process or in two. One failed call stops a preparation at each of its three calls in
  turn; one death hits each statement of an entrypoint and each step of a call. The
  volumes of the database and of MinIO are new together (`Init`), and an old
  installation has a public bucket, groups with too much and too little, and an
  administrator who is not active.
- `notifications`: in the model connections share nothing but the group, and each
  channel has a limit of its own, so one of them meets everything a connection can
  meet. Two events and room for one fill the channel. Two users and two requests at a time let a late logout meet
  the next login.

Why a property is not in a stronger run. `PendingDriven` is false under
`broker`, `database` and `handler_crash` faults, and under `reconcile_crash` after a
failed upload: each can leave a committed `pending` row without a message, and no part
of the program looks for such rows. `ContentMatches` is false when a task runs twice at
once (`worker_crash` with a storage error, `redelivery`) or two replacements race: the
update to `ready` asks only that the row be pending, not that it be the
pending row the task read. TLC found a counterexample for each of these kinds alone,
so the hypotheses of the theorems in `DocumentFaultProofs`, which exclude exactly
these, leave out no kind that they could do with. The code has no documented promise
for these cases, so they bound the runs instead of being listed as findings.

What a deletion can leave behind. It removes the object or the staged file first and
the row in a transaction of its own, which may not come about: it is refused when a
racing request commits an audit entry, without any fault; or the database fails, the
answer of MinIO is lost or the process dies. Then
a `GET` that meets a `DELETE` may leave a ready row without an object, and with a `PUT`
before them a pending row without a file, whose task has ended at `open` and which
nobody looks for. Without the disjunct `Stripped` TLC finds both in `steady`. No
document says what a deletion that does not succeed leaves, so both properties
except the documents it happened to, and say that nothing else leads there. The
exception ends where the damage does: a later replacement that is stored makes the
document one that must have its object, and a path is never used again.

In the other models the exceptions are in the properties themselves, because the code
has them:

- `AdminGetsPassword` excepts `abandoned`: a container that dies between
  `get_or_create` and `save` leaves a user without a password, and every later start
  finds the user and only promotes it.
- `EditorsStoreImages` and `WritesFitType` except requests that were `raced`: a type
  changed after it was checked is stored under all the same.
- `GroupsGranted` asks for an administrator where the code asks for the permission
  `auth.change_user`: a permission comes with a group in the model, and those that a
  superuser has, or a user of its own, are left out.
- `TypesUsableUnlessSeeded` excepts the content types of the seed: see finding 5.
- `UploadsSucceed` starts from a bucket that exists: of two processes that find none
  the slower one gets an error from `make_bucket`, and its upload fails although MinIO
  answered. The next one succeeds.
- `MembersAuthenticated` is about the time of the connection: a user who logs out
  keeps what is connected.
- `NothingMissed` counts what a full channel dropped as `missed`, and speaks of events
  that reached Redis: the publisher swallows errors.

What the code does and no property forbids: a login that meets a logout may answer with
a token that is gone, and a `PUT` on a type that was deleted meanwhile inserts it again.

### Findings

1. `delete_orphan`: deleting a document that is not ready never removes its
   object, although a replaced document still has one and a running upload may
   just have put it. `document/schema.py:109`: "Delete the object from MinIO and
   remove the database record."
2. `replace_race`: two `PUT` requests that read the same ready row both take
   effect. `document/services/document.py:84`: "Only ready documents can be
   replaced."
3. `broadcast_lost`: a worker that dies after it has made a document ready
   never announces it: the repeated task sees a ready row and returns.
   `README.md:123`: "ready/failed status changes are broadcast".
4. `retry_lost`: a reconciliation whose message is refused leaves the row
   `pending`, where no later reconciliation looks. `README.md:87`: "runs
   reconciliation every 5 minutes for failed uploads that still have a local
   staged file".
5. `seed_breaks_type`: every start of a container gives a seeded type that has no
   content types those of images, whatever extensions an administrator has given it
   since; files with the other extensions are then refused.
   `document/serializers.py:111`: "Each selected extension must have at least one
   related content type."; `seed_document_types.py:27`: "Create initial document types
   when they do not already exist."

## Fairness

`FairSpec` is weakly fair to four things, each because of how the code is
scheduled: a handler's next step and a worker's next step (a process that runs
goes on; a call that fails is a step too), the delivery of a queued message to
an idle worker (RabbitMQ and Celery do that), and the start of the
reconciliation (celery beat, every 300 seconds). `TakeMessage` and
`StartReconcile` are fair as wholes, not for each message or worker. Nothing is
assumed of clients, and no fault ever has to happen, or to stop: they stop
because `MaxFaults` bounds them, which stands for services that come back.

`Deployment` is weakly fair to the next step of each container's entrypoint (the shell
goes on, and Docker starts it again) and of each thread that is in a call; a
thread that waits for a lock has no step, so fairness to it means that it gets the lock
when nobody takes it away for ever. No call has to begin. `Notifications` is weakly fair
to each connection's consumer (the event loop gets to every one of them) and to a
publication that has begun. Clients need not connect, nor stay.

## What is proved

All theorems are about the `Spec` of their model, for all values of the constants
that meet the named assumptions of its modules, which TLC evaluates on the instances.
Where a theorem has a hypothesis of its own, its table says so.

### The pipeline

The assumptions are the three of `DocumentService`: `None` is neither a document nor
a file, `Faults` are kinds of fault, and the bounds are natural numbers. The theorems
hold for any number of documents, files, handlers, workers, retries and faults.

| Theorem | Statement |
|---|---|
| `TypeCorrect` | `Spec => []TypeOK` |
| `OwnershipCorrect` | `Spec => []Ownership` |
| `RowsConsistent` | `Spec => []RowConsistent` |
| `StagedFilesKept` | `Spec => StagedFileKept` |
| `AuditCorrect` | `Spec => []AuditMatchesRow` |
| `LifecycleImplemented` | `Spec => RefinesLifecycle` |

Seven more say what the pipeline does, most of them while some kinds of fault stay out
(`Faults` has none of them), with any number of all the other faults:

| Theorem | Faults that stay out | Statement |
|---|---|---|
| `NoneForgotten` | `broker`, `database`, `handler_crash`, `reconcile_crash` | `Spec => []PendingDriven` |
| `ReadyStored` | none | `Spec => []ReadyHasObject` |
| `TasksAlone` | `worker_crash`, `redelivery` | `Spec /\ []ReplacementsAlone => []AloneUntilDeleted` |
| `ContentCorrect` | `worker_crash`, `redelivery` | `Spec /\ []ReplacementsAlone => []ContentMatches` |
| `DocumentedLifecycleImplemented` | none | `Spec /\ []ReplacementsAlone => RefinesDocumentedLifecycle` |
| `OneHandlerDocumented` | as above | with one process that serves requests, `ReplacementsAlone` need not be assumed |
| `DeletionsComplete` | `worker_crash`, `redelivery` | `Spec /\ []RequestsAlone /\ []DeletesReady => []DeleteRemovesObject` |

`ReplacementsAlone` says that no two requests are between the status check and the
commit of a replacement of the same document. Finding 2 is what happens otherwise.

**Ownership.** `RowConsistent` and `StagedFileKept` are not inductive: that the
unlink after a completed upload takes nobody else's file depends on who else may
hold the path. `Ownership` says it: every path in use was handed out
(`PathsMinted`); until it is committed only its request knows it
(`FreshUploads`); once committed it belongs to one document, and every request or
task that holds it is about that document (`OneOwner`); a reconciliation holds
none (`ReconcileHoldsNoFile`); and a task that has made its document ready holds a
path no row points to any more (`StoredFileReleased`). The last part is the heart:
`MarkReady` clears the row's path whoever wrote it, and a replacement that comes
later brings a path that was never handed out before. The proof reduces each
action to one of a few shapes (a request stages, moves on, commits or erases; a
task moves on, marks or takes) and proves the invariant once for each shape.

**Audit log and lifecycle.** Both rest on `Claims`: a request about to create a
row is the only one for that document, and every other request is for a
document that has had a row. With it each step that changes a row is one
operation of `DocumentLifecycle`, with the content of an upload that no row has
(`FreshUploads`), and all the others leave it alone; deleting a row that is
already gone is a stutter.

**Nothing forgotten.** `PendingDriven` is not inductive, because a worker that has the
document at `check` or `open` counts only while its file is staged: if the file were
gone, `open` would end the task without a trace and leave the row pending. So the
invariant has three more parts. A request that is to commit a row has its file on the
disk (`UploadsStaged`); so has every row with a path, unless a deletion has taken the file
(`FilesStaged`); and what a task carries is fit for the
message it may have to send (`Fits`: a retry is only reached with a retry left). Each
step that takes the document from a message, a worker or a request hands it to another
one, or settles the row: `DrivenHandler` says so for the steps of requests and
`DrivenWorker` for those of tasks, where `DriverHandsOn` is about the worker that has
the document; they rest on `SendArrives`, that the broker keeps what it is sent.

**Ready and stored.** `CommitsStored` carries what a task found in the store from its
`stat` to its commit: the object is there, or a deletion that saw the document ready has
taken it, or the row is gone. A deletion that has taken something (`Gone`) stands at
`erase`, and leaves that step by erasing the row or by leaving its pair in `undone`,
whether it is refused, fails or dies (`ErasesKept`); only a task that stores the object
takes that pair out again (`UndoneKept`). So no hypothesis on faults is needed, and the
same lemmas (`GoneKept`) keep `FilesStaged` in the paragraph above.

**One hand at a time.** `AloneUntilDeleted` is the invariant that the compare-and-set of
the tasks does not give: of the copies of a document's messages, the workers that are to
store or settle it and the requests that are to send its message there is one at most,
and one only while the row is pending. A deletion ends it, which is why it speaks of the
documents that are still there. A replacement starts from a ready document, where there
is nobody (`SavesReady`, which `ReplacementsAlone` keeps), and a reconciliation from a
failed one. With it the path a task carries is the one its row has (`CarriersCurrent`),
nobody else's object comes between its put and its commit (`ObjectsCurrent`), and
`ContentMatches` follows with the ownership of paths. `SavesReady` alone is enough for
the documented lifecycle: the abstract step is that of `LifecycleImplemented`, and
a replacement in it finds a ready document (`ReplacesReady`).

**A deletion that leaves nothing.** Finding 1 shows the object of a deleted document left
in the store. `DeletionsComplete` says what keeps the promise: one request at a time is
served for a document (`RequestsAlone`), clients delete documents that are ready
(`DeletesReady`), and tasks are neither killed nor delivered twice. The document a request
is about to delete is then ready until its row is gone; its object is gone before, and
there is no task left that could store it again (`DeletionClean`, which needs
`AloneUntilDeleted`). Both assumptions are about clients: the code enforces neither.

### Document types

| Theorem | Statement |
|---|---|
| `TypesInvariant` | `Spec => []TypesInv` |
| `RowsCorrect`, `TypesStayUsable`, `FilesGenuine`, `DocumentsKeepTypes`, `EditorsWriteImages` | `Spec => []P` for `TypeOK`, `TypesUsableUnlessSeeded`, `AcceptedFilesGenuine`, `DocumentsTyped`, `EditorsStoreImages` |
| `WritesFit` | `Spec => WritesFitType` |

Assumed: a body names extensions the serializer knows (`BodiesAssumption`), and the
rows there are were valid when they were written (`InitTypesAssumption`). `TypesInv`
says of each request what it has made sure of (`RequestOK`): before validation that it
holds the type as it is, after it that the file fits the type (`Fits`), each unless it
was raced. `RacedOK` is the heart: a change to a type takes nothing from a request
that it does not also mark as raced. That validation keeps files genuine and types
usable are lemmas about the operators of `UploadValidation` (`AcceptedGenuine`,
`ValidUsable`, `UsableAccepts`), for every set of extensions and content types.

### The deployment

| Theorem | Statement |
|---|---|
| `BootTypesCorrect`, `RolesCorrect`, `AdminCorrect`, `PasswordsArrive` | `Spec => []P` for `BootTypeOK`, `RolesExact`, `ServingAdmin`, `AdminGetsPassword` |
| `PasswordsKept` | `Spec => AdminPasswordKept` |
| `StorageTypesCorrect`, `ReadyCorrect`, `LocksCorrect` | `Spec => []P` for `StorageTypeOK`, `ReadyMeansPrivate`, `LocksHeldInside` |
| `ClientsCorrect` | `Spec => ClientsKept` |
| `BucketImplemented` | `Spec => RefinesPrivateBucket` |

Assumed: what an earlier version may have left (`InitialDatabasesAssumption`: no user
without its table or without a password), that a missing group is not a group
(`AbsentAssumption`), that threads and processes have a place
(`PlacementsAssumption`, `ContainerOfAssumption`), and that no thread is `NoThread`.
`BootInv` says how far each container has come by what must be true of the database
then (`Progressed`), and who is about to give the administrator its password
(`PasswordPending`): the one container that inserted it, which is why a promotion by
another one, with the row as it was before the password, must not write that field.
`StorageInv` says what a thread at each step may rely on (`ThreadOK`) and that a cached
object was built by a thread of its process with both clients (`CacheOK`). A thread
between the flag and the end of its preparation is alone with the lock of its storage
object, but not alone with the bucket: that it is private when the flag goes up
follows from what any thread may do to the bucket, which is to make it private.

### Accounts and notifications

| Theorem | Statement |
|---|---|
| `TokensCorrect`, `LogoutsFinal` | `Spec => []P` for `TokensOfActiveUsers`, `LoggedOutForGood` |
| `LogoutsOwn`, `GroupsCorrect` | `Spec => P` for `LogoutEndsOwnToken`, `GroupsGranted` |
| `NotificationTypesCorrect`, `MembersCorrect`, `DeliveryCorrect`, `GroupCorrect` | `Spec => []P` for `TypeOK`, `MembersAuthenticated`, `NothingMissed`, `MembersConnected` |

Assumed: what requests ask for (`RequestsAssumption`), that the administrator is a user,
that `NoKey` is no key, and that the bounds are numbers. `AccountInv` adds that a
request in progress was sent with a key that was issued and an answered key is one that
was. `NotificationInv` says of each connection why it may get events (`Trusted`), that
it is in the group from before it is accepted until it ends (`Joined`), that an event is
in one place (`EachOnce`), and that everything sent since it was accepted is in its
hands or under way to it (`UpToDate`), which needs that an event in flight has not been
sent before and is in nobody else's hands (`Flights`).

## What is only model-checked

The liveness properties (`EventuallyStored`, `FailedRetried`, `StatusBroadcast`,
`StartupCompletes`, `UploadsSucceed`, `HandshakesEnd`, `EventsReceived`), since the
proof system does not reach liveness under fairness. Every invariant, action property
and refinement of a passing run is a theorem.

## What is not modelled

- Serializers' representations, filtering, paging and the OpenAPI description
  (`schema.py` of each application, `pagination.py`, the read-only views): they change
  no state. They are also the largest part of the source that no definition maps.
- `settings.py` beyond what is mapped, nginx, and the contents of the migrations: they
  configure libraries. What `migrate` does is modelled from what the commands after it
  need.
- Of the audit log, actors and metadata: they are constants of the request that writes
  the entry.
- Of the channel layer, that the channels of one server process share its capacity, and
  what its local buffer drops then: each channel of the model has its own limit. Also
  the expiry of messages and of group memberships: the code configures neither and
  relies on neither.

## Plan

What would add most next:

1. An order of the events: whether a client that sees the events of a document ends with
   its last status. No document promises it and the code does not give it, so it
   would take the hypothesis that no request overlaps a task.
2. `DocumentService` with the storage client in it: an upload task whose first call
   also prepares the bucket, and what a lost `make_bucket` race costs in retries.
