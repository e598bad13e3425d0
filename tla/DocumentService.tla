--------------------------- MODULE DocumentService ---------------------------
(***************************************************************************)
(* The document pipeline of src/dms/document: HTTP request handlers that   *)
(* stage a file and commit a row, Celery workers that move the staged file *)
(* to object storage and settle the row, the reconciliation task that      *)
(* retries failed rows, and the database, staging disk, object store,      *)
(* message broker and WebSocket channel they share.                        *)
(*                                                                         *)
(* One action is one call to a shared resource, so that every other        *)
(* process may act, or the process may die, between two calls.  A call     *)
(* that fails is a disjunct of its action, enabled by Fault.               *)
(***************************************************************************)
EXTENDS Naturals, FiniteSets

CONSTANTS
    Docs,        \* document rows, each with its object key
    Files,       \* staged paths; a path is a fresh uuid and stands for its content
    Handlers,    \* gunicorn processes that serve HTTP requests
    Workers,     \* celery worker processes
    None,        \* the empty path, or no object, or no document
    MaxRetries,  \* ObjectStorageRetryTask.max_retries
    Faults,      \* the kinds of fault that may happen
    MaxFaults,   \* how many of them
    MaxLinks     \* how many download links a document may be given

FaultKinds ==
    {"storage", "lost_reply", "database", "broker", "redis",
     "handler_crash", "worker_crash", "reconcile_crash", "redelivery"}

ASSUME NoneAssumption == None \notin Docs \cup Files
ASSUME FaultsAssumption == Faults \subseteq FaultKinds
ASSUME BoundsAssumption ==
    MaxRetries \in Nat /\ MaxFaults \in Nat /\ MaxLinks \in Nat

VARIABLES
    row,         \* Document rows: status, local_file_path, checksum
    audit,       \* DocumentAuditLog: the number of entries of each Action
    undone,      \* history: what deletions took of documents whose rows they left
    staged,      \* files present under DOCUMENT_LOCAL_STORAGE
    minted,      \* paths ever handed out by stage_uploaded_file
    object,      \* content stored under each document's object key
    queue,       \* messages in the broker, each with its number of copies
    lastEvent,   \* the last event broadcast about each document
    handler,     \* the request each handler is serving
    worker,      \* the task each worker is running
    faultsLeft   \* faults that may still happen

vars == <<row, audit, undone, staged, minted, object, queue, lastEvent,
          handler, worker, faultsLeft>>

db == <<row, audit, undone>>
disk == <<staged, minted>>
remote == <<object, queue, lastEvent>>

-----------------------------------------------------------------------------
Live == {"pending", "ready", "failed"}
Statuses == Live \cup {"absent", "deleted"}
UploadTasks == {"upload", "replace"}
Kinds == {"uploaded", "updated"}

Paths == Files \cup {None}
Messages == [task : UploadTasks, doc : Docs, retries : 0 .. MaxRetries]

IdleHandler ==
    [pc |-> "idle", task |-> "none", doc |-> None, file |-> None, seen |-> "none",
     entries |-> 0]

IdleWorker ==
    [pc |-> "idle", task |-> "none", doc |-> None, retries |-> 0,
     file |-> None, seen |-> "none", todo |-> {}]

Init ==
    /\ row = [d \in Docs |-> [status |-> "absent", path |-> None, checksum |-> None]]
    /\ audit = [d \in Docs |-> [created |-> 0, replaced |-> 0, deleted |-> 0, links |-> 0]]
    /\ undone = {}
    /\ staged = {}
    /\ minted = {}
    /\ object = [d \in Docs |-> None]
    /\ queue = [m \in Messages |-> 0]
    /\ lastEvent = [d \in Docs |-> [kind |-> "none", status |-> "none"]]
    /\ handler = [h \in Handlers |-> IdleHandler]
    /\ worker = [w \in Workers |-> IdleWorker]
    /\ faultsLeft = MaxFaults

-----------------------------------------------------------------------------
(* Calls to the shared resources.                                          *)

Fault(kind) ==
    /\ kind \in Faults
    /\ faultsLeft > 0
    /\ faultsLeft' = faultsLeft - 1

NoFault == UNCHANGED faultsLeft

\* stage_uploaded_file: the path is a fresh uuid.
StageFile(f) ==
    /\ f \notin minted
    /\ minted' = minted \cup {f}
    /\ staged' = staged \cup {f}

\* delete_local_file: nothing happens for an empty or missing path.
DeleteLocalFile(f) == staged' = staged \ {f}

\* apply_async: one more copy of the message in the broker.
Send(m) == queue' = [queue EXCEPT ![m] = @ + 1]

FreshMessage(task, d) == [task |-> task, doc |-> d, retries |-> 0]

Broadcast(d, kind, status) ==
    lastEvent' = [lastEvent EXCEPT ![d] = [kind |-> kind, status |-> status]]

\* The event an upload task or a replacement announces itself with.
EventKind(task) == IF task = "upload" THEN "uploaded" ELSE "updated"

\* Mutant: the row of a deleted document can still be updated or read.
RowExists_AfterDelete(d) == row[d].status # "absent"

\* .get(pk=...) finds the row, and an update of it affects one row.
RowExists(d) == row[d].status \in Live

\* Mutant: the compare-and-set is filtered by primary key only.
IsPending_ByKeyOnly(d) == RowExists(d)

\* Mutant: reconciliation takes a row back that another one has already retried.
IsFailed_OrReady(d) == row[d].status \in {"failed", "ready"}

\* The guards of the compare-and-set updates, .filter(pk=..., status=...).
IsPending(d) == row[d].status = "pending"
IsFailed(d) == row[d].status = "failed"

HandlerAt(h, pc) == handler[h].pc = pc
HandlerGoes(h, pc) == handler' = [handler EXCEPT ![h].pc = pc]
EndRequest(h) == handler' = [handler EXCEPT ![h] = IdleHandler]

WorkerAt(w, pc) == worker[w].pc = pc
WorkerGoes(w, pc) == worker' = [worker EXCEPT ![w].pc = pc]
EndTask(w) == worker' = [worker EXCEPT ![w] = IdleWorker]

-----------------------------------------------------------------------------
(* POST /documents/: upload_document.                                      *)

\* A document is named by the object key generated for it, so no two requests
\* create the same one.
Unclaimed(d) ==
    /\ row[d].status = "absent"
    /\ \A h \in Handlers : handler[h].doc # d

BeginUpload(h, d, f) ==
    /\ HandlerAt(h, "idle")
    /\ Unclaimed(d)
    /\ StageFile(f)
    /\ handler' = [handler EXCEPT ![h] =
                     [pc |-> "create", task |-> "upload", doc |-> d,
                      file |-> f, seen |-> "none", entries |-> 0]]
    /\ UNCHANGED <<db, remote, worker, faultsLeft>>

CreateRow(h) ==
    LET d == handler[h].doc
        f == handler[h].file
    IN
    /\ HandlerAt(h, "create")
    /\ \/ /\ row' = [row EXCEPT ![d] =
                       [status |-> "pending", path |-> f, checksum |-> f]]
          /\ audit' = [audit EXCEPT ![d].created = @ + 1]
          /\ HandlerGoes(h, "enqueue")
          /\ UNCHANGED <<undone, staged>>
          /\ NoFault
       \/ /\ Fault("database")
          /\ DeleteLocalFile(f)
          /\ EndRequest(h)
          /\ UNCHANGED db
    /\ UNCHANGED <<minted, remote, worker>>

\* The on_commit hook runs inside the try block of the request: a broker that
\* refuses the message makes the request delete the file it has just committed.
Enqueue(h) ==
    LET m == FreshMessage(handler[h].task, handler[h].doc) IN
    /\ HandlerAt(h, "enqueue")
    /\ \/ /\ Send(m)
          /\ HandlerGoes(h, "publish")
          /\ UNCHANGED staged
          /\ NoFault
       \/ /\ Fault("broker")
          /\ DeleteLocalFile(handler[h].file)
          /\ EndRequest(h)
          /\ UNCHANGED queue
    /\ UNCHANGED <<db, minted, object, lastEvent, worker>>

\* The event carries the status of the in-memory row, whatever the row is now.
PublishAccepted(h) ==
    /\ HandlerAt(h, "publish")
    /\ \/ /\ Broadcast(handler[h].doc, EventKind(handler[h].task), "pending")
          /\ NoFault
       \/ Fault("redis") /\ UNCHANGED lastEvent
    /\ EndRequest(h)
    /\ UNCHANGED <<db, disk, object, queue, worker>>

-----------------------------------------------------------------------------
(* PUT /documents/<id>/: replace_document.                                 *)

\* Mutant: the status of the document is not checked.
Replaceable_Always(d) == RowExists(d)

\* The status is checked on the row the view read, once.
Replaceable(d) == row[d].status = "ready"

BeginReplace(h, d, f) ==
    /\ HandlerAt(h, "idle")
    /\ Replaceable(d)
    /\ StageFile(f)
    /\ handler' = [handler EXCEPT ![h] =
                     [pc |-> "save", task |-> "replace", doc |-> d,
                      file |-> f, seen |-> "ready", entries |-> 0]]
    /\ UNCHANGED <<db, remote, worker, faultsLeft>>

\* save(update_fields=...) overwrites the row whatever its status, and raises
\* when the row is gone.
SaveReplacement(h) ==
    LET d == handler[h].doc
        f == handler[h].file
        failed == DeleteLocalFile(f) /\ EndRequest(h) /\ UNCHANGED db
    IN
    /\ HandlerAt(h, "save")
    /\ \/ /\ RowExists(d)
          /\ row' = [row EXCEPT ![d] =
                       [status |-> "pending", path |-> f, checksum |-> f]]
          /\ audit' = [audit EXCEPT ![d].replaced = @ + 1]
          /\ HandlerGoes(h, "enqueue")
          /\ UNCHANGED <<undone, staged>>
          /\ NoFault
       \/ ~RowExists(d) /\ failed /\ NoFault
       \/ Fault("database") /\ failed
    /\ UNCHANGED <<minted, remote, worker>>

-----------------------------------------------------------------------------
(* DELETE /documents/<id>/: delete_document.                               *)

BeginDelete(h, d) ==
    /\ HandlerAt(h, "idle")
    /\ RowExists(d)
    /\ handler' = [handler EXCEPT ![h] =
                     [pc |-> "remove", task |-> "none", doc |-> d,
                      file |-> row[d].path, seen |-> row[d].status, entries |-> 0]]
    /\ UNCHANGED <<db, disk, remote, worker, faultsLeft>>

\* What a deletion takes: the object of a document that was ready (its row names no
\* path), the staged file of any other.
Taken(h) == IF handler[h].seen = "ready" THEN None ELSE handler[h].file

\* The deletion ends and leaves the row without what it took.
Undo(h) == undone' = undone \cup {<<handler[h].doc, Taken(h)>>}

\* The audit entries other requests write about a document that has a row.
Entries(d) == audit[d].replaced + audit[d].links

GoErase(h) ==
    handler' = [handler EXCEPT ![h].pc = "erase", ![h].entries = Entries(handler[h].doc)]

RemoveObject(h) ==
    LET removed == object' = [object EXCEPT ![handler[h].doc] = None] IN
    /\ HandlerAt(h, "remove")
    /\ handler[h].seen = "ready"
    /\ \/ removed /\ GoErase(h) /\ NoFault /\ UNCHANGED undone
       \/ Fault("storage") /\ EndRequest(h) /\ UNCHANGED <<object, undone>>
       \/ Fault("lost_reply") /\ removed /\ EndRequest(h) /\ Undo(h)
    /\ UNCHANGED <<row, audit, disk, queue, lastEvent, worker>>

RemoveStagedFile(h) ==
    /\ HandlerAt(h, "remove")
    /\ handler[h].seen # "ready"
    /\ DeleteLocalFile(handler[h].file)
    /\ GoErase(h)
    /\ UNCHANGED <<db, minted, remote, worker, faultsLeft>>

\* The transaction clears the references of the audit entries it sees, then deletes
\* the row.  An entry that another request commits in between still refers to the
\* row, and the deferred foreign key refuses the commit.
MayBeRefused(h) ==
    RowExists(handler[h].doc) /\ Entries(handler[h].doc) > handler[h].entries

\* The transaction commits its audit entry even if another request has erased
\* the row: the entry's reference to the document is cleared, not checked.
EraseRow(h) ==
    LET d == handler[h].doc IN
    /\ HandlerAt(h, "erase")
    /\ \/ /\ row' = [row EXCEPT ![d] =
                       [status |-> "deleted", path |-> None, checksum |-> None]]
          /\ audit' = [audit EXCEPT ![d].deleted = @ + 1]
          /\ UNCHANGED undone
          /\ NoFault
       \/ /\ (MayBeRefused(h) /\ NoFault) \/ Fault("database")
          /\ Undo(h)
          /\ UNCHANGED <<row, audit>>
    /\ EndRequest(h)
    /\ UNCHANGED <<disk, remote, worker>>

-----------------------------------------------------------------------------
(* GET /documents/<id>/ of a ready document: generate_download_url.        *)

BeginDownload(h, d) ==
    /\ HandlerAt(h, "idle")
    /\ row[d].status = "ready"
    /\ audit[d].links < MaxLinks
    /\ handler' = [handler EXCEPT ![h] =
                     [pc |-> "link", task |-> "none", doc |-> d,
                      file |-> None, seen |-> "ready", entries |-> 0]]
    /\ UNCHANGED <<db, disk, remote, worker, faultsLeft>>

\* The audit entry references the document, so it cannot outlive the row.
RecordLink(h) ==
    LET d == handler[h].doc IN
    /\ HandlerAt(h, "link")
    /\ \/ /\ RowExists(d)
          /\ audit' = [audit EXCEPT ![d].links = @ + 1]
          /\ NoFault
       \/ ~RowExists(d) /\ UNCHANGED audit /\ NoFault
       \/ (Fault("database") \/ Fault("storage")) /\ UNCHANGED audit
    /\ EndRequest(h)
    /\ UNCHANGED <<row, undone, disk, remote, worker>>

\* The process dies, or gunicorn kills it after its timeout: nothing is undone.
HandlerCrash(h) ==
    /\ ~HandlerAt(h, "idle")
    /\ Fault("handler_crash")
    /\ EndRequest(h)
    /\ IF HandlerAt(h, "erase") THEN Undo(h) ELSE UNCHANGED undone
    /\ UNCHANGED <<row, audit, disk, remote, worker>>

-----------------------------------------------------------------------------
(* upload_document_task and replace_document_task: _complete_pending_document *)

MessageOf(w) ==
    [task |-> worker[w].task, doc |-> worker[w].doc, retries |-> worker[w].retries]

\* A worker takes a message and reads the row.  The message stays with the
\* worker until the task ends (acks_late); a row that is not pending ends it.
Deliver(w, m) ==
    /\ WorkerAt(w, "idle")
    /\ queue[m] > 0
    /\ queue' = [queue EXCEPT ![m] = @ - 1]
    /\ \/ /\ IsPending(m.doc)
          /\ worker' = [worker EXCEPT ![w] =
                          [pc |-> "check", task |-> m.task, doc |-> m.doc,
                           retries |-> m.retries, file |-> row[m.doc].path,
                           seen |-> "pending", todo |-> {}]]
          /\ NoFault
       \/ ~IsPending(m.doc) /\ UNCHANGED worker /\ NoFault
       \/ Fault("database") /\ UNCHANGED worker
    /\ UNCHANGED <<db, disk, object, lastEvent, handler>>

CheckStaged(w) ==
    /\ WorkerAt(w, "check")
    /\ \/ worker[w].file \in staged /\ WorkerGoes(w, "open")
       \/ worker[w].file \notin staged /\ WorkerGoes(w, "mark")
    /\ UNCHANGED <<db, disk, remote, handler, faultsLeft>>

\* A file that vanished after the check raises FileNotFoundError, which is
\* neither retried nor marked as a failure: the task just ends.
OpenStaged(w) ==
    /\ WorkerAt(w, "open")
    /\ \/ worker[w].file \in staged /\ WorkerGoes(w, "put")
       \/ worker[w].file \notin staged /\ EndTask(w)
    /\ UNCHANGED <<db, disk, remote, handler, faultsLeft>>

\* Mutant: a task that gives up goes on as if the object had been stored.
StorageFailed_Ignored(w) ==
    WorkerGoes(w, IF worker[w].retries < MaxRetries THEN "retry" ELSE "commit")

\* ObjectStorageError: retried until the retries are used up.
StorageFailed(w) ==
    WorkerGoes(w, IF worker[w].retries < MaxRetries THEN "retry" ELSE "mark")

PutObject(w) ==
    LET stored ==
            /\ object' = [object EXCEPT ![worker[w].doc] = worker[w].file]
            /\ undone' = undone \ {<<worker[w].doc, None>>}
    IN
    /\ WorkerAt(w, "put")
    /\ \/ stored /\ WorkerGoes(w, "stat") /\ NoFault
       \/ Fault("storage") /\ StorageFailed(w) /\ UNCHANGED <<object, undone>>
       \/ Fault("lost_reply") /\ stored /\ StorageFailed(w)
    /\ UNCHANGED <<row, audit, disk, queue, lastEvent, handler>>

StatObject(w) ==
    LET found == object[worker[w].doc] # None IN
    /\ WorkerAt(w, "stat")
    /\ \/ found /\ WorkerGoes(w, "commit") /\ NoFault
       \/ ~found /\ StorageFailed(w) /\ NoFault
       \/ Fault("storage") /\ StorageFailed(w)
    /\ UNCHANGED <<db, disk, remote, handler>>

\* autoretry_for: the retry is a new message, sent before this one is
\* acknowledged.  A broker that refuses it loses the task; a worker that dies
\* in between leaves both messages.
Retry(w) ==
    LET again == [MessageOf(w) EXCEPT !.retries = @ + 1] IN
    /\ WorkerAt(w, "retry")
    /\ \/ Send(again) /\ NoFault
       \/ Fault("broker") /\ UNCHANGED queue
       \/ /\ Fault("worker_crash")
          /\ queue' = [m \in Messages |->
                         IF m \in {again, MessageOf(w)} THEN queue[m] + 1 ELSE queue[m]]
    /\ EndTask(w)
    /\ UNCHANGED <<db, disk, object, lastEvent, handler>>

MarkReady(w) ==
    LET d == worker[w].doc IN
    /\ WorkerAt(w, "commit")
    /\ \/ /\ IsPending(d)
          /\ row' = [row EXCEPT ![d].status = "ready", ![d].path = None]
          /\ WorkerGoes(w, "reread")
       \/ ~IsPending(d) /\ EndTask(w) /\ UNCHANGED row
    /\ UNCHANGED <<audit, undone, disk, remote, handler, faultsLeft>>

\* Mutant: the event announces the row as it was before the update.
StatusRead_Stale(d) == "pending"

StatusRead(d) == row[d].status

\* The row is read again after it has been updated: the event announces what
\* this read finds, and a row that is gone ends the task before the unlink.
Reread(w) ==
    LET d == worker[w].doc IN
    /\ WorkerAt(w, "reread")
    /\ \/ /\ RowExists(d)
          /\ worker' = [worker EXCEPT ![w].pc = "unlink", ![w].seen = StatusRead(d)]
       \/ ~RowExists(d) /\ EndTask(w)
    /\ UNCHANGED <<db, disk, remote, handler, faultsLeft>>

\* Mutant: the path is taken from the row that was read again.
StoredFile_OfRow(w) == row[worker[w].doc].path

\* The path is the one the task started with.
StoredFile(w) == worker[w].file

Unlink(w) ==
    /\ WorkerAt(w, "unlink")
    /\ DeleteLocalFile(StoredFile(w))
    /\ WorkerGoes(w, "publish")
    /\ UNCHANGED <<db, minted, remote, handler, faultsLeft>>

PublishOutcome(w) ==
    /\ WorkerAt(w, "publish")
    /\ \/ /\ Broadcast(worker[w].doc, EventKind(worker[w].task), worker[w].seen)
          /\ NoFault
       \/ Fault("redis") /\ UNCHANGED lastEvent
    /\ EndTask(w)
    /\ UNCHANGED <<db, disk, object, queue, handler>>

\* mark_document_upload_failed, from the missing file or from on_failure.
MarkFailed(w) ==
    LET d == worker[w].doc IN
    /\ WorkerAt(w, "mark")
    /\ \/ /\ IsPending(d)
          /\ row' = [row EXCEPT ![d].status = "failed"]
          /\ WorkerGoes(w, "remark")
       \/ ~IsPending(d) /\ EndTask(w) /\ UNCHANGED row
    /\ UNCHANGED <<audit, undone, disk, remote, handler, faultsLeft>>

RereadFailed(w) ==
    LET d == worker[w].doc IN
    /\ WorkerAt(w, "remark")
    /\ \/ /\ RowExists(d)
          /\ worker' = [worker EXCEPT ![w].pc = "publish", ![w].seen = StatusRead(d)]
       \/ ~RowExists(d) /\ EndTask(w)
    /\ UNCHANGED <<db, disk, remote, handler, faultsLeft>>

-----------------------------------------------------------------------------
(* reconcile_failed_document_uploads_task: enqueue_failed_upload_retries.  *)

\* Mutant: .filter(local_file_path="") in place of .exclude.
FailedUploads_NoPath ==
    {<<d, row[d].path>> : d \in {e \in Docs : IsFailed(e) /\ row[e].path = None}}

\* The query is evaluated once; it selects failed rows that have a path.
FailedUploads ==
    {<<d, row[d].path>> : d \in {e \in Docs : IsFailed(e) /\ row[e].path # None}}

BeginReconcile(w) ==
    /\ WorkerAt(w, "idle")
    /\ FailedUploads # {}
    /\ worker' = [worker EXCEPT ![w] =
                    [IdleWorker EXCEPT !.pc = "scan", !.task = "reconcile",
                                       !.todo = FailedUploads]]
    /\ UNCHANGED <<db, disk, remote, handler, faultsLeft>>

\* One turn of the loop: a row whose file is no longer staged is passed over.
ReconcileNext(w) ==
    \E e \in worker[w].todo :
        /\ WorkerAt(w, "scan")
        /\ \/ /\ e[2] \in staged
              /\ worker' = [worker EXCEPT ![w].pc = "take", ![w].doc = e[1],
                                          ![w].todo = @ \ {e}]
           \/ /\ e[2] \notin staged
              /\ worker' = [worker EXCEPT ![w].todo = @ \ {e}]
        /\ UNCHANGED <<db, disk, remote, handler, faultsLeft>>

\* The row is taken back only if it is still failed.
TakeFailed(w) ==
    LET d == worker[w].doc IN
    /\ WorkerAt(w, "take")
    /\ \/ /\ IsFailed(d)
          /\ row' = [row EXCEPT ![d].status = "pending"]
          /\ WorkerGoes(w, "requeue")
       \/ /\ ~IsFailed(d)
          /\ worker' = [worker EXCEPT ![w].pc = "scan", ![w].doc = None]
          /\ UNCHANGED row
    /\ UNCHANGED <<audit, undone, disk, remote, handler, faultsLeft>>

\* Replacements are retried by the upload task too.  A broker that refuses the
\* message ends the reconciliation with the row already pending.
Requeue(w) ==
    /\ WorkerAt(w, "requeue")
    /\ \/ /\ Send(FreshMessage("upload", worker[w].doc))
          /\ worker' = [worker EXCEPT ![w].pc = "scan", ![w].doc = None]
          /\ NoFault
       \/ Fault("broker") /\ EndTask(w) /\ UNCHANGED queue
    /\ UNCHANGED <<db, disk, object, lastEvent, handler>>

FinishReconcile(w) ==
    /\ WorkerAt(w, "scan")
    /\ worker[w].todo = {}
    /\ EndTask(w)
    /\ UNCHANGED <<db, disk, remote, handler, faultsLeft>>

-----------------------------------------------------------------------------
(* What may happen to a worker.                                            *)

\* Any other error ends the task: it is not retried, and its message is gone.
WorkerDatabaseError(w) ==
    /\ worker[w].pc \in {"commit", "reread", "mark", "remark", "scan", "take"}
    /\ Fault("database")
    /\ EndTask(w)
    /\ UNCHANGED <<db, disk, remote, handler>>

\* Mutant: messages are acknowledged when they are received.
ReturnMessage_AckedEarly(w) == UNCHANGED queue

\* acks_late and reject_on_worker_lost: the message goes back to the queue.
ReturnMessage(w) == Send(MessageOf(w))

\* The process dies.  A reconciliation that is delivered again is no different from
\* the one the schedule starts next.
WorkerCrash(w) ==
    /\ \/ /\ worker[w].task \in UploadTasks
          /\ Fault("worker_crash")
          /\ ReturnMessage(w)
       \/ /\ worker[w].task = "reconcile"
          /\ Fault("reconcile_crash")
          /\ UNCHANGED queue
    /\ EndTask(w)
    /\ UNCHANGED <<db, disk, object, lastEvent, handler>>

\* The connection to the broker is lost: it delivers the unacknowledged message
\* again while the task goes on.
Redeliver(w) ==
    /\ worker[w].task \in UploadTasks
    /\ Fault("redelivery")
    /\ Send(MessageOf(w))
    /\ UNCHANGED <<db, disk, object, lastEvent, handler, worker>>

-----------------------------------------------------------------------------
ClientRequest(h) ==
    \E d \in Docs :
        \/ \E f \in Files : BeginUpload(h, d, f) \/ BeginReplace(h, d, f)
        \/ BeginDelete(h, d)
        \/ BeginDownload(h, d)

HandlerStep(h) ==
    \/ CreateRow(h)
    \/ SaveReplacement(h)
    \/ Enqueue(h)
    \/ PublishAccepted(h)
    \/ RemoveObject(h)
    \/ RemoveStagedFile(h)
    \/ EraseRow(h)
    \/ RecordLink(h)

TaskStep(w) ==
    \/ CheckStaged(w)
    \/ OpenStaged(w)
    \/ PutObject(w)
    \/ StatObject(w)
    \/ Retry(w)
    \/ MarkReady(w)
    \/ Reread(w)
    \/ Unlink(w)
    \/ PublishOutcome(w)
    \/ MarkFailed(w)
    \/ RereadFailed(w)
    \/ ReconcileNext(w)
    \/ TakeFailed(w)
    \/ Requeue(w)
    \/ FinishReconcile(w)

TakeMessage == \E w \in Workers, m \in Messages : Deliver(w, m)
StartReconcile == \E w \in Workers : BeginReconcile(w)

Next ==
    \/ \E h \in Handlers : ClientRequest(h) \/ HandlerStep(h) \/ HandlerCrash(h)
    \/ \E w \in Workers :
          TaskStep(w) \/ WorkerDatabaseError(w) \/ WorkerCrash(w) \/ Redeliver(w)
    \/ TakeMessage
    \/ StartReconcile

Spec == Init /\ [][Next]_vars

\* A request or a task that has begun goes on, the broker delivers, and the
\* schedule starts the reconciliation again and again.  Nothing obliges a client
\* to send a request or a fault to happen.
FairSpec ==
    /\ Spec
    /\ \A h \in Handlers : WF_vars(HandlerStep(h))
    /\ \A w \in Workers : WF_vars(TaskStep(w))
    /\ WF_vars(TakeMessage)
    /\ WF_vars(StartReconcile)

-----------------------------------------------------------------------------
(* Correctness.                                                            *)

HandlerPcs == {"idle", "create", "save", "enqueue", "publish", "remove", "erase", "link"}

WorkerPcs ==
    {"idle", "check", "open", "put", "stat", "retry", "commit", "reread", "unlink",
     "publish", "mark", "remark", "scan", "take", "requeue"}

RowType == [status : Statuses, path : Paths, checksum : Paths]
AuditType == [created : Nat, replaced : Nat, deleted : Nat, links : Nat]
EventType == [kind : Kinds \cup {"none"}, status : Live \cup {"none"}]

HandlerFields ==
    [pc : HandlerPcs, task : UploadTasks \cup {"none"}, doc : Docs \cup {None},
     file : Paths, seen : Live \cup {"none"}, entries : Nat]

HandlerType == {r \in HandlerFields : r.pc # "idle" => r.doc \in Docs}

WorkerType ==
    [pc : WorkerPcs, task : UploadTasks \cup {"reconcile", "none"},
     doc : Docs \cup {None}, retries : 0 .. MaxRetries, file : Paths,
     seen : Live \cup {"none"}, todo : SUBSET (Docs \X Files)]

\* Every variable keeps the shape the code gives it: in particular a retry never
\* goes past max_retries, a request is about a document and a task never runs with
\* fields of another kind.
TypeOK ==
    /\ row \in [Docs -> RowType]
    /\ audit \in [Docs -> AuditType]
    /\ undone \subseteq Docs \X Paths
    /\ staged \subseteq minted
    /\ minted \subseteq Files
    /\ object \in [Docs -> Paths]
    /\ queue \in [Messages -> Nat]
    /\ lastEvent \in [Docs -> EventType]
    /\ handler \in [Handlers -> HandlerType]
    /\ worker \in [Workers -> WorkerType]
    /\ faultsLeft \in 0 .. MaxFaults

\* A row has a local_file_path exactly while its content is still to be stored,
\* and the path is the one staged with the row's checksum: whichever request or
\* task updates the row last, its fields come from one upload.
RowConsistent ==
    \A d \in Docs :
        /\ row[d].status \in {"pending", "failed"} =>
              row[d].path \in Files /\ row[d].path = row[d].checksum
        /\ row[d].status = "ready" => row[d].path = None /\ row[d].checksum \in Files

\* The audit log tells the life of every document, whatever the requests that
\* race on it: one creation, at least one deletion exactly when the row is gone,
\* and no replacement of a document that never existed.
AuditMatchesRow ==
    \A d \in Docs :
        /\ audit[d].created = IF row[d].status = "absent" THEN 0 ELSE 1
        /\ row[d].status = "deleted" <=> audit[d].deleted > 0
        /\ row[d].status = "absent" => audit[d].replaced = 0

\* The request that is allowed to remove the staged file of a row: one that
\* deletes the document, or one that the broker refused.
MayRemoveFileOf(d) ==
    \E h \in Handlers : handler[h].doc = d /\ handler[h].pc \in {"remove", "enqueue"}

\* A staged file that a row still points to is never removed by a worker, nor by
\* a request for another document or one whose transaction did not commit.
StagedFileKept ==
    [][\A d \in Docs :
          row[d].path \in staged /\ row'[d].path = row[d].path =>
              row[d].path \in staged' \/ MayRemoveFileOf(d)]_vars

\* A worker that will settle a pending document, or send the message that does.
Drives(w, d) ==
    /\ worker[w].doc = d
    /\ \/ worker[w].pc \in {"check", "open"} /\ worker[w].file = row[d].path
       \/ worker[w].pc \in {"put", "stat", "retry", "commit", "mark", "requeue"}

\* A deletion has taken what the row names (the staged file, or the object where there
\* is none) and is about to erase the row, or could not.
Stripped(d) ==
    \/ <<d, row[d].path>> \in undone
    \/ \E h \in Handlers :
          handler[h].doc = d /\ HandlerAt(h, "erase") /\ Taken(h) = row[d].path

\* No pending document is forgotten: a message is queued for it, a worker is busy
\* with it, or the request that accepted it is about to send the message.  Only a
\* deletion that has taken its file may leave it to nobody.
PendingDriven ==
    \A d \in Docs : IsPending(d) =>
        \/ \E m \in Messages : m.doc = d /\ queue[m] > 0
        \/ \E w \in Workers : Drives(w, d)
        \/ \E h \in Handlers : handler[h].doc = d /\ HandlerAt(h, "enqueue")
        \/ Stripped(d)

\* A ready document has its object in the store, whatever races and fails, unless a
\* deletion that found it ready removed the object, and it was not stored again.
ReadyHasObject ==
    \A d \in Docs : row[d].status = "ready" => object[d] # None \/ Stripped(d)

\* A ready document is never served with another upload's content than the one
\* its checksum, size and file name describe.
ContentMatches ==
    \A d \in Docs : row[d].status = "ready" => object[d] \in {row[d].checksum, None}

\* Every accepted upload or replacement is stored in the end, unless the document
\* is deleted: retries, redelivery and reconciliation see to it.
EventuallyStored ==
    \A d \in Docs : IsPending(d) ~> row[d].status \in {"ready", "deleted"}

\* A failed document whose file is still staged does not stay failed.
FailedRetried ==
    \A d \in Docs : IsFailed(d) /\ row[d].path \in staged ~> ~IsFailed(d)

\* A task that has made a document ready or failed announces that status, unless
\* the row has moved on before the announcement.
StatusBroadcast ==
    \A w \in Workers, d \in Docs, s \in {"ready", "failed"} :
        /\ worker[w].doc = d
        /\ worker[w].pc \in {"reread", "remark"}
        /\ row[d].status = s
        ~> lastEvent[d].status = s \/ row[d].status # s

\* docs: deleting a document deletes its object from MinIO and removes its row, so
\* that nothing is left of it once no task runs for it.
DeleteRemovesObject ==
    \A d \in Docs :
        row[d].status = "deleted" /\ (\A w \in Workers : worker[w].doc # d) =>
            object[d] = None

\* docs: reconciliation retries the failed uploads that still have a staged file:
\* such an upload is queued again, stored or deleted.
FailedUploadsReconciled ==
    \A d \in Docs :
        IsFailed(d) /\ row[d].path \in staged ~>
            \/ row[d].status \in {"ready", "deleted"}
            \/ \E m \in Messages : m.doc = d /\ queue[m] > 0
            \/ \E w \in Workers : worker[w].doc = d /\ worker[w].task \in UploadTasks

-----------------------------------------------------------------------------
(* Refinement.                                                             *)

statusOf == [d \in Docs |-> row[d].status]
contentOf == [d \in Docs |-> row[d].checksum]

Lifecycle ==
    INSTANCE DocumentLifecycle WITH
        Contents <- Files, ReplaceableIn <- Live,
        status <- statusOf, content <- contentOf

DocumentedLifecycle ==
    INSTANCE DocumentLifecycle WITH
        Contents <- Files, ReplaceableIn <- {"ready"},
        status <- statusOf, content <- contentOf

\* Whatever the interleaving and the faults, a document lives as the abstract
\* lifecycle says, if a replacement may find the row in any status.
RefinesLifecycle == Lifecycle!Spec

\* docs: only ready documents can be replaced.
RefinesDocumentedLifecycle == DocumentedLifecycle!Spec

=============================================================================
