------------------------- MODULE DocumentFaultProofs -------------------------
(***************************************************************************)
(* What the pipeline promises while some kinds of fault do not happen, for *)
(* any number of documents, processes, retries and faults of the others.   *)
(***************************************************************************)
EXTENDS DocumentLifecycleProofs

USE NoneAssumption, BoundsAssumption

-----------------------------------------------------------------------------
(* What a step leaves alone.                                               *)

HandlerActs(h) == ClientRequest(h) \/ HandlerStep(h) \/ HandlerCrash(h)

LEMMA HandlerFrame ==
    ASSUME TypeOK, NEW h \in Handlers, HandlerActs(h)
    PROVE  /\ \A g \in Handlers \ {h} : handler'[g] = handler[g]
           /\ UNCHANGED worker
  <1>1. UNCHANGED worker
    BY DEF HandlerActs, ClientRequest, BeginUpload, BeginReplace, BeginDelete, BeginDownload,
           HandlerStep, CreateRow, SaveReplacement, Enqueue, PublishAccepted, RemoveObject,
           RemoveStagedFile, EraseRow, RecordLink, HandlerCrash
  <1>2. \/ \E r : handler' = [handler EXCEPT ![h] = r]
        \/ \E pc : HandlerGoes(h, pc)
        \/ GoErase(h)
    BY DEF HandlerActs, ClientRequest, BeginUpload, BeginReplace, BeginDelete, BeginDownload,
           HandlerStep, CreateRow, SaveReplacement, Enqueue, PublishAccepted, RemoveObject,
           RemoveStagedFile, EraseRow, RecordLink, HandlerCrash, EndRequest
  <1>3. \A g \in Handlers \ {h} : handler'[g] = handler[g]
    BY <1>2 DEF TypeOK, HandlerGoes, GoErase
  <1> QED BY <1>1, <1>3

LEMMA WorkerFrame ==
    ASSUME TypeOK, NEW w \in Workers, WorkerStep(w)
    PROVE  /\ \A v \in Workers \ {w} : worker'[v] = worker[v]
           /\ UNCHANGED handler
  <1>1. UNCHANGED handler
    BY WorkerStepFrame
  <1>2. CASE TaskStep(w)
    <2>1. CASE ReconcileNext(w)
      BY <2>1 DEF ReconcileNext, TypeOK
    <2>2. CASE ~ReconcileNext(w)
      BY <1>2, <2>2
      DEF TypeOK, TaskStep, CheckStaged, OpenStaged, PutObject, StatObject, StorageFailed,
          Retry, MarkReady, Reread, Unlink, PublishOutcome, MarkFailed, RereadFailed,
          TakeFailed, Requeue, FinishReconcile, WorkerGoes, EndTask
    <2> QED BY <2>1, <2>2
  <1>3. CASE ~TaskStep(w)
    BY <1>3
    DEF TypeOK, WorkerStep, WorkerDatabaseError, WorkerCrash, Redeliver, BeginReconcile,
        Deliver, EndTask
  <1> QED BY <1>1, <1>2, <1>3

LEMMA StepCases ==
    ASSUME [Next]_vars
    PROVE  \/ \E h \in Handlers : HandlerActs(h)
           \/ \E w \in Workers : WorkerStep(w)
           \/ UNCHANGED vars
  BY NextCases DEF HandlerActs

LEMMA WorkerGoesRow ==
    ASSUME TypeOK, NEW w \in Workers, NEW pc, WorkerGoes(w, pc)
    PROVE  /\ worker'[w] = [worker[w] EXCEPT !.pc = pc] /\ worker'[w].pc = pc
           /\ worker'[w].doc = worker[w].doc /\ worker'[w].file = worker[w].file
  BY DEF TypeOK, WorkerGoes, WorkerType

LEMMA HandlerGoesRow ==
    ASSUME TypeOK, NEW h \in Handlers, NEW pc, HandlerGoes(h, pc)
    PROVE  /\ handler'[h].pc = pc
           /\ handler'[h].task = handler[h].task /\ handler'[h].doc = handler[h].doc
           /\ handler'[h].file = handler[h].file /\ handler'[h].seen = handler[h].seen
  <1>1. handler'[h] = [handler[h] EXCEPT !.pc = pc]
    BY DEF TypeOK, HandlerGoes
  <1> QED BY <1>1, HandlerDoc DEF HandlerFields

LEMMA GoEraseRow ==
    ASSUME TypeOK, NEW h \in Handlers, GoErase(h)
    PROVE  /\ handler'[h].pc = "erase"
           /\ handler'[h].task = handler[h].task /\ handler'[h].doc = handler[h].doc
           /\ handler'[h].file = handler[h].file /\ handler'[h].seen = handler[h].seen
           /\ Taken(h)' = Taken(h)
  <1> DEFINE n == Entries(handler[h].doc)
  <1>1. handler'[h] = [handler[h] EXCEPT !.pc = "erase", !.entries = n]
    BY DEF TypeOK, GoErase
  <1> HIDE DEF n
  <1> QED BY <1>1, HandlerDoc DEF HandlerFields, Taken

LEMMA ClientRequestRow ==
    ASSUME TypeOK, NEW h \in Handlers, ClientRequest(h)
    PROVE  handler'[h].pc \in {"create", "save", "remove", "link"}
  <1>1. PICK d \in Docs :
           \/ \E f \in Files : BeginUpload(h, d, f) \/ BeginReplace(h, d, f)
           \/ BeginDelete(h, d)
           \/ BeginDownload(h, d)
    BY DEF ClientRequest
  <1>2. ASSUME NEW f \in Files, BeginUpload(h, d, f) PROVE handler'[h].pc = "create"
    BY <1>2 DEF TypeOK, BeginUpload
  <1>3. ASSUME NEW f \in Files, BeginReplace(h, d, f) PROVE handler'[h].pc = "save"
    BY <1>3 DEF TypeOK, BeginReplace
  <1>4. BeginDelete(h, d) => handler'[h].pc = "remove"
    BY DEF TypeOK, BeginDelete
  <1>5. BeginDownload(h, d) => handler'[h].pc = "link"
    BY DEF TypeOK, BeginDownload
  <1> QED BY <1>1, <1>2, <1>3, <1>4, <1>5

LEMMA EndRequestRow ==
    ASSUME TypeOK, NEW h \in Handlers, EndRequest(h)
    PROVE  handler'[h].pc = "idle"
  BY DEF TypeOK, EndRequest, IdleHandler

-----------------------------------------------------------------------------
(* What a task or a request carries fits the message it may send.          *)

UploadPcs ==
    {"check", "open", "put", "stat", "retry", "commit", "reread", "unlink", "publish",
     "mark", "remark"}

\* A record of a worker; "retry" is only reached with a retry left.
TaskFits(r) ==
    r.pc \in UploadPcs =>
        /\ r.task \in UploadTasks
        /\ r.file \in Files
        /\ r.pc = "retry" => r.retries < MaxRetries

RequestFits(r) == r.pc \in {"create", "save", "enqueue"} => r.task \in UploadTasks

Fits ==
    /\ \A w \in Workers : TaskFits(worker[w])
    /\ \A h \in Handlers : RequestFits(handler[h])

\* A task keeps what it carries until it ends.
TaskKept(w) ==
    LET r == worker'[w] IN
    \/ r = IdleWorker
    \/ /\ r.task = worker[w].task /\ r.file = worker[w].file
       /\ r.retries = worker[w].retries
       /\ r.pc \in UploadPcs => worker[w].pc \in UploadPcs /\ r.doc = worker[w].doc
       /\ r.pc = "retry" => worker[w].retries < MaxRetries

LEMMA TaskStepKept ==
    ASSUME TypeOK, NEW w \in Workers, TaskStep(w)
    PROVE  TaskKept(w)
  <1>1. ASSUME EndTask(w) PROVE TaskKept(w)
    BY <1>1 DEF TypeOK, EndTask, TaskKept
  <1>2. ASSUME NEW pc, WorkerGoes(w, pc), worker[w].pc \in UploadPcs,
               pc = "retry" => worker[w].retries < MaxRetries
        PROVE  TaskKept(w)
    <2>1. worker'[w] = [worker[w] EXCEPT !.pc = pc] /\ worker'[w].pc = pc
      BY <1>2, WorkerGoesRow
    <2> QED BY <1>2, <2>1 DEF TypeOK, WorkerType, TaskKept
  <1>3. ASSUME NEW r, worker' = [worker EXCEPT ![w] = r], r.pc \notin UploadPcs,
               r.task = worker[w].task, r.file = worker[w].file,
               r.retries = worker[w].retries
        PROVE  TaskKept(w)
    BY <1>3 DEF TypeOK, TaskKept, UploadPcs
  <1>4. worker[w] \in WorkerType
    BY DEF TypeOK
  <1>5. CASE CheckStaged(w) \/ OpenStaged(w) \/ Unlink(w) \/ MarkReady(w) \/ MarkFailed(w)
    BY <1>1, <1>2, <1>5
    DEF CheckStaged, OpenStaged, Unlink, MarkReady, MarkFailed, WorkerAt, UploadPcs
  <1>6. CASE PutObject(w) \/ StatObject(w)
    BY <1>2, <1>6 DEF PutObject, StatObject, StorageFailed, WorkerAt, UploadPcs
  <1>7. CASE Retry(w) \/ PublishOutcome(w) \/ FinishReconcile(w)
    BY <1>1, <1>7 DEF Retry, PublishOutcome, FinishReconcile
  <1>8. CASE Reread(w) \/ RereadFailed(w)
    <2>1. CASE EndTask(w)
      BY <1>1, <2>1
    <2>2. ASSUME NEW pc \in {"unlink", "publish"}, NEW s, worker[w].pc \in UploadPcs,
                 worker' = [worker EXCEPT ![w].pc = pc, ![w].seen = s]
          PROVE  TaskKept(w)
      <3>1. worker'[w] = [worker[w] EXCEPT !.pc = pc, !.seen = s]
        BY <2>2 DEF TypeOK
      <3>2. /\ worker'[w].pc = pc /\ worker'[w].task = worker[w].task
            /\ worker'[w].doc = worker[w].doc /\ worker'[w].file = worker[w].file
            /\ worker'[w].retries = worker[w].retries
        BY <1>4, <3>1 DEF WorkerType
      <3> QED BY <2>2, <3>2 DEF TaskKept
    <2> QED BY <1>8, <2>1, <2>2 DEF Reread, RereadFailed, WorkerAt, UploadPcs
  <1>9. CASE ReconcileNext(w)
    <2>1. PICK e \in worker[w].todo :
             \/ worker' = [worker EXCEPT ![w].pc = "take", ![w].doc = e[1],
                                         ![w].todo = @ \ {e}]
             \/ worker' = [worker EXCEPT ![w].todo = @ \ {e}]
      BY <1>9 DEF ReconcileNext
    <2>2. worker[w].pc = "scan"
      BY <1>9 DEF ReconcileNext, WorkerAt
    <2>3. \/ worker'[w] = [worker[w] EXCEPT !.pc = "take", !.doc = e[1], !.todo = @ \ {e}]
          \/ worker'[w] = [worker[w] EXCEPT !.todo = @ \ {e}]
      BY <2>1 DEF TypeOK
    <2> QED BY <1>4, <2>2, <2>3 DEF WorkerType, TaskKept, UploadPcs
  <1>10. CASE TakeFailed(w) \/ Requeue(w)
    <2>1. CASE EndTask(w)
      BY <1>1, <2>1
    <2>2. ASSUME worker' = [worker EXCEPT ![w].pc = "scan", ![w].doc = None]
          PROVE  TaskKept(w)
      <3>1. worker'[w] = [worker[w] EXCEPT !.pc = "scan", !.doc = None]
        BY <2>2 DEF TypeOK
      <3> QED BY <1>4, <3>1 DEF WorkerType, TaskKept, UploadPcs
    <2>3. ASSUME WorkerGoes(w, "requeue") PROVE TaskKept(w)
      <3>1. worker'[w] = [worker[w] EXCEPT !.pc = "requeue"]
        BY <2>3, WorkerGoesRow
      <3> QED BY <1>4, <3>1 DEF WorkerType, TaskKept, UploadPcs
    <2> QED BY <1>10, <2>1, <2>2, <2>3 DEF TakeFailed, Requeue
  <1> QED BY <1>5, <1>6, <1>7, <1>8, <1>9, <1>10 DEF TaskStep

LEMMA FitsWorkerStep ==
    ASSUME TypeOK, RowConsistent, Fits, NEW w \in Workers, WorkerStep(w)
    PROVE  Fits'
  <1>1. \A v \in Workers \ {w} : worker'[v] = worker[v]
    BY WorkerFrame
  <1>2. UNCHANGED handler
    BY WorkerFrame
  <1>3. TaskFits(worker'[w])
    <2>1. TaskFits(worker[w])
      BY DEF Fits
    <2>2. TaskFits(IdleWorker)
      BY DEF TaskFits, IdleWorker, UploadPcs
    <2>3. CASE TaskStep(w)
      BY <2>1, <2>2, <2>3, TaskStepKept DEF TaskKept, TaskFits
    <2>4. CASE WorkerDatabaseError(w) \/ WorkerCrash(w) \/ Redeliver(w)
      BY <2>1, <2>2, <2>4 DEF WorkerDatabaseError, WorkerCrash, Redeliver, EndTask, TypeOK
    <2>5. CASE BeginReconcile(w)
      <3> DEFINE r == [IdleWorker EXCEPT !.pc = "scan", !.task = "reconcile",
                                         !.todo = FailedUploads]
      <3>1. r.pc = "scan"
        BY DEF IdleWorker
      <3>2. worker' = [worker EXCEPT ![w] = r]
        BY <2>5 DEF BeginReconcile
      <3> HIDE DEF r
      <3> QED BY <3>1, <3>2 DEF TypeOK, TaskFits, UploadPcs
    <2>6. ASSUME NEW m \in Messages, Deliver(w, m) PROVE TaskFits(worker'[w])
      <3>1. CASE UNCHANGED worker
        BY <2>1, <3>1
      <3>2. CASE ~UNCHANGED worker
        <4> DEFINE r == [pc |-> "check", task |-> m.task, doc |-> m.doc,
                         retries |-> m.retries, file |-> row[m.doc].path,
                         seen |-> "pending", todo |-> {}]
        <4>1. r.pc = "check" /\ r.task = m.task /\ r.file = row[m.doc].path
          OBVIOUS
        <4>2. worker' = [worker EXCEPT ![w] = r] /\ row[m.doc].status = "pending"
          BY <2>6, <3>2 DEF Deliver, IsPending
        <4>3. m.task \in UploadTasks /\ row[m.doc].path \in Files
          BY <4>2 DEF Messages, RowConsistent
        <4> HIDE DEF r
        <4> QED BY <4>1, <4>2, <4>3 DEF TypeOK, TaskFits
      <3> QED BY <3>1, <3>2
    <2> QED BY <2>3, <2>4, <2>5, <2>6 DEF WorkerStep
  <1>4. \A v \in Workers : TaskFits(worker'[v])
    <2>1. \A v \in Workers \ {w} : TaskFits(worker'[v])
      BY <1>1 DEF Fits
    <2> QED BY <1>3, <2>1
  <1> QED BY <1>2, <1>4 DEF Fits

LEMMA FitsHandler ==
    ASSUME TypeOK, Fits, NEW h \in Handlers, HandlerActs(h)
    PROVE  Fits'
  <1>1. \A g \in Handlers \ {h} : handler'[g] = handler[g]
    BY HandlerFrame
  <1>2. UNCHANGED worker
    BY HandlerFrame
  <1>3. RequestFits(handler'[h])
    <2>1. RequestFits(handler[h])
      BY DEF Fits
    <2>2. RequestFits(IdleHandler)
      BY DEF RequestFits, IdleHandler
    <2>3. ASSUME NEW r, handler' = [handler EXCEPT ![h] = r], RequestFits(r)
          PROVE  RequestFits(handler'[h])
      BY <2>3 DEF TypeOK
    <2>4. CASE ClientRequest(h)
      <3>1. PICK d \in Docs :
               \/ \E f \in Files : BeginUpload(h, d, f) \/ BeginReplace(h, d, f)
               \/ BeginDelete(h, d)
               \/ BeginDownload(h, d)
        BY <2>4 DEF ClientRequest
      <3>2. ASSUME NEW f \in Files, BeginUpload(h, d, f) PROVE RequestFits(handler'[h])
        BY <2>3, <3>2 DEF BeginUpload, RequestFits, UploadTasks
      <3>3. ASSUME NEW f \in Files, BeginReplace(h, d, f) PROVE RequestFits(handler'[h])
        BY <2>3, <3>3 DEF BeginReplace, RequestFits, UploadTasks
      <3>4. CASE BeginDelete(h, d)
        BY <2>3, <3>4 DEF BeginDelete, RequestFits
      <3>5. CASE BeginDownload(h, d)
        BY <2>3, <3>5 DEF BeginDownload, RequestFits
      <3> QED BY <3>1, <3>2, <3>3, <3>4, <3>5
    <2>5. CASE EndRequest(h)
      BY <2>2, <2>3, <2>5 DEF EndRequest
    <2>6. ASSUME NEW pc, HandlerGoes(h, pc),
                 pc = "enqueue" => handler[h].pc \in {"create", "save"},
                 pc \notin {"create", "save"}
          PROVE  RequestFits(handler'[h])
      BY <2>1, <2>6, HandlerGoesRow DEF RequestFits
    <2>7. CASE GoErase(h)
      BY <2>7, GoEraseRow DEF RequestFits
    <2> QED
      BY <2>4, <2>5, <2>6, <2>7
      DEF HandlerActs, HandlerStep, CreateRow, SaveReplacement, Enqueue, PublishAccepted,
          RemoveObject, RemoveStagedFile, EraseRow, RecordLink, HandlerCrash, HandlerAt
  <1>4. \A g \in Handlers : RequestFits(handler'[g])
    <2>1. \A g \in Handlers \ {h} : RequestFits(handler'[g])
      BY <1>1 DEF Fits
    <2> QED BY <1>3, <2>1
  <1> QED BY <1>2, <1>4 DEF Fits

LEMMA FitsStep == TypeOK /\ RowConsistent /\ Fits /\ [Next]_vars => Fits'
  <1>1. UNCHANGED vars /\ Fits => Fits'
    BY DEF vars, Fits
  <1> QED BY <1>1, FitsWorkerStep, FitsHandler, StepCases

LEMMA FitsCorrect == Spec => []Fits
  <1>1. Init => Fits
    BY DEF Init, Fits, TaskFits, RequestFits, IdleHandler, IdleWorker, UploadPcs
  <1> QED BY <1>1, FitsStep, TypeCorrect, RowsConsistent, PTL DEF Spec

-----------------------------------------------------------------------------
(* What a deletion has taken.                                              *)

Erases(h, d, p) == handler[h].doc = d /\ handler[h].pc = "erase" /\ Taken(h) = p

\* A deletion has taken p of the document and is about to erase the row, or could not.
Gone(d, p) == <<d, p>> \in undone \/ \E h \in Handlers : Erases(h, d, p)

\* A request that is about to erase a row does it, or leaves the row without what it
\* has taken.
LEMMA ErasesKept ==
    ASSUME TypeOK, [Next]_vars, NEW h \in Handlers, NEW d \in Docs, NEW p, Erases(h, d, p)
    PROVE  \/ Erases(h, d, p)'
           \/ <<d, p>> \in undone'
           \/ row'[d].status = "deleted" /\ row'[d].path = None
  <1>1. handler'[h] = handler[h] => Erases(h, d, p)'
    BY DEF Erases, Taken
  <1>2. ASSUME NEW g \in Handlers, HandlerActs(g), g # h PROVE handler'[h] = handler[h]
    BY <1>2, HandlerFrame
  <1>3. ASSUME HandlerActs(h)
        PROVE  <<d, p>> \in undone' \/ (row'[d].status = "deleted" /\ row'[d].path = None)
    <2>1. Undo(h) => <<d, p>> \in undone'
      BY DEF Undo, Erases
    <2>2. EraseRow(h) \/ HandlerCrash(h)
      BY <1>3
      DEF HandlerActs, ClientRequest, BeginUpload, BeginReplace, BeginDelete, BeginDownload,
          HandlerStep, CreateRow, SaveReplacement, Enqueue, PublishAccepted, RemoveObject,
          RemoveStagedFile, RecordLink, HandlerAt, Erases
    <2>3. CASE HandlerCrash(h)
      BY <2>1, <2>3 DEF HandlerCrash, HandlerAt, Erases
    <2>4. CASE row' = [row EXCEPT ![d] = [status |-> "deleted", path |-> None, checksum |-> None]]
      BY <2>4 DEF TypeOK
    <2> QED BY <2>1, <2>2, <2>3, <2>4 DEF EraseRow, Erases
  <1>4. ASSUME NEW w \in Workers, WorkerStep(w) PROVE handler'[h] = handler[h]
    BY <1>4, WorkerFrame
  <1>5. UNCHANGED vars => handler'[h] = handler[h]
    BY DEF vars
  <1> QED BY <1>1, <1>2, <1>3, <1>4, <1>5, StepCases

\* Only a task that stores the object gives back what a deletion took.
LEMMA UndoneKept ==
    ASSUME TypeOK, [Next]_vars, NEW d \in Docs, NEW p, <<d, p>> \in undone
    PROVE  \/ <<d, p>> \in undone'
           \/ /\ p = None
              /\ \E w \in Workers :
                    PutObject(w) /\ worker[w].doc = d /\ object'[d] = worker[w].file
  <1>1. ASSUME NEW h \in Handlers, HandlerActs(h) PROVE <<d, p>> \in undone'
    BY <1>1
    DEF HandlerActs, ClientRequest, BeginUpload, BeginReplace, BeginDelete, BeginDownload,
        HandlerStep, CreateRow, SaveReplacement, Enqueue, PublishAccepted, RemoveObject,
        RemoveStagedFile, EraseRow, RecordLink, HandlerCrash, Undo, db
  <1>2. ASSUME NEW w \in Workers, WorkerStep(w), <<d, p>> \notin undone'
        PROVE  p = None /\ PutObject(w) /\ worker[w].doc = d /\ object'[d] = worker[w].file
    <2>1. PutObject(w)
      BY <1>2
      DEF WorkerStep, TaskStep, CheckStaged, OpenStaged, StatObject, Retry, MarkReady, Reread,
          Unlink, PublishOutcome, MarkFailed, RereadFailed, ReconcileNext, TakeFailed,
          Requeue, FinishReconcile, WorkerDatabaseError, WorkerCrash, Redeliver,
          BeginReconcile, Deliver, db
    <2>2. undone' = undone \ {<<worker[w].doc, None>>}
      BY <1>2, <2>1 DEF PutObject
    <2>3. <<d, p>> = <<worker[w].doc, None>>
      BY <1>2, <2>2
    <2>4. object' = [object EXCEPT ![d] = worker[w].file]
      BY <1>2, <2>1, <2>3 DEF PutObject
    <2> QED BY <2>1, <2>3, <2>4 DEF TypeOK
  <1>3. UNCHANGED vars => <<d, p>> \in undone'
    BY DEF vars
  <1> QED BY <1>1, <1>2, <1>3, StepCases

LEMMA GoneKept ==
    ASSUME TypeOK, [Next]_vars, NEW d \in Docs, NEW p, Gone(d, p)
    PROVE  \/ Gone(d, p)'
           \/ row'[d].status = "deleted" /\ row'[d].path = None
           \/ /\ p = None
              /\ \E w \in Workers :
                    PutObject(w) /\ worker[w].doc = d /\ object'[d] = worker[w].file
  <1>1. CASE <<d, p>> \in undone
    BY <1>1, UndoneKept DEF Gone
  <1>2. ASSUME NEW h \in Handlers, Erases(h, d, p)
        PROVE  Gone(d, p)' \/ (row'[d].status = "deleted" /\ row'[d].path = None)
    BY <1>2, ErasesKept DEF Gone
  <1> QED BY <1>1, <1>2 DEF Gone

LEMMA StrippedGone == ASSUME NEW d PROVE Stripped(d) <=> Gone(d, row[d].path)
  BY DEF Stripped, Gone, Erases, HandlerAt

-----------------------------------------------------------------------------
(* A staged file that a row waits for is there, unless a deletion has      *)
(* taken it.                                                               *)

UploadsStaged == \A h \in Handlers : Uploading(h) => handler[h].file \in staged

FilesStaged ==
    \A d \in Docs : row[d].path # None =>
        row[d].path \in staged \/ Gone(d, row[d].path)

\* Which staged file a request may remove, and when.
LEMMA HandlerRemoves ==
    ASSUME TypeOK, NEW h \in Handlers, HandlerActs(h)
    PROVE  \/ staged \subseteq staged'
           \/ /\ staged' = staged \ {handler[h].file}
              /\ ~Uploading(h)'
              /\ \/ Uploading(h)
                 \/ "broker" \in Faults
                 \/ /\ handler'[h].doc = handler[h].doc /\ handler'[h].pc = "erase"
                    /\ Taken(h)' = handler[h].file
  <1>1. CASE ClientRequest(h) \/ HandlerCrash(h)
    BY <1>1
    DEF ClientRequest, BeginUpload, BeginReplace, BeginDelete, BeginDownload, StageFile,
        HandlerCrash, disk
  <1>2. ASSUME EndRequest(h), DeleteLocalFile(handler[h].file),
               Uploading(h) \/ "broker" \in Faults
        PROVE  /\ staged' = staged \ {handler[h].file}
               /\ ~Uploading(h)'
               /\ Uploading(h) \/ "broker" \in Faults
    BY <1>2 DEF TypeOK, EndRequest, DeleteLocalFile, Uploading, IdleHandler
  <1>3. CASE CreateRow(h)
    BY <1>2, <1>3 DEF CreateRow, Uploading, HandlerAt
  <1>4. CASE SaveReplacement(h)
    BY <1>2, <1>4 DEF SaveReplacement, Uploading, HandlerAt
  <1>5. CASE Enqueue(h)
    BY <1>2, <1>5 DEF Enqueue, Fault
  <1>6. CASE RemoveStagedFile(h)
    <2>1. GoErase(h) /\ Taken(h) = handler[h].file /\ staged' = staged \ {handler[h].file}
      BY <1>6 DEF RemoveStagedFile, DeleteLocalFile, Taken
    <2>2. ~Uploading(h)'
      BY <2>1, GoEraseRow DEF Uploading
    <2>3. /\ handler'[h].doc = handler[h].doc /\ handler'[h].pc = "erase"
          /\ Taken(h)' = handler[h].file
      BY <2>1, GoEraseRow
    <2> QED BY <2>1, <2>2, <2>3
  <1>7. CASE PublishAccepted(h) \/ RemoveObject(h) \/ EraseRow(h) \/ RecordLink(h)
    BY <1>7 DEF PublishAccepted, RemoveObject, EraseRow, RecordLink, disk
  <1> QED BY <1>1, <1>3, <1>4, <1>5, <1>6, <1>7 DEF HandlerActs, HandlerStep

LEMMA WorkerRemoves ==
    ASSUME NEW w \in Workers, WorkerStep(w)
    PROVE  \/ UNCHANGED staged
           \/ worker[w].pc = "unlink" /\ staged' = staged \ {worker[w].file}
  BY DEF WorkerStep, TaskStep, CheckStaged, OpenStaged, PutObject, StatObject, Retry, MarkReady,
         Reread, Unlink, StoredFile, DeleteLocalFile, WorkerAt, PublishOutcome, MarkFailed,
         RereadFailed, ReconcileNext, TakeFailed, Requeue, FinishReconcile,
         WorkerDatabaseError, WorkerCrash, Redeliver, BeginReconcile, Deliver, disk

\* A request that holds a fresh upload has just staged it, or held it before.
LEMMA UploadingBefore ==
    ASSUME TypeOK, NEW h \in Handlers, HandlerActs(h), Uploading(h)'
    PROVE  handler'[h].file \in staged'
  <1>1. ASSUME NEW pc, HandlerGoes(h, pc), pc \notin {"create", "save"} PROVE FALSE
    BY <1>1, HandlerGoesRow DEF Uploading
  <1>2. ~EndRequest(h)
    BY DEF TypeOK, EndRequest, IdleHandler, Uploading
  <1>3. ClientRequest(h)
    <2>1. ~GoErase(h)
      BY GoEraseRow DEF Uploading
    <2> QED
      BY <1>1, <1>2, <2>1
      DEF HandlerActs, HandlerStep, CreateRow, SaveReplacement, Enqueue, PublishAccepted,
          RemoveObject, RemoveStagedFile, EraseRow, RecordLink, HandlerCrash
  <1>4. PICK d \in Docs :
           \/ \E f \in Files : BeginUpload(h, d, f) \/ BeginReplace(h, d, f)
           \/ BeginDelete(h, d)
           \/ BeginDownload(h, d)
    BY <1>3 DEF ClientRequest
  <1>5. ASSUME NEW f \in Files, BeginUpload(h, d, f) PROVE handler'[h].file \in staged'
    BY <1>5 DEF TypeOK, BeginUpload, StageFile
  <1>6. ASSUME NEW f \in Files, BeginReplace(h, d, f) PROVE handler'[h].file \in staged'
    BY <1>6 DEF TypeOK, BeginReplace, StageFile
  <1>7. ~BeginDelete(h, d) /\ ~BeginDownload(h, d)
    BY DEF TypeOK, BeginDelete, BeginDownload, Uploading
  <1> QED BY <1>4, <1>5, <1>6, <1>7

LEMMA UploadsStagedStep ==
    TypeOK /\ Ownership /\ UploadsStaged /\ [Next]_vars => UploadsStaged'
  <1> SUFFICES ASSUME TypeOK, Ownership, UploadsStaged, [Next]_vars,
                      NEW g \in Handlers, Uploading(g)'
               PROVE  handler'[g].file \in staged'
    BY DEF UploadsStaged
  <1>1. ASSUME NEW h \in Handlers, HandlerActs(h) PROVE handler'[g].file \in staged'
    <2>1. CASE g = h
      BY <1>1, <2>1, UploadingBefore
    <2>2. CASE g # h
      <3>1. handler'[g] = handler[g]
        BY <1>1, <2>2, HandlerFrame
      <3>2. Uploading(g) /\ handler[g].file \in staged
        BY <3>1 DEF Uploading, UploadsStaged
      <3>3. handler[h].file # handler[g].file
        BY <2>2, <3>2 DEF Ownership, FreshUploads
      <3> QED BY <1>1, <3>1, <3>2, <3>3, HandlerRemoves
    <2> QED BY <2>1, <2>2
  <1>2. ASSUME NEW w \in Workers, WorkerStep(w) PROVE handler'[g].file \in staged'
    <2>1. handler'[g] = handler[g]
      BY <1>2, WorkerFrame
    <2>2. Uploading(g) /\ handler[g].file \in staged
      BY <2>1 DEF Uploading, UploadsStaged
    <2>3. worker[w].file # handler[g].file
      BY <2>2 DEF Ownership, FreshUploads
    <2> QED BY <1>2, <2>1, <2>2, <2>3, WorkerRemoves
  <1>3. UNCHANGED vars => handler'[g].file \in staged'
    BY DEF vars, Uploading, UploadsStaged
  <1> QED BY <1>1, <1>2, <1>3, StepCases

\* What becomes of the path of a row in a step.
LEMMA PathMoves ==
    ASSUME TypeOK, [Next]_vars, NEW d \in Docs
    PROVE  \/ row'[d] = row[d]
           \/ row'[d].path = None /\ row'[d].status # "pending"
           \/ row'[d].path = row[d].path /\ \E w \in Workers : WorkerStep(w)
           \/ \E h \in Handlers :
                 /\ HandlerActs(h) /\ Uploading(h)
                 /\ handler[h].doc = d /\ row'[d].path = handler[h].file
                 /\ UNCHANGED staged
                 /\ handler'[h].doc = d /\ handler'[h].pc = "enqueue"
  <1>1. ASSUME NEW h \in Handlers, HandlerActs(h)
        PROVE  \/ row'[d] = row[d]
               \/ row'[d].path = None /\ row'[d].status # "pending"
               \/ /\ Uploading(h)
                  /\ handler[h].doc = d /\ row'[d].path = handler[h].file
                  /\ UNCHANGED staged
                  /\ handler'[h].doc = d /\ handler'[h].pc = "enqueue"
    <2>1. ASSUME NEW f, NEW s, NEW c,
                 row' = [row EXCEPT ![handler[h].doc] = [status |-> s, path |-> f, checksum |-> c]]
          PROVE  \/ row'[d] = row[d]
                 \/ handler[h].doc = d /\ row'[d].path = f /\ row'[d].status = s
      BY <2>1 DEF TypeOK
    <2>2. CASE CreateRow(h) /\ ~UNCHANGED row
      <3>1. HandlerGoes(h, "enqueue")
        BY <2>2 DEF CreateRow, db
      <3> QED BY <2>1, <2>2, <3>1, HandlerGoesRow DEF CreateRow, HandlerAt, Uploading, db
    <2>3. CASE SaveReplacement(h) /\ ~UNCHANGED row
      <3>1. HandlerGoes(h, "enqueue")
        BY <2>3 DEF SaveReplacement, db
      <3> QED BY <2>1, <2>3, <3>1, HandlerGoesRow DEF SaveReplacement, HandlerAt, Uploading, db
    <2>4. CASE EraseRow(h) /\ ~UNCHANGED row
      BY <2>1, <2>4 DEF EraseRow, db
    <2>5. CASE UNCHANGED row
      BY <2>5
    <2>6. CASE ~UNCHANGED row
      <3>1. CreateRow(h) \/ SaveReplacement(h) \/ EraseRow(h)
        BY <1>1, <2>6
        DEF HandlerActs, ClientRequest, BeginUpload, BeginReplace, BeginDelete, BeginDownload,
            HandlerStep, Enqueue, PublishAccepted, RemoveObject, RemoveStagedFile, RecordLink,
            HandlerCrash, db
      <3> QED BY <2>2, <2>3, <2>4, <2>6, <3>1
    <2> QED BY <2>5, <2>6
  <1>2. ASSUME NEW w \in Workers, WorkerStep(w)
        PROVE  \/ row'[d].path = None /\ row'[d].status # "pending"
               \/ row'[d].path = row[d].path
    <2>1. UNCHANGED row \/ TaskMarks(worker[w].doc)
      BY <1>2, WorkerStepFrame
    <2>2. row[d] \in RowType /\ row \in [Docs -> RowType]
      BY DEF TypeOK
    <2>3. \/ row'[d] = row[d]
          \/ row'[d] = [row[d] EXCEPT !.status = "ready", !.path = None]
          \/ \E s : row'[d] = [row[d] EXCEPT !.status = s]
      BY <2>1, <2>2 DEF TaskMarks
    <2> QED BY <2>2, <2>3 DEF RowType
  <1>3. UNCHANGED vars => row'[d] = row[d]
    BY DEF vars
  <1> QED BY <1>1, <1>2, <1>3, StepCases

LEMMA FilesStagedStep ==
    ASSUME "broker" \notin Faults, TypeOK, Ownership, UploadsStaged, FilesStaged, [Next]_vars
    PROVE  FilesStaged'
  <1> SUFFICES ASSUME NEW d \in Docs, row'[d].path # None
               PROVE  row'[d].path \in staged' \/ Gone(d, row[d].path)'
    BY DEF FilesStaged
  <1>1. ASSUME row'[d].path = row[d].path, Gone(d, row[d].path) PROVE Gone(d, row[d].path)'
    <2>1. PICK p : p = row[d].path
      OBVIOUS
    <2>2. p # None /\ p = row'[d].path /\ Gone(d, p)
      BY <1>1, <2>1 DEF Gone
    <2>3. Gone(d, p)'
      BY <2>2, GoneKept
    <2> QED BY <2>2, <2>3 DEF Gone, Erases
  <1>2. ASSUME NEW h \in Handlers, Uploading(h), row'[d].path = handler[h].file,
               UNCHANGED staged
        PROVE  row'[d].path \in staged'
    BY <1>2 DEF UploadsStaged
  <1>3. ASSUME row'[d].path = row[d].path, row[d].path \in staged
        PROVE  row[d].path \in staged' \/ Gone(d, row[d].path)'
    <2>1. row[d].path = row[d].checksum
      BY <1>3 DEF TypeOK, RowType, Statuses, Live, Ownership, RowShape, RowConsistent
    <2>2. ASSUME NEW h \in Handlers, HandlerActs(h), row[d].path \notin staged'
          PROVE  Gone(d, row[d].path)'
      <3>1. row[d].path = handler[h].file
        BY <1>3, <2>2, HandlerRemoves
      <3>2. handler[h].doc = d
        BY <1>3, <2>1, <3>1 DEF Ownership, OneOwner
      <3>3. ~Uploading(h)
        BY <2>1, <3>1 DEF Ownership, FreshUploads
      <3>4. /\ handler'[h].doc = handler[h].doc /\ handler'[h].pc = "erase"
            /\ Taken(h)' = handler[h].file
        BY <1>3, <2>2, <3>3, HandlerRemoves
      <3> QED BY <1>3, <3>1, <3>2, <3>4 DEF Erases, Gone
    <2>3. ASSUME NEW w \in Workers, WorkerStep(w) PROVE row[d].path \in staged'
      <3>1. worker[w].pc = "unlink" => row[d].path # worker[w].file
        BY <1>3 DEF Ownership, StoredFileReleased
      <3> QED BY <1>3, <2>3, <3>1, WorkerRemoves
    <2>4. UNCHANGED vars => row[d].path \in staged'
      BY <1>3 DEF vars
    <2> QED BY <2>2, <2>3, <2>4, StepCases
  <1>4. row'[d].path = row[d].path =>
           row'[d].path \in staged' \/ Gone(d, row[d].path)'
    BY <1>1, <1>3 DEF FilesStaged
  <1> QED BY <1>2, <1>4, PathMoves

-----------------------------------------------------------------------------
(* No pending document is forgotten.                                       *)

\* The disjunction of PendingDriven.
Driven(d) ==
    \/ \E m \in Messages : m.doc = d /\ queue[m] > 0
    \/ \E w \in Workers : Drives(w, d)
    \/ \E h \in Handlers : handler[h].doc = d /\ HandlerAt(h, "enqueue")
    \/ Gone(d, row[d].path)

LEMMA PendingDrivenHere ==
    PendingDriven <=> \A d \in Docs : IsPending(d) => Driven(d)
  BY StrippedGone DEF PendingDriven, Driven

\* What a deletion has taken of a pending document, whose row names a path, is not
\* given back.
LEMMA StrippedKept ==
    ASSUME TypeOK, RowConsistent, [Next]_vars, NEW d \in Docs, row'[d] = row[d],
           IsPending(d)', Gone(d, row[d].path)
    PROVE  Driven(d)'
  <1>1. PICK p : p = row[d].path
    OBVIOUS
  <1>2. p # None /\ p = row'[d].path /\ row'[d].status = "pending" /\ Gone(d, p)
    BY <1>1 DEF IsPending, RowConsistent, Gone
  <1>3. Gone(d, p)'
    BY <1>2, GoneKept
  <1> QED BY <1>2, <1>3 DEF Driven, Gone, Erases

LEMMA SendArrives ==
    ASSUME TypeOK, NEW m \in Messages, Send(m)
    PROVE  /\ queue'[m] > 0
           /\ \A n \in Messages : queue[n] > 0 => queue'[n] > 0
  <1>1. queue \in [Messages -> Nat]
    BY DEF TypeOK
  <1> QED BY <1>1 DEF Send

LEMMA DrivenHandler ==
    ASSUME Faults \cap {"broker", "database", "handler_crash"} = {},
           TypeOK, RowConsistent, Fits, PendingDriven, [Next]_vars,
           NEW h \in Handlers, HandlerActs(h),
           NEW d \in Docs, IsPending(d)'
    PROVE  Driven(d)'
  <1>1. UNCHANGED worker /\ \A g \in Handlers \ {h} : handler'[g] = handler[g]
    BY HandlerFrame
  <1>2. CASE Enqueue(h) /\ handler[h].doc = d
    <2> DEFINE m == FreshMessage(handler[h].task, d)
    <2>1. m.doc = d /\ m \in Messages
      <3>1. handler[h].task \in UploadTasks
        BY <1>2 DEF Enqueue, HandlerAt, Fits, RequestFits
      <3> QED BY <3>1 DEF FreshMessage, Messages
    <2>2. Send(m)
      BY <1>2 DEF Enqueue, Fault
    <2> HIDE DEF m
    <2> QED BY <2>1, <2>2, SendArrives DEF Driven
  <1>3. CASE row'[d] = row[d] /\ ~(Enqueue(h) /\ handler[h].doc = d)
    <2>1. IsPending(d) /\ Driven(d)
      BY <1>3, PendingDrivenHere DEF IsPending
    <2>2. ASSUME NEW m \in Messages, queue[m] > 0 PROVE queue'[m] > 0
      <3>1. CASE UNCHANGED queue
        BY <2>2, <3>1
      <3>2. CASE Enqueue(h)
        BY <2>2, <3>2 DEF Enqueue, Send, TypeOK
      <3> QED
        BY <3>1, <3>2
        DEF HandlerActs, ClientRequest, BeginUpload, BeginReplace, BeginDelete, BeginDownload,
            HandlerStep, CreateRow, SaveReplacement, PublishAccepted, RemoveObject,
            RemoveStagedFile, EraseRow, RecordLink, HandlerCrash, remote
    <2>3. ASSUME NEW v \in Workers, Drives(v, d) PROVE Drives(v, d)'
      BY <1>1, <1>3, <2>3 DEF Drives
    <2>4. Gone(d, row[d].path) => Driven(d)'
      BY <1>3, StrippedKept
    <2>5. ASSUME NEW g \in Handlers, handler[g].doc = d, handler[g].pc = "enqueue"
          PROVE  handler'[g] = handler[g]
      <3>1. g # h
        BY <1>3, <2>5
        DEF HandlerActs, ClientRequest, BeginUpload, BeginReplace, BeginDelete, BeginDownload,
            HandlerStep, CreateRow, SaveReplacement, PublishAccepted, RemoveObject,
            RemoveStagedFile, EraseRow, RecordLink, HandlerCrash, HandlerAt, Fault
      <3> QED BY <1>1, <3>1
    <2> QED BY <2>1, <2>2, <2>3, <2>4, <2>5 DEF Driven, HandlerAt
  <1>4. CASE row'[d] # row[d]
    <2>1. ~UNCHANGED row
      BY <1>4
    <2>2. CASE CreateRow(h) \/ SaveReplacement(h)
      <3>1. HandlerGoes(h, "enqueue") /\ handler[h].doc = d
        BY <1>4, <2>2 DEF CreateRow, SaveReplacement, TypeOK, db
      <3> QED BY <3>1, HandlerGoesRow DEF Driven, HandlerAt
    <2>3. CASE EraseRow(h)
      <3>1. row' = [row EXCEPT ![handler[h].doc] =
                      [status |-> "deleted", path |-> None, checksum |-> None]]
        BY <2>1, <2>3 DEF EraseRow, db
      <3>2. row'[d].status = "deleted"
        BY <1>4, <3>1 DEF TypeOK
      <3> QED BY <3>2 DEF IsPending
    <2> QED
      BY <2>1, <2>2, <2>3
      DEF HandlerActs, ClientRequest, BeginUpload, BeginReplace, BeginDelete, BeginDownload,
          HandlerStep, Enqueue, PublishAccepted, RemoveObject, RemoveStagedFile, RecordLink,
          HandlerCrash, db
  <1> QED BY <1>2, <1>3, <1>4

\* The worker that drives a document hands it on, or has settled it.
LEMMA DriverHandsOn ==
    ASSUME Faults \cap {"broker", "database", "handler_crash", "reconcile_crash"} = {},
           TypeOK, RowConsistent, Fits, FilesStaged, [Next]_vars, NEW w \in Workers, WorkerStep(w),
           NEW d \in Docs, Drives(w, d), IsPending(d)', row'[d] = row[d]
    PROVE  Driven(d)'
  <1>1. /\ worker[w] \in WorkerType /\ worker[w].doc = d
        /\ row'[d].path = row[d].path
    BY DEF TypeOK, Drives
  <1>2. ASSUME NEW pc \in {"put", "stat", "retry", "commit", "mark", "requeue"},
               WorkerGoes(w, pc)
        PROVE  Driven(d)'
    BY <1>1, <1>2, WorkerGoesRow DEF Driven, Drives, WorkerType
  <1>3. ASSUME NEW m \in Messages, m.doc = d, queue'[m] > 0 PROVE Driven(d)'
    BY <1>3 DEF Driven
  <1>4. CASE CheckStaged(w)
    <2>1. CASE WorkerGoes(w, "open")
      <3>1. worker[w].file = row[d].path
        BY <1>4 DEF CheckStaged, WorkerAt, Drives
      <3>2. Drives(w, d)'
        BY <1>1, <2>1, <3>1, WorkerGoesRow DEF Drives
      <3> QED BY <3>2 DEF Driven
    <2> QED BY <1>2, <1>4, <2>1 DEF CheckStaged
  <1>5. CASE OpenStaged(w)
    <2>1. CASE worker[w].file \notin staged
      <3>1. worker[w].file = row[d].path /\ worker[w].file \in Files
        BY <1>5 DEF OpenStaged, WorkerAt, Drives, Fits, TaskFits, UploadPcs
      <3>2. Gone(d, row[d].path)
        BY <2>1, <3>1 DEF FilesStaged, Gone
      <3> QED BY <3>2, StrippedKept
    <2> QED BY <1>2, <1>5, <2>1 DEF OpenStaged
  <1>6. CASE PutObject(w) \/ StatObject(w)
    BY <1>2, <1>6 DEF PutObject, StatObject, StorageFailed
  <1>7. CASE Retry(w)
    <2> DEFINE m == [MessageOf(w) EXCEPT !.retries = @ + 1]
    <2>1. m \in Messages /\ m.doc = d
      <3>1. worker[w].task \in UploadTasks /\ worker[w].retries < MaxRetries
        BY <1>7 DEF Retry, WorkerAt, Fits, TaskFits, UploadPcs
      <3>2. m = [task |-> worker[w].task, doc |-> d, retries |-> worker[w].retries + 1]
        BY <1>1 DEF MessageOf
      <3>3. worker[w].retries + 1 \in 0 .. MaxRetries
        BY <1>1, <3>1 DEF WorkerType
      <3> QED BY <3>1, <3>2, <3>3 DEF Messages
    <2>2. \/ Send(m)
          \/ queue' = [n \in Messages |->
                         IF n \in {m, MessageOf(w)} THEN queue[n] + 1 ELSE queue[n]]
      BY <1>7 DEF Retry, Fault
    <2>3. queue[m] \in Nat
      BY <2>1 DEF TypeOK
    <2> HIDE DEF m
    <2>4. queue'[m] > 0
      BY <2>1, <2>2, <2>3, SendArrives
    <2> QED BY <1>3, <2>1, <2>4
  <1>8. CASE MarkReady(w) \/ MarkFailed(w)
    <2>1. IsPending(d)
      BY DEF IsPending
    <2>2. row' = [row EXCEPT ![d].status = "ready", ![d].path = None]
          \/ row' = [row EXCEPT ![d].status = "failed"]
      BY <1>1, <1>8, <2>1 DEF MarkReady, MarkFailed
    <2>3. row \in [Docs -> RowType] /\ row[d] \in RowType
      BY DEF TypeOK
    <2>4. row'[d] = [row[d] EXCEPT !.status = "ready", !.path = None]
          \/ row'[d] = [row[d] EXCEPT !.status = "failed"]
      BY <2>2, <2>3
    <2> QED BY <2>3, <2>4 DEF RowType, IsPending
  <1>9. CASE Requeue(w)
    <2>1. FreshMessage("upload", d) \in Messages /\ FreshMessage("upload", d).doc = d
      BY DEF FreshMessage, Messages, UploadTasks
    <2>2. Send(FreshMessage("upload", d))
      BY <1>1, <1>9 DEF Requeue, Fault
    <2> QED BY <1>3, <2>1, <2>2, SendArrives
  <1>10. CASE WorkerCrash(w)
    <2>1. worker[w].task \in UploadTasks /\ Send(MessageOf(w))
      BY <1>10 DEF WorkerCrash, ReturnMessage, Fault
    <2>2. MessageOf(w) \in Messages /\ MessageOf(w).doc = d
      BY <1>1, <2>1 DEF MessageOf, Messages, WorkerType
    <2> QED BY <1>3, <2>1, <2>2, SendArrives
  <1>11. CASE Redeliver(w)
    <2>1. Drives(w, d)'
      BY <1>11 DEF Redeliver, Drives
    <2> QED BY <2>1 DEF Driven
  <1>12. CheckStaged(w) \/ OpenStaged(w) \/ PutObject(w) \/ StatObject(w) \/ Retry(w)
         \/ MarkReady(w) \/ MarkFailed(w) \/ Requeue(w) \/ WorkerCrash(w) \/ Redeliver(w)
    BY DEF Drives, WorkerStep, TaskStep, Reread, Unlink, PublishOutcome, RereadFailed,
           ReconcileNext, TakeFailed, FinishReconcile, WorkerDatabaseError, BeginReconcile,
           Deliver, WorkerAt, Fault
  <1> QED BY <1>4, <1>5, <1>6, <1>7, <1>8, <1>9, <1>10, <1>11, <1>12

LEMMA DrivenWorker ==
    ASSUME Faults \cap {"broker", "database", "handler_crash", "reconcile_crash"} = {},
           TypeOK, RowConsistent, Fits, FilesStaged, PendingDriven, [Next]_vars, NEW w \in Workers, WorkerStep(w),
           NEW d \in Docs, IsPending(d)'
    PROVE  Driven(d)'
  <1>1. UNCHANGED handler /\ \A v \in Workers \ {w} : worker'[v] = worker[v]
    BY WorkerFrame
  <1>2. CASE row'[d] = row[d]
    <2>1. IsPending(d) /\ Driven(d)
      BY <1>2, PendingDrivenHere DEF IsPending
    <2>2. ASSUME NEW m \in Messages, m.doc = d, queue[m] > 0 PROVE Driven(d)'
      <3>1. CASE \E n \in Messages : Deliver(w, n)
        <4>1. PICK n \in Messages : Deliver(w, n)
          BY <3>1
        <4>2. CASE n = m
          <5>1. worker' = [worker EXCEPT ![w] =
                             [pc |-> "check", task |-> m.task, doc |-> d,
                              retries |-> m.retries, file |-> row[d].path,
                              seen |-> "pending", todo |-> {}]]
            BY <2>1, <2>2, <4>1, <4>2 DEF Deliver, Fault
          <5>2. worker'[w].pc = "check" /\ worker'[w].doc = d /\ worker'[w].file = row[d].path
            BY <5>1 DEF TypeOK
          <5>3. Drives(w, d)'
            BY <1>2, <5>2 DEF Drives
          <5> QED BY <5>3 DEF Driven
        <4>3. CASE n # m
          <5>1. queue'[m] = queue[m]
            BY <4>1, <4>3 DEF Deliver, TypeOK
          <5> QED BY <2>2, <5>1 DEF Driven
        <4> QED BY <4>2, <4>3
      <3>2. CASE ~\E n \in Messages : Deliver(w, n)
        <4>1. queue[m] \in Nat
          BY DEF TypeOK
        <4>2. \/ UNCHANGED queue
              \/ \E n : Send(n)
              \/ \E S : queue' = [n \in Messages |-> IF n \in S THEN queue[n] + 1 ELSE queue[n]]
          <5>1. CASE TaskStep(w)
            <6>1. CASE Retry(w)
              BY <6>1 DEF Retry
            <6> QED
              BY <5>1, <6>1
              DEF TaskStep, CheckStaged, OpenStaged, PutObject, StatObject, MarkReady,
                  Reread, Unlink, PublishOutcome, MarkFailed, RereadFailed, ReconcileNext,
                  TakeFailed, Requeue, FinishReconcile, remote
          <5>2. CASE ~TaskStep(w)
            BY <3>2, <5>2
            DEF WorkerStep, WorkerDatabaseError, WorkerCrash, ReturnMessage, Redeliver,
                BeginReconcile, remote
          <5> QED BY <5>1, <5>2
        <4>3. queue'[m] > 0
          BY <2>2, <4>1, <4>2 DEF TypeOK, Send
        <4> QED BY <2>2, <4>3 DEF Driven
      <3> QED BY <3>1, <3>2
    <2>3. ASSUME NEW v \in Workers, Drives(v, d) PROVE Driven(d)'
      <3>1. CASE v = w
        BY <1>2, <2>3, <3>1, DriverHandsOn
      <3>2. CASE v # w
        <4>1. Drives(v, d)'
          BY <1>1, <1>2, <2>3, <3>2 DEF Drives
        <4> QED BY <4>1 DEF Driven
      <3> QED BY <3>1, <3>2
    <2>4. ASSUME NEW h \in Handlers, handler[h].doc = d, HandlerAt(h, "enqueue")
          PROVE  Driven(d)'
      BY <1>1, <2>4 DEF Driven, HandlerAt
    <2>5. Gone(d, row[d].path) => Driven(d)'
      BY <1>2, StrippedKept
    <2> QED BY <2>1, <2>2, <2>3, <2>4, <2>5 DEF Driven
  \* Only a reconciliation makes a row pending.
  <1>3. CASE row'[d] # row[d]
    <2>1. TaskMarks(worker[w].doc)
      BY <1>3, WorkerStepFrame
    <2>2. worker[w].doc = d /\ row[d].status = "failed"
      BY <1>3, <2>1, TaskMarksEffect DEF IsPending
    <2>3. TakeFailed(w)
      BY <1>3, <2>2
      DEF WorkerStep, TaskStep, CheckStaged, OpenStaged, PutObject, StatObject, Retry,
          MarkReady, Reread, Unlink, PublishOutcome, MarkFailed, RereadFailed, ReconcileNext,
          Requeue, FinishReconcile, WorkerDatabaseError, WorkerCrash, Redeliver,
          BeginReconcile, Deliver, IsPending, db
    <2>4. WorkerGoes(w, "requeue")
      BY <1>3, <2>3 DEF TakeFailed
    <2>5. Drives(w, d)'
      BY <2>2, <2>4, WorkerGoesRow DEF Drives, TypeOK, WorkerType
    <2> QED BY <2>5 DEF Driven
  <1> QED BY <1>2, <1>3

DrivenInv == UploadsStaged /\ FilesStaged /\ PendingDriven

\* While the broker and the database answer and neither a request nor a reconciliation
\* dies, no accepted upload or replacement is forgotten, whatever happens to the
\* storage, to the workers, to the deliveries and to the requests that race on it,
\* but one whose staged file a deletion has taken: that deletion is about to erase
\* the row, or its transaction was refused.
THEOREM NoneForgotten ==
    ASSUME Faults \cap {"broker", "database", "handler_crash", "reconcile_crash"} = {}
    PROVE  Spec => []PendingDriven
  <1>1. Init => DrivenInv
    BY DEF Init, DrivenInv, UploadsStaged, Uploading, FilesStaged, PendingDriven, IsPending,
           IdleHandler
  <1>2. TypeOK /\ Ownership /\ RowConsistent /\ Fits /\ DrivenInv /\ [Next]_vars => DrivenInv'
    <2> SUFFICES ASSUME TypeOK, Ownership, RowConsistent, Fits, DrivenInv, [Next]_vars
                 PROVE  DrivenInv'
      OBVIOUS
    <2>1. UploadsStaged'
      BY UploadsStagedStep DEF DrivenInv
    <2>2. FilesStaged'
      BY FilesStagedStep DEF DrivenInv
    <2>3. PendingDriven'
      <3>1. ASSUME NEW d \in Docs, IsPending(d)' PROVE Driven(d)'
        <4>1. ASSUME UNCHANGED vars PROVE Driven(d)'
          <5>1. Driven(d)
            BY <3>1, <4>1, PendingDrivenHere DEF vars, DrivenInv, IsPending
          <5>2. Gone(d, row[d].path) => Gone(d, row[d].path)'
            BY <4>1 DEF vars, Gone, Erases, Taken
          <5>3. /\ UNCHANGED <<queue, handler>>
                /\ \A w \in Workers : Drives(w, d) => Drives(w, d)'
            BY <4>1 DEF vars, Drives
          <5> QED BY <5>1, <5>2, <5>3 DEF Driven, HandlerAt
        <4> QED BY <3>1, <4>1, DrivenHandler, DrivenWorker, StepCases DEF DrivenInv
      <3> QED BY <3>1 DEF PendingDriven, Driven, Stripped, Gone, Erases, HandlerAt
    <2> QED BY <2>1, <2>2, <2>3 DEF DrivenInv
  <1>3. DrivenInv => PendingDriven
    BY DEF DrivenInv
  <1> QED
    BY <1>1, <1>2, <1>3, TypeCorrect, OwnershipCorrect, RowsConsistent, FitsCorrect, PTL
    DEF Spec

-----------------------------------------------------------------------------
(* What the object store holds.                                            *)

\* What a step does to the object of a document.
LEMMA ObjectMoves ==
    ASSUME TypeOK, [Next]_vars, NEW d \in Docs
    PROVE  \/ object'[d] = object[d]
           \/ \E h \in Handlers :
                 RemoveObject(h) /\ handler[h].doc = d /\ object'[d] = None
           \/ \E w \in Workers :
                 PutObject(w) /\ worker[w].doc = d /\ object'[d] = worker[w].file
  <1>1. ASSUME NEW e, NEW c, object' = [object EXCEPT ![e] = c]
        PROVE  object'[d] = object[d] \/ (e = d /\ object'[d] = c)
    BY <1>1 DEF TypeOK
  <1>2. ASSUME NEW h \in Handlers, HandlerActs(h)
        PROVE  \/ object'[d] = object[d]
               \/ RemoveObject(h) /\ handler[h].doc = d /\ object'[d] = None
    <2>1. CASE RemoveObject(h)
      BY <1>1, <2>1 DEF RemoveObject
    <2>2. CASE ~RemoveObject(h)
      BY <1>2, <2>2
      DEF HandlerActs, ClientRequest, BeginUpload, BeginReplace, BeginDelete, BeginDownload,
          HandlerStep, CreateRow, SaveReplacement, Enqueue, PublishAccepted,
          RemoveStagedFile, EraseRow, RecordLink, HandlerCrash, remote
    <2> QED BY <2>1, <2>2
  <1>3. ASSUME NEW w \in Workers, WorkerStep(w)
        PROVE  \/ object'[d] = object[d]
               \/ PutObject(w) /\ worker[w].doc = d /\ object'[d] = worker[w].file
    <2>1. CASE PutObject(w)
      BY <1>1, <2>1 DEF PutObject
    <2>2. CASE ~PutObject(w)
      BY <1>3, <2>2
      DEF WorkerStep, TaskStep, CheckStaged, OpenStaged, StatObject, Retry, MarkReady, Reread,
          Unlink, PublishOutcome, MarkFailed, RereadFailed, ReconcileNext, TakeFailed,
          Requeue, FinishReconcile, WorkerDatabaseError, WorkerCrash, Redeliver,
          BeginReconcile, Deliver, remote
    <2> QED BY <2>1, <2>2
  <1>4. UNCHANGED vars => object'[d] = object[d]
    BY DEF vars
  <1> QED BY <1>2, <1>3, <1>4, StepCases

\* Nothing follows a deletion.
LEMMA DeletedKept ==
    ASSUME TypeOK, Claims, [Next]_vars, NEW d \in Docs, row[d].status = "deleted"
    PROVE  row'[d].status = "deleted"
  <1>1. ASSUME NEW h \in Handlers, HandlerActs(h) PROVE row'[d].status = "deleted"
    <2>1. ASSUME NEW r, row' = [row EXCEPT ![handler[h].doc] = r], handler[h].doc # d
          PROVE  row'[d] = row[d]
      BY <2>1 DEF TypeOK
    <2>2. CASE CreateRow(h)
      <3>1. handler[h].doc # d
        BY <2>2 DEF CreateRow, HandlerAt, Claims, CreateClaims
      <3> QED BY <2>1, <2>2, <3>1 DEF CreateRow, db
    <2>3. CASE SaveReplacement(h)
      <3>1. RowExists(handler[h].doc) => handler[h].doc # d
        BY DEF RowExists, Live
      <3> QED BY <2>1, <2>3, <3>1 DEF SaveReplacement, db
    <2>4. CASE EraseRow(h)
      <3>1. CASE handler[h].doc = d /\ ~UNCHANGED db
        BY <2>4, <3>1 DEF EraseRow, TypeOK
      <3> QED BY <2>1, <2>4, <3>1 DEF EraseRow, db
    <2>5. CASE ~(CreateRow(h) \/ SaveReplacement(h) \/ EraseRow(h))
      BY <1>1, <2>5
      DEF HandlerActs, ClientRequest, BeginUpload, BeginReplace, BeginDelete, BeginDownload,
          HandlerStep, Enqueue, PublishAccepted, RemoveObject, RemoveStagedFile, RecordLink,
          HandlerCrash, db
    <2> QED BY <2>2, <2>3, <2>4, <2>5
  <1>2. ASSUME NEW w \in Workers, WorkerStep(w) PROVE row'[d].status = "deleted"
    BY <1>2, WorkerStepFrame, TaskMarksEffect
  <1>3. UNCHANGED vars => row'[d].status = "deleted"
    BY DEF vars
  <1> QED BY <1>1, <1>2, <1>3, StepCases

\* Only a task that has stored its object makes a document ready.
LEMMA ReadyFrom ==
    ASSUME TypeOK, [Next]_vars, NEW d \in Docs, row'[d].status = "ready"
    PROVE  \/ row'[d] = row[d]
           \/ \E w \in Workers :
                 /\ worker[w].pc = "commit" /\ worker[w].doc = d
                 /\ row[d].status = "pending" /\ row'[d].checksum = row[d].checksum
                 /\ UNCHANGED <<object, handler>>
  <1>1. ASSUME NEW h \in Handlers, HandlerActs(h) PROVE row'[d] = row[d]
    <2>1. ASSUME NEW r, row' = [row EXCEPT ![handler[h].doc] = r], r.status # "ready"
          PROVE  row'[d] = row[d]
      BY <2>1 DEF TypeOK
    <2>2. CASE UNCHANGED row
      BY <2>2
    <2>3. CASE ~UNCHANGED row
      <3>1. CreateRow(h) \/ SaveReplacement(h) \/ EraseRow(h)
        BY <1>1, <2>3
        DEF HandlerActs, ClientRequest, BeginUpload, BeginReplace, BeginDelete, BeginDownload,
            HandlerStep, Enqueue, PublishAccepted, RemoveObject, RemoveStagedFile, RecordLink,
            HandlerCrash, db
      <3> QED BY <2>1, <2>3, <3>1 DEF CreateRow, SaveReplacement, EraseRow, db
    <2> QED BY <2>2, <2>3
  <1>2. ASSUME NEW w \in Workers, WorkerStep(w), row'[d] # row[d]
        PROVE  /\ worker[w].pc = "commit" /\ worker[w].doc = d
               /\ row[d].status = "pending" /\ row'[d].checksum = row[d].checksum
               /\ UNCHANGED <<object, handler>>
    <2>1. /\ TaskMarks(worker[w].doc) /\ worker[w].doc = d
          /\ row[d].status = "pending" /\ row'[d].checksum = row[d].checksum
      BY <1>2, WorkerStepFrame, TaskMarksEffect
    <2>2. MarkReady(w) \/ MarkFailed(w) \/ TakeFailed(w)
      BY <1>2
      DEF WorkerStep, TaskStep, CheckStaged, OpenStaged, PutObject, StatObject, Retry, Reread,
          Unlink, PublishOutcome, RereadFailed, ReconcileNext, Requeue, FinishReconcile,
          WorkerDatabaseError, WorkerCrash, Redeliver, BeginReconcile, Deliver, db
    <2>3. ~TakeFailed(w)
      BY <1>2, <2>1 DEF TakeFailed, IsFailed
    <2>4. ~MarkFailed(w)
      <3>1. MarkFailed(w) => row' = [row EXCEPT ![d].status = "failed"]
        BY <1>2, <2>1 DEF MarkFailed
      <3>2. row' = [row EXCEPT ![d].status = "failed"] => row'[d].status = "failed"
        BY DEF TypeOK, RowType
      <3> QED BY <3>1, <3>2
    <2> QED BY <2>1, <2>2, <2>3, <2>4 DEF MarkReady, WorkerAt, remote
  <1>3. UNCHANGED vars => row'[d] = row[d]
    BY DEF vars
  <1> QED BY <1>1, <1>2, <1>3, StepCases

\* A task reaches the commit with its object found in the store.
LEMMA CommitFrom ==
    ASSUME TypeOK, [Next]_vars, NEW w \in Workers, worker'[w].pc = "commit"
    PROVE  \/ worker'[w] = worker[w]
           \/ /\ worker[w].pc = "stat" /\ object[worker[w].doc] # None
              /\ worker'[w].doc = worker[w].doc /\ worker'[w].file = worker[w].file
              /\ UNCHANGED <<object, row, handler>>
  <1>1. ASSUME NEW h \in Handlers, HandlerActs(h) PROVE worker'[w] = worker[w]
    BY <1>1, HandlerFrame
  <1>2. ASSUME NEW v \in Workers, WorkerStep(v), v # w PROVE worker'[w] = worker[w]
    BY <1>2, WorkerFrame
  <1>3. ASSUME WorkerStep(w)
        PROVE  \/ worker'[w] = worker[w]
               \/ StatObject(w) /\ WorkerGoes(w, "commit")
    <2>1. ~EndTask(w)
      BY DEF TypeOK, EndTask, IdleWorker
    <2>2. \A pc : WorkerGoes(w, pc) => pc = "commit"
      BY WorkerGoesRow
    <2>3. CASE TaskStep(w)
      <3>1. CASE ReconcileNext(w)
        <4>1. PICK e \in worker[w].todo :
                 \/ worker' = [worker EXCEPT ![w].pc = "take", ![w].doc = e[1],
                                             ![w].todo = @ \ {e}]
                 \/ worker' = [worker EXCEPT ![w].todo = @ \ {e}]
          BY <3>1 DEF ReconcileNext
        <4>2. worker[w].pc = "scan"
          BY <3>1 DEF ReconcileNext, WorkerAt
        <4> QED BY <4>1, <4>2 DEF TypeOK, WorkerType
      <3>2. ASSUME NEW pc, NEW s, pc # "commit",
                   \/ worker' = [worker EXCEPT ![w].pc = pc, ![w].seen = s]
                   \/ worker' = [worker EXCEPT ![w].pc = pc, ![w].doc = s]
            PROVE  FALSE
        BY <3>2 DEF TypeOK, WorkerType
      <3> QED
        BY <2>1, <2>2, <2>3, <3>1, <3>2
        DEF TaskStep, CheckStaged, OpenStaged, PutObject, StatObject, StorageFailed, Retry,
            MarkReady, Reread, Unlink, PublishOutcome, MarkFailed, RereadFailed, TakeFailed,
            Requeue, FinishReconcile
    <2>4. CASE BeginReconcile(w) \/ \E m \in Messages : Deliver(w, m)
      <3>1. ASSUME NEW r, worker' = [worker EXCEPT ![w] = r], r.pc # "commit" PROVE FALSE
        BY <3>1 DEF TypeOK
      <3>2. ~BeginReconcile(w)
        <4> DEFINE r == [IdleWorker EXCEPT !.pc = "scan", !.task = "reconcile",
                                           !.todo = FailedUploads]
        <4>1. r.pc # "commit"
          BY DEF IdleWorker
        <4> HIDE DEF r
        <4> QED BY <3>1, <4>1 DEF BeginReconcile, r
      <3>3. ASSUME NEW m \in Messages, Deliver(w, m) PROVE UNCHANGED worker
        <4> DEFINE r == [pc |-> "check", task |-> m.task, doc |-> m.doc,
                         retries |-> m.retries, file |-> row[m.doc].path,
                         seen |-> "pending", todo |-> {}]
        <4>1. UNCHANGED worker \/ worker' = [worker EXCEPT ![w] = r]
          BY <3>3 DEF Deliver
        <4>2. r.pc # "commit"
          OBVIOUS
        <4> HIDE DEF r
        <4> QED BY <3>1, <4>1, <4>2
      <3> QED BY <2>4, <3>2, <3>3
    <2>5. CASE WorkerDatabaseError(w) \/ WorkerCrash(w) \/ Redeliver(w)
      BY <2>1, <2>5 DEF WorkerDatabaseError, WorkerCrash, Redeliver
    <2> QED BY <1>3, <2>3, <2>4, <2>5 DEF WorkerStep
  <1>4. StatObject(w) /\ WorkerGoes(w, "commit") =>
           /\ worker[w].pc = "stat" /\ object[worker[w].doc] # None
           /\ worker'[w].doc = worker[w].doc /\ worker'[w].file = worker[w].file
           /\ UNCHANGED <<object, row, handler>>
    <2> SUFFICES ASSUME StatObject(w), WorkerGoes(w, "commit")
                 PROVE  /\ worker[w].pc = "stat" /\ object[worker[w].doc] # None
                        /\ worker'[w].doc = worker[w].doc /\ worker'[w].file = worker[w].file
                        /\ UNCHANGED <<object, row, handler>>
      OBVIOUS
    <2>1. ~StorageFailed(w)
      <3>1. \A pc : WorkerGoes(w, pc) => pc = "commit"
        BY WorkerGoesRow
      <3> QED BY <3>1 DEF StorageFailed
    <2>2. object[worker[w].doc] # None
      BY <2>1 DEF StatObject
    <2> QED BY <2>2, WorkerGoesRow DEF StatObject, WorkerAt, db, remote
  <1>5. UNCHANGED vars => worker'[w] = worker[w]
    BY DEF vars
  <1> QED BY <1>1, <1>2, <1>3, <1>4, <1>5, StepCases

-----------------------------------------------------------------------------
(* A ready document has its object.                                        *)

\* The object is there, or a deletion that saw the document ready has taken it.
Holds(d) == object[d] # None \/ Gone(d, None)

\* What a task found in the store is there when it commits, or else the row is gone.
CommitsStored ==
    \A w \in Workers, d \in Docs :
        worker[w].pc = "commit" /\ worker[w].doc = d =>
            Holds(d) \/ row[d].status = "deleted"

LEMMA HoldsKept ==
    ASSUME TypeOK, Fits, [Next]_vars, NEW d \in Docs, Holds(d)
    PROVE  Holds(d)' \/ row'[d].status = "deleted"
  <1>1. ASSUME NEW w \in Workers, PutObject(w), object'[d] = worker[w].file
        PROVE  Holds(d)'
    BY <1>1 DEF PutObject, WorkerAt, Fits, TaskFits, UploadPcs, Holds
  <1>2. CASE Gone(d, None)
    BY <1>1, <1>2, GoneKept DEF Holds
  <1>3. ASSUME NEW h \in Handlers, RemoveObject(h), handler[h].doc = d, object[d] # None,
               object'[d] = None
        PROVE  Holds(d)'
    <2>1. Taken(h) = None
      BY <1>3 DEF RemoveObject, Taken
    <2>2. CASE GoErase(h)
      BY <1>3, <2>1, <2>2, GoEraseRow DEF Erases, Gone, Holds
    <2>3. CASE Undo(h)
      BY <1>3, <2>1, <2>3 DEF Undo, Gone, Holds
    <2> QED BY <1>3, <2>2, <2>3 DEF RemoveObject
  <1> QED BY <1>1, <1>2, <1>3, ObjectMoves DEF Holds

\* Whatever fails and whatever races, a document that is ready has its object in the
\* store, but one whose object a deletion took, and is about to erase the row, or could
\* not: no second delivery, retry or replacement takes an object away, and no lost
\* answer of the store makes a document ready that has none.
THEOREM ReadyStored == Spec => []ReadyHasObject
  <1> DEFINE ObjectInv == ReadyHasObject /\ CommitsStored
  <1>1. Init => ObjectInv
    BY DEF Init, ReadyHasObject, CommitsStored, IdleWorker
  <1>2. /\ TypeOK /\ RowConsistent /\ RowConsistent' /\ Fits /\ Claims /\ ObjectInv
        /\ [Next]_vars
        => ObjectInv'
    <2> SUFFICES ASSUME TypeOK, RowConsistent, RowConsistent', Fits, Claims,
                        ReadyHasObject, CommitsStored, [Next]_vars
                 PROVE  ReadyHasObject' /\ CommitsStored'
      OBVIOUS
    <2>1. \A d \in Docs : row[d].status = "ready" => Holds(d)
      BY StrippedGone DEF ReadyHasObject, RowConsistent, Holds
    <2>2. ASSUME NEW d \in Docs, row'[d].status = "ready" PROVE Holds(d)'
      <3>1. CASE row'[d] = row[d]
        BY <2>1, <2>2, <3>1, HoldsKept
      <3>2. ASSUME NEW w \in Workers, worker[w].pc = "commit", worker[w].doc = d,
                   row[d].status = "pending"
            PROVE  Holds(d)'
        BY <2>2, <3>2, HoldsKept DEF CommitsStored
      <3> QED BY <2>2, <3>1, <3>2, ReadyFrom
    <2>3. ReadyHasObject'
      <3>1. \A d \in Docs : row'[d].status = "ready" => row'[d].path = None
        BY DEF RowConsistent
      <3> QED BY <2>2, <3>1 DEF ReadyHasObject, Holds, Stripped, Gone, Erases, HandlerAt
    <2>4. ASSUME NEW w \in Workers, NEW d \in Docs, worker'[w].pc = "commit",
                 worker'[w].doc = d
          PROVE  Holds(d)' \/ row'[d].status = "deleted"
      <3>1. CASE worker'[w] = worker[w]
        BY <2>4, <3>1, HoldsKept, DeletedKept DEF CommitsStored
      <3>2. CASE object[d] # None /\ UNCHANGED object
        BY <3>2 DEF Holds
      <3> QED BY <2>4, <3>1, <3>2, CommitFrom
    <2>5. CommitsStored'
      BY <2>4 DEF CommitsStored
    <2> QED BY <2>3, <2>5
  <1>3. ObjectInv => ReadyHasObject
    OBVIOUS
  <1> HIDE DEF ObjectInv
  <1> QED
    BY <1>1, <1>2, <1>3, TypeCorrect, RowsConsistent, FitsCorrect, ClaimsCorrect, PTL DEF Spec

-----------------------------------------------------------------------------
(* One message, task or request at a time works on a document.             *)

\* No two replacements of a document are between its status check and their commit.
\* One process that serves requests is enough for it.
ReplacementsAlone ==
    \A g, h \in Handlers :
        g # h /\ handler[g].pc = "save" /\ handler[h].pc = "save" =>
            handler[g].doc # handler[h].doc

\* The worker is to store or settle the document, or to send the message for it.
Carries(w, d) ==
    /\ worker[w].doc = d
    /\ worker[w].pc \in {"check", "open", "put", "stat", "retry", "commit", "mark", "requeue"}

Sends(h, d) == handler[h].doc = d /\ handler[h].pc = "enqueue"

NoMessage(d) == \A m \in Messages : m.doc = d => queue[m] = 0
NoCarrier(d) == \A w \in Workers : ~Carries(w, d)
NoSender(d) == \A h \in Handlers : ~Sends(h, d)

OneMessage(d) ==
    \A m \in Messages : m.doc = d /\ queue[m] # 0 =>
        /\ queue[m] = 1
        /\ \A n \in Messages : n.doc = d /\ queue[n] # 0 => n = m

OneWorker(d) == \A v, w \in Workers : Carries(v, d) /\ Carries(w, d) => v = w

OneSender(d) == \A g, h \in Handlers : Sends(g, d) /\ Sends(h, d) => g = h

\* At most one message, worker or request has the document to itself, and only while
\* the document is pending.
Alone(d) ==
    /\ OneMessage(d) /\ OneWorker(d) /\ OneSender(d)
    /\ NoMessage(d) \/ NoCarrier(d)
    /\ NoMessage(d) \/ NoSender(d)
    /\ NoCarrier(d) \/ NoSender(d)
    /\ IsPending(d) \/ (NoMessage(d) /\ NoCarrier(d) /\ NoSender(d))

AloneUntilDeleted == \A d \in Docs : row[d].status # "deleted" => Alone(d)

\* Who worked on the document before has it still, or nobody has.
LEMMA AloneFewer ==
    ASSUME NEW d \in Docs, Alone(d), IsPending(d) => IsPending(d)',
           \A m \in Messages : m.doc = d => queue'[m] \in {0, queue[m]},
           \A w \in Workers : Carries(w, d)' => Carries(w, d),
           \A h \in Handlers : Sends(h, d)' => Sends(h, d)
    PROVE  Alone(d)'
  <1>1. (OneMessage(d) => OneMessage(d)') /\ (NoMessage(d) => NoMessage(d)')
    BY DEF OneMessage, NoMessage
  <1>2. (OneWorker(d) => OneWorker(d)') /\ (NoCarrier(d) => NoCarrier(d)')
    BY DEF OneWorker, NoCarrier
  <1>3. (OneSender(d) => OneSender(d)') /\ (NoSender(d) => NoSender(d)')
    BY DEF OneSender, NoSender
  <1> QED BY <1>1, <1>2, <1>3 DEF Alone

LEMMA AloneNobody ==
    ASSUME NEW d \in Docs, NoMessage(d)', NoCarrier(d)', NoSender(d)'
    PROVE  Alone(d)'
  BY DEF Alone, OneMessage, OneWorker, OneSender, NoMessage, NoCarrier, NoSender

LEMMA AloneMessage ==
    ASSUME NEW d \in Docs, IsPending(d)', NEW m \in Messages, queue'[m] = 1,
           \A n \in Messages : n.doc = d /\ n # m => queue'[n] = 0,
           NoCarrier(d)', NoSender(d)'
    PROVE  Alone(d)'
  BY DEF Alone, OneMessage, OneWorker, OneSender, NoMessage, NoCarrier, NoSender

LEMMA AloneWorker ==
    ASSUME NEW d \in Docs, IsPending(d)', NEW w \in Workers,
           \A v \in Workers : Carries(v, d)' => v = w,
           NoMessage(d)', NoSender(d)'
    PROVE  Alone(d)'
  BY DEF Alone, OneMessage, OneWorker, OneSender, NoMessage, NoCarrier, NoSender

LEMMA AloneSender ==
    ASSUME NEW d \in Docs, IsPending(d)', NEW h \in Handlers,
           \A g \in Handlers : Sends(g, d)' => g = h,
           NoMessage(d)', NoCarrier(d)'
    PROVE  Alone(d)'
  BY DEF Alone, OneMessage, OneWorker, OneSender, NoMessage, NoCarrier, NoSender

LEMMA SendOne ==
    ASSUME TypeOK, NEW m \in Messages, Send(m)
    PROVE  /\ queue'[m] = queue[m] + 1 /\ queue[m] \in Nat
           /\ \A n \in Messages : n # m => queue'[n] = queue[n]
  BY DEF TypeOK, Send

-----------------------------------------------------------------------------
(* A request takes the document over and hands it on.                      *)

SavesReady ==
    \A h \in Handlers :
        handler[h].pc = "save" => row[handler[h].doc].status \in {"ready", "deleted"}

LEMMA SaveFrom ==
    ASSUME TypeOK, [Next]_vars, NEW h \in Handlers, handler'[h].pc = "save"
    PROVE  \/ handler'[h] = handler[h]
           \/ row[handler'[h].doc].status = "ready" /\ UNCHANGED row
  <1>1. ASSUME NEW g \in Handlers, HandlerActs(g), g # h PROVE handler'[h] = handler[h]
    BY <1>1, HandlerFrame
  <1>2. ASSUME HandlerActs(h)
        PROVE  row[handler'[h].doc].status = "ready" /\ UNCHANGED row
    <2>1. ASSUME NEW pc, HandlerGoes(h, pc), pc # "save" PROVE FALSE
      BY <2>1, HandlerGoesRow
    <2>2. ~EndRequest(h)
      BY DEF TypeOK, EndRequest, IdleHandler
    <2>3. ClientRequest(h)
      BY <1>2, <2>1, <2>2, GoEraseRow
      DEF HandlerActs, HandlerStep, CreateRow, SaveReplacement, Enqueue, PublishAccepted,
          RemoveObject, RemoveStagedFile, EraseRow, RecordLink, HandlerCrash
    <2>4. PICK d \in Docs :
             \/ \E f \in Files : BeginUpload(h, d, f) \/ BeginReplace(h, d, f)
             \/ BeginDelete(h, d)
             \/ BeginDownload(h, d)
      BY <2>3 DEF ClientRequest
    <2>5. \A f \in Files : ~BeginUpload(h, d, f)
      BY DEF TypeOK, BeginUpload
    <2>6. ~BeginDelete(h, d) /\ ~BeginDownload(h, d)
      BY DEF TypeOK, BeginDelete, BeginDownload
    <2>7. ASSUME NEW f \in Files, BeginReplace(h, d, f)
          PROVE  row[handler'[h].doc].status = "ready" /\ UNCHANGED row
      BY <2>7 DEF TypeOK, BeginReplace, Replaceable, db
    <2> QED BY <2>4, <2>5, <2>6, <2>7
  <1>3. ASSUME NEW w \in Workers, WorkerStep(w) PROVE handler'[h] = handler[h]
    BY <1>3, WorkerFrame
  <1>4. UNCHANGED vars => handler'[h] = handler[h]
    BY DEF vars
  <1> QED BY <1>1, <1>2, <1>3, <1>4, StepCases

\* A ready document stays ready until a request replaces or deletes it.
LEMMA ReadyLeaves ==
    ASSUME TypeOK, Claims, [Next]_vars, NEW d \in Docs, row[d].status = "ready"
    PROVE  \/ row'[d].status \in {"ready", "deleted"}
           \/ \E h \in Handlers :
                 handler[h].pc = "save" /\ handler[h].doc = d /\ handler'[h].pc # "save"
  <1>1. ASSUME NEW h \in Handlers, HandlerActs(h)
        PROVE  \/ row'[d].status \in {"ready", "deleted"}
               \/ handler[h].pc = "save" /\ handler[h].doc = d /\ handler'[h].pc # "save"
    <2>1. ASSUME NEW r, row' = [row EXCEPT ![handler[h].doc] = r], handler[h].doc # d
          PROVE  row'[d] = row[d]
      BY <2>1 DEF TypeOK
    <2>2. CASE CreateRow(h)
      <3>1. handler[h].doc # d
        BY <2>2 DEF CreateRow, HandlerAt, Claims, CreateClaims
      <3> QED BY <2>1, <2>2, <3>1 DEF CreateRow, db
    <2>3. CASE SaveReplacement(h)
      <3>1. CASE UNCHANGED row
        BY <3>1
      <3>2. CASE ~UNCHANGED row
        <4>1. /\ handler[h].pc = "save" /\ HandlerGoes(h, "enqueue")
              /\ \E r : row' = [row EXCEPT ![handler[h].doc] = r]
          BY <2>3, <3>2 DEF SaveReplacement, HandlerAt, db
        <4> QED BY <2>1, <4>1, HandlerGoesRow
      <3> QED BY <3>1, <3>2
    <2>4. CASE EraseRow(h)
      <3>1. CASE handler[h].doc = d /\ ~UNCHANGED db
        BY <2>4, <3>1 DEF EraseRow, TypeOK
      <3> QED BY <2>1, <2>4, <3>1 DEF EraseRow, db
    <2>5. CASE ~(CreateRow(h) \/ SaveReplacement(h) \/ EraseRow(h))
      BY <1>1, <2>5
      DEF HandlerActs, ClientRequest, BeginUpload, BeginReplace, BeginDelete, BeginDownload,
          HandlerStep, Enqueue, PublishAccepted, RemoveObject, RemoveStagedFile, RecordLink,
          HandlerCrash, db
    <2> QED BY <2>2, <2>3, <2>4, <2>5
  <1>2. ASSUME NEW w \in Workers, WorkerStep(w) PROVE row'[d].status = "ready"
    BY <1>2, WorkerStepFrame, TaskMarksEffect
  <1>3. UNCHANGED vars => row'[d].status = "ready"
    BY DEF vars
  <1> QED BY <1>1, <1>2, <1>3, StepCases

LEMMA SavesReadyStep ==
    ASSUME TypeOK, Claims, ReplacementsAlone, SavesReady, [Next]_vars
    PROVE  SavesReady'
  <1> SUFFICES ASSUME NEW h \in Handlers, handler'[h].pc = "save"
               PROVE  row'[handler'[h].doc].status \in {"ready", "deleted"}
    BY DEF SavesReady
  <1>1. CASE handler'[h] = handler[h]
    <2> DEFINE d == handler[h].doc
    <2>1. d \in Docs /\ row[d].status \in {"ready", "deleted"}
      BY <1>1 DEF Claims, RequestsKnown, SavesReady
    <2>2. ASSUME NEW g \in Handlers, handler[g].pc = "save", handler[g].doc = d,
                 handler'[g].pc # "save"
          PROVE  FALSE
      BY <1>1, <2>2 DEF ReplacementsAlone
    <2> HIDE DEF d
    <2>3. row'[d].status \in {"ready", "deleted"}
      BY <2>1, <2>2, DeletedKept, ReadyLeaves
    <2> QED BY <1>1, <2>3 DEF d
  <1>2. CASE row[handler'[h].doc].status = "ready" /\ UNCHANGED row
    BY <1>2
  <1> QED BY <1>1, <1>2, SaveFrom

LEMMA SavesReadyCorrect == Spec /\ []ReplacementsAlone => []SavesReady
  <1>1. Init => SavesReady
    BY DEF Init, SavesReady, IdleHandler
  <1>2. TypeOK /\ Claims /\ ReplacementsAlone /\ SavesReady /\ [Next]_vars => SavesReady'
    BY SavesReadyStep
  <1> QED BY <1>1, <1>2, TypeCorrect, ClaimsCorrect, PTL DEF Spec

LEMMA AloneHandler ==
    ASSUME TypeOK, Fits, Claims, SavesReady, NEW h \in Handlers, HandlerActs(h),
           NEW d \in Docs, Alone(d), row'[d].status # "deleted"
    PROVE  Alone(d)'
  <1>1. UNCHANGED worker /\ \A g \in Handlers \ {h} : handler'[g] = handler[g]
    BY HandlerFrame
  <1>2. \A w \in Workers : Carries(w, d)' <=> Carries(w, d)
    BY <1>1 DEF Carries
  <1>3. \A g \in Handlers : g # h => (Sends(g, d)' <=> Sends(g, d))
    BY <1>1 DEF Sends
  <1>4. CASE (CreateRow(h) \/ SaveReplacement(h)) /\ handler[h].doc = d /\ ~UNCHANGED db
    <2>1. /\ row' = [row EXCEPT ![d] = [status |-> "pending", path |-> handler[h].file,
                                         checksum |-> handler[h].file]]
          /\ UNCHANGED queue
      BY <1>4 DEF CreateRow, SaveReplacement, remote
    <2>2. IsPending(d)'
      BY <2>1 DEF TypeOK, IsPending
    <2>3. ~IsPending(d)
      <3>1. CreateRow(h) => row[d].status = "absent"
        BY <1>4 DEF CreateRow, HandlerAt, Claims, CreateClaims
      <3>2. SaveReplacement(h) => row[d].status \in {"ready", "deleted"}
        BY <1>4 DEF SaveReplacement, HandlerAt, SavesReady
      <3> QED BY <1>4, <3>1, <3>2 DEF IsPending
    <2>4. NoMessage(d) /\ NoCarrier(d) /\ NoSender(d)
      BY <2>3 DEF Alone
    <2>5. NoMessage(d)' /\ NoCarrier(d)'
      BY <1>2, <2>1, <2>4 DEF NoMessage, NoCarrier
    <2>6. \A g \in Handlers : Sends(g, d)' => g = h
      BY <1>3, <2>4 DEF NoSender
    <2> QED BY <2>2, <2>5, <2>6, AloneSender
  <1>5. CASE Enqueue(h) /\ handler[h].doc = d /\ ~UNCHANGED queue
    <2> DEFINE m == FreshMessage(handler[h].task, d)
    <2>1. m.doc = d /\ m \in Messages
      <3>1. handler[h].task \in UploadTasks
        BY <1>5 DEF Enqueue, HandlerAt, Fits, RequestFits
      <3> QED BY <3>1 DEF FreshMessage, Messages
    <2>2. Send(m) /\ HandlerGoes(h, "publish") /\ UNCHANGED row
      BY <1>5 DEF Enqueue, db
    <2> HIDE DEF m
    <2>3. Sends(h, d)
      BY <1>5 DEF Enqueue, HandlerAt, Sends
    <2>4. NoMessage(d) /\ NoCarrier(d) /\ IsPending(d) /\ \A g \in Handlers : Sends(g, d) => g = h
      BY <2>3 DEF Alone, OneSender, NoSender
    <2>5. queue'[m] = 1 /\ \A n \in Messages : n.doc = d /\ n # m => queue'[n] = 0
      BY <2>1, <2>2, <2>4, SendOne DEF NoMessage
    <2>6. NoCarrier(d)' /\ IsPending(d)'
      BY <1>2, <2>2, <2>4 DEF NoCarrier, IsPending
    <2>7. NoSender(d)'
      BY <1>3, <2>2, <2>4, HandlerGoesRow DEF NoSender, Sends
    <2> QED BY <2>1, <2>5, <2>6, <2>7, AloneMessage
  <1>6. CASE /\ ~((CreateRow(h) \/ SaveReplacement(h)) /\ handler[h].doc = d /\ ~UNCHANGED db)
             /\ ~(Enqueue(h) /\ handler[h].doc = d /\ ~UNCHANGED queue)
    <2>1. row'[d] = row[d]
      <3>1. ASSUME NEW r, row' = [row EXCEPT ![handler[h].doc] = r], handler[h].doc # d
            PROVE  row'[d] = row[d]
        BY <3>1 DEF TypeOK
      <3>2. CASE CreateRow(h) \/ SaveReplacement(h)
        BY <1>6, <3>1, <3>2 DEF CreateRow, SaveReplacement, db
      <3>3. CASE EraseRow(h)
        <4>1. CASE handler[h].doc = d /\ ~UNCHANGED db
          BY <3>3, <4>1 DEF EraseRow, TypeOK
        <4> QED BY <3>1, <3>3, <4>1 DEF EraseRow, db
      <3>4. CASE ~(CreateRow(h) \/ SaveReplacement(h) \/ EraseRow(h))
        BY <3>4
        DEF HandlerActs, ClientRequest, BeginUpload, BeginReplace, BeginDelete, BeginDownload,
            HandlerStep, Enqueue, PublishAccepted, RemoveObject, RemoveStagedFile, RecordLink,
            HandlerCrash, db
      <3> QED BY <3>2, <3>3, <3>4
    <2>2. \A m \in Messages : m.doc = d => queue'[m] = queue[m]
      <3>1. CASE Enqueue(h) /\ ~UNCHANGED queue
        <4> DEFINE m == FreshMessage(handler[h].task, handler[h].doc)
        <4>1. Send(m) /\ m.doc # d
          BY <1>6, <3>1 DEF Enqueue, FreshMessage
        <4> HIDE DEF m
        <4> QED BY <4>1 DEF Send, TypeOK
      <3>2. CASE UNCHANGED queue
        BY <3>2
      <3> QED
        BY <3>1, <3>2
        DEF HandlerActs, ClientRequest, BeginUpload, BeginReplace, BeginDelete, BeginDownload,
            HandlerStep, CreateRow, SaveReplacement, PublishAccepted, RemoveObject,
            RemoveStagedFile, EraseRow, RecordLink, HandlerCrash, remote
    <2>3. Sends(h, d)' => Sends(h, d)
      <3> SUFFICES ASSUME Sends(h, d)', ~Sends(h, d) PROVE FALSE
        OBVIOUS
      <3>1. handler'[h].pc = "enqueue"
        BY DEF Sends
      <3>2. ASSUME NEW pc, HandlerGoes(h, pc) PROVE pc = "enqueue" /\ handler[h].doc = d
        BY <3>2, HandlerGoesRow DEF Sends
      <3>3. ~EndRequest(h) /\ ~ClientRequest(h)
        BY <3>1, EndRequestRow, ClientRequestRow
      <3>4. CreateRow(h) \/ SaveReplacement(h)
        BY <3>1, <3>2, <3>3, GoEraseRow
        DEF HandlerActs, HandlerStep, Enqueue, PublishAccepted, RemoveObject,
            RemoveStagedFile, EraseRow, RecordLink, HandlerCrash
      <3>5. HandlerGoes(h, "enqueue") /\ handler[h].doc = d /\ ~UNCHANGED db
        <4>1. HandlerGoes(h, "enqueue") /\ ~(EndRequest(h) /\ UNCHANGED db)
          BY <3>3, <3>4 DEF CreateRow, SaveReplacement
        <4>2. handler[h].doc = d
          BY <3>2, <4>1
        <4>3. audit' # audit
          <5>1. \/ CreateRow(h) /\ audit' = [audit EXCEPT ![d].created = @ + 1]
                \/ SaveReplacement(h) /\ audit' = [audit EXCEPT ![d].replaced = @ + 1]
            BY <3>3, <3>4, <4>2 DEF CreateRow, SaveReplacement
          <5>2. audit \in [Docs -> AuditType] /\ audit[d] \in AuditType
            BY DEF TypeOK
          <5>3. \/ audit'[d] = [audit[d] EXCEPT !.created = audit[d].created + 1]
                \/ audit'[d] = [audit[d] EXCEPT !.replaced = audit[d].replaced + 1]
            BY <5>1, <5>2
          <5> QED BY <5>2, <5>3 DEF AuditType
        <4> QED BY <4>1, <4>2, <4>3 DEF db
      <3> QED BY <1>6, <3>4, <3>5
    <2>4. \A g \in Handlers : Sends(g, d)' => Sends(g, d)
      BY <1>3, <2>3
    <2> QED BY <1>2, <2>1, <2>2, <2>4, AloneFewer DEF IsPending
  <1> QED BY <1>4, <1>5, <1>6

-----------------------------------------------------------------------------
(* A task hands a document on.                                             *)

LEMMA EndTaskRow ==
    ASSUME TypeOK, NEW w \in Workers, EndTask(w)
    PROVE  worker'[w] = IdleWorker /\ worker'[w].pc = "idle" /\ worker'[w].doc = None
  BY DEF TypeOK, EndTask, IdleWorker

\* A worker has a document because it had it before, because it has just taken the
\* message for it, or because it has just taken it back from the failed ones.
LEMMA CarriesFrom ==
    ASSUME TypeOK, NEW w \in Workers, WorkerStep(w), NEW d \in Docs, Carries(w, d)'
    PROVE  \/ /\ Carries(w, d) /\ worker'[w].file = worker[w].file
              /\ worker[w].pc = "requeue" => worker'[w].pc = "requeue"
           \/ \E m \in Messages :
                 /\ Deliver(w, m) /\ m.doc = d
                 /\ IsPending(d) /\ worker'[w].file = row[d].path /\ worker'[w].pc = "check"
           \/ /\ TakeFailed(w) /\ worker[w].doc = d
              /\ IsFailed(d) /\ worker'[w].pc = "requeue"
  <1> DEFINE Goal ==
           \/ /\ Carries(w, d) /\ worker'[w].file = worker[w].file
              /\ worker[w].pc = "requeue" => worker'[w].pc = "requeue"
           \/ \E m \in Messages :
                 /\ Deliver(w, m) /\ m.doc = d
                 /\ IsPending(d) /\ worker'[w].file = row[d].path /\ worker'[w].pc = "check"
           \/ /\ TakeFailed(w) /\ worker[w].doc = d
              /\ IsFailed(d) /\ worker'[w].pc = "requeue"
  <1> HIDE DEF Goal
  <1>1. ~EndTask(w)
    BY EndTaskRow, NoneAssumption DEF Carries
  <1>2. ASSUME NEW pc, WorkerGoes(w, pc),
               worker[w].pc \in {"check", "open", "put", "stat", "retry", "commit", "mark"}
        PROVE  Goal
    BY <1>2, WorkerGoesRow DEF Carries, Goal
  <1>3. ASSUME NEW pc, WorkerGoes(w, pc)
        PROVE  pc \notin {"reread", "remark", "publish", "unlink", "scan"}
    BY <1>3, WorkerGoesRow DEF Carries
  <1>4. ASSUME NEW pc, NEW s, pc \in {"unlink", "publish", "scan"},
               \/ worker' = [worker EXCEPT ![w].pc = pc, ![w].seen = s]
               \/ worker' = [worker EXCEPT ![w].pc = pc, ![w].doc = s]
        PROVE  FALSE
    <2>1. worker'[w].pc = pc
      BY <1>4 DEF TypeOK, WorkerType
    <2> QED BY <1>4, <2>1 DEF Carries
  <1>5. CASE TaskStep(w)
    <2>1. CASE CheckStaged(w) \/ OpenStaged(w) \/ PutObject(w) \/ StatObject(w)
      <3>1. worker[w].pc \in {"check", "open", "put", "stat"}
        BY <2>1 DEF CheckStaged, OpenStaged, PutObject, StatObject, WorkerAt
      <3>2. StorageFailed(w) => Goal
        BY <1>2, <3>1 DEF StorageFailed
      <3> QED BY <1>1, <1>2, <2>1, <3>1, <3>2
              DEF CheckStaged, OpenStaged, PutObject, StatObject, Goal
    <2>2. CASE ReconcileNext(w)
      <3>1. PICK e \in worker[w].todo :
               \/ worker' = [worker EXCEPT ![w].pc = "take", ![w].doc = e[1],
                                           ![w].todo = @ \ {e}]
               \/ worker' = [worker EXCEPT ![w].todo = @ \ {e}]
        BY <2>2 DEF ReconcileNext
      <3>2. worker[w].pc = "scan"
        BY <2>2 DEF ReconcileNext, WorkerAt
      <3>3. worker'[w].pc \in {"take", "scan"}
        BY <3>1, <3>2 DEF TypeOK, WorkerType
      <3> QED BY <3>3 DEF Carries
    <2>3. CASE TakeFailed(w)
      <3>1. IsFailed(worker[w].doc) /\ WorkerGoes(w, "requeue")
        BY <1>4, <2>3 DEF TakeFailed
      <3> QED BY <2>3, <3>1, WorkerGoesRow DEF Carries, Goal
    <2>4. CASE \/ Retry(w) \/ MarkReady(w) \/ Reread(w) \/ Unlink(w) \/ PublishOutcome(w)
               \/ MarkFailed(w) \/ RereadFailed(w) \/ Requeue(w) \/ FinishReconcile(w)
      BY <1>1, <1>3, <1>4, <2>4
      DEF Retry, MarkReady, Reread, Unlink, PublishOutcome, MarkFailed, RereadFailed,
          Requeue, FinishReconcile
    <2> QED BY <1>5, <2>1, <2>2, <2>3, <2>4 DEF TaskStep
  <1>6. ASSUME NEW m \in Messages, Deliver(w, m) PROVE Goal
    <2> DEFINE r == [pc |-> "check", task |-> m.task, doc |-> m.doc,
                     retries |-> m.retries, file |-> row[m.doc].path,
                     seen |-> "pending", todo |-> {}]
    <2>1. CASE worker' = [worker EXCEPT ![w] = r] /\ IsPending(m.doc)
      <3>1. worker'[w] = r
        BY <2>1 DEF TypeOK
      <3> QED BY <1>6, <2>1, <3>1 DEF Carries, Goal
    <2>2. CASE UNCHANGED worker
      BY <2>2 DEF Carries, Goal
    <2> HIDE DEF r
    <2> QED BY <1>6, <2>1, <2>2 DEF Deliver, r
  <1>7. ~BeginReconcile(w)
    <2> DEFINE r == [IdleWorker EXCEPT !.pc = "scan", !.task = "reconcile",
                                       !.todo = FailedUploads]
    <2>1. r.pc = "scan"
      BY DEF IdleWorker
    <2> HIDE DEF r
    <2>2. BeginReconcile(w) => worker'[w] = r
      BY DEF TypeOK, BeginReconcile, r
    <2> QED BY <2>1, <2>2 DEF Carries
  <1>8. Redeliver(w) => Goal
    BY DEF Redeliver, Carries, Goal
  <1>9. ~WorkerDatabaseError(w) /\ ~WorkerCrash(w)
    BY <1>1 DEF WorkerDatabaseError, WorkerCrash
  <1> QED BY <1>5, <1>6, <1>7, <1>8, <1>9 DEF WorkerStep, Goal

\* Only these steps of a task change a row.
LEMMA TaskMarksRow ==
    ASSUME TypeOK, NEW w \in Workers, WorkerStep(w), NEW d \in Docs, row'[d] # row[d]
    PROVE  /\ worker[w].doc = d
           /\ UNCHANGED queue
           /\ \/ /\ row[d].status = "pending" /\ worker[w].pc \in {"commit", "mark"}
                 /\ worker'[w].pc \in {"reread", "remark"}
              \/ row[d].status = "failed" /\ row'[d].status = "pending"
  <1>1. TaskMarks(worker[w].doc)
    BY WorkerStepFrame
  <1>2. worker[w].doc = d
    BY <1>1, TaskMarksEffect
  <1>3. MarkReady(w) \/ MarkFailed(w) \/ TakeFailed(w)
    BY DEF WorkerStep, TaskStep, CheckStaged, OpenStaged, PutObject, StatObject, Retry, Reread,
        Unlink, PublishOutcome, RereadFailed, ReconcileNext, Requeue, FinishReconcile,
        WorkerDatabaseError, WorkerCrash, Redeliver, BeginReconcile, Deliver, db
  <1>4. UNCHANGED queue
    BY <1>3 DEF MarkReady, MarkFailed, TakeFailed, remote
  <1>5. CASE MarkReady(w)
    BY <1>2, <1>4, <1>5, WorkerGoesRow DEF MarkReady, WorkerAt, IsPending
  <1>6. CASE MarkFailed(w)
    BY <1>2, <1>4, <1>6, WorkerGoesRow DEF MarkFailed, WorkerAt, IsPending
  <1>7. CASE TakeFailed(w)
    <2>1. row[d].status = "failed" /\ row' = [row EXCEPT ![d].status = "pending"]
      BY <1>2, <1>7 DEF TakeFailed, IsFailed
    <2>2. row'[d].status = "pending"
      BY <2>1 DEF TypeOK, RowType
    <2> QED BY <1>2, <1>4, <2>1, <2>2
  <1> QED BY <1>3, <1>5, <1>6, <1>7

\* What a task sends without a worker dying or a message delivered twice.
LEMMA WorkerSends ==
    ASSUME Faults \cap {"worker_crash", "redelivery"} = {},
           TypeOK, Fits, NEW w \in Workers, WorkerStep(w)
    PROVE  \/ UNCHANGED queue
           \/ \E m \in Messages : Deliver(w, m)
           \/ \E m :
                 /\ Send(m) /\ m.doc = worker[w].doc /\ (m.doc \in Docs => m \in Messages)
                 /\ worker[w].pc \in {"retry", "requeue"} /\ worker'[w].pc \in {"idle", "scan"}
  <1>1. CASE Retry(w) /\ ~UNCHANGED queue
    <2> DEFINE m == [MessageOf(w) EXCEPT !.retries = @ + 1]
    <2>1. Send(m) /\ EndTask(w) /\ worker[w].pc = "retry"
      BY <1>1 DEF Retry, WorkerAt, Fault
    <2>2. worker[w].task \in UploadTasks /\ worker[w].retries + 1 \in 0 .. MaxRetries
      BY <2>1 DEF Fits, TaskFits, UploadPcs, TypeOK, WorkerType
    <2>3. m = [task |-> worker[w].task, doc |-> worker[w].doc,
               retries |-> worker[w].retries + 1]
      BY DEF MessageOf
    <2>4. m.doc = worker[w].doc /\ (m.doc \in Docs => m \in Messages)
      BY <2>2, <2>3 DEF Messages
    <2> HIDE DEF m
    <2> QED BY <2>1, <2>4, EndTaskRow
  <1>2. CASE Requeue(w) /\ ~UNCHANGED queue
    <2> DEFINE m == FreshMessage("upload", worker[w].doc)
    <2>1. /\ Send(m) /\ worker[w].pc = "requeue"
          /\ worker' = [worker EXCEPT ![w].pc = "scan", ![w].doc = None]
      BY <1>2 DEF Requeue, WorkerAt
    <2>2. worker'[w].pc = "scan"
      BY <2>1 DEF TypeOK, WorkerType
    <2>3. m.doc = worker[w].doc /\ (m.doc \in Docs => m \in Messages)
      BY DEF FreshMessage, Messages, UploadTasks
    <2> HIDE DEF m
    <2> QED BY <2>1, <2>2, <2>3
  <1>3. ~(WorkerCrash(w) /\ ~UNCHANGED queue) /\ ~Redeliver(w)
    BY DEF WorkerCrash, Redeliver, Fault
  <1>4. CASE ~Retry(w) /\ ~Requeue(w) /\ ~UNCHANGED queue
    BY <1>3, <1>4
    DEF WorkerStep, TaskStep, CheckStaged, OpenStaged, PutObject, StatObject, MarkReady, Reread,
        Unlink, PublishOutcome, MarkFailed, RereadFailed, ReconcileNext, TakeFailed,
        FinishReconcile, WorkerDatabaseError, BeginReconcile, remote
  <1> QED BY <1>1, <1>2, <1>4

\* A message that nobody has, or that one worker takes, hands on or drops.
LEMMA AloneTask ==
    ASSUME Faults \cap {"worker_crash", "redelivery"} = {},
           TypeOK, Fits, NEW w \in Workers, WorkerStep(w), NEW d \in Docs, Alone(d)
    PROVE  Alone(d)'
  <1>1. UNCHANGED handler /\ \A v \in Workers \ {w} : worker'[v] = worker[v]
    BY WorkerFrame
  <1>2. \A h \in Handlers : Sends(h, d)' <=> Sends(h, d)
    BY <1>1 DEF Sends
  <1>3. NoSender(d) => NoSender(d)'
    BY <1>2 DEF NoSender
  <1>4. \A v \in Workers : v # w => (Carries(v, d)' <=> Carries(v, d))
    BY <1>1 DEF Carries
  <1>5. ASSUME NEW m \in Messages, Deliver(w, m) PROVE Alone(d)'
    <2>1. /\ queue[m] # 0 /\ queue' = [queue EXCEPT ![m] = @ - 1] /\ queue \in [Messages -> Nat]
          /\ UNCHANGED row
      BY <1>5 DEF Deliver, TypeOK, db
    <2>2. CASE m.doc = d
      <3>1. /\ queue[m] = 1 /\ \A n \in Messages : n.doc = d /\ n # m => queue[n] = 0
            /\ IsPending(d) /\ NoCarrier(d) /\ NoSender(d)
        BY <2>1, <2>2 DEF Alone, OneMessage, NoMessage
      <3>2. NoMessage(d)'
        BY <2>1, <2>2, <3>1 DEF NoMessage
      <3>3. IsPending(d)' /\ NoSender(d)' /\ \A v \in Workers : Carries(v, d)' => v = w
        BY <1>3, <1>4, <2>1, <3>1 DEF IsPending, NoCarrier
      <3> QED BY <3>2, <3>3, AloneWorker
    <2>3. CASE m.doc # d
      <3>1. \A n \in Messages : n.doc = d => queue'[n] = queue[n]
        BY <2>1, <2>3
      <3>2. Carries(w, d)' => Carries(w, d)
        <4> DEFINE r == [pc |-> "check", task |-> m.task, doc |-> m.doc,
                         retries |-> m.retries, file |-> row[m.doc].path,
                         seen |-> "pending", todo |-> {}]
        <4>1. UNCHANGED worker \/ worker' = [worker EXCEPT ![w] = r]
          BY <1>5 DEF Deliver
        <4>2. r.doc # d
          BY <2>3
        <4> HIDE DEF r
        <4> QED BY <4>1, <4>2 DEF TypeOK, Carries
      <3>3. \A v \in Workers : Carries(v, d)' => Carries(v, d)
        BY <1>4, <3>2
      <3>4. IsPending(d) => IsPending(d)'
        BY <2>1 DEF IsPending
      <3> QED BY <1>2, <3>1, <3>3, <3>4, AloneFewer
    <2> QED BY <2>2, <2>3
  <1>6. CASE row'[d] # row[d]
    <2>1. /\ worker[w].doc = d /\ UNCHANGED queue
          /\ \/ /\ row[d].status = "pending" /\ worker[w].pc \in {"commit", "mark"}
                /\ worker'[w].pc \in {"reread", "remark"}
             \/ row[d].status = "failed" /\ row'[d].status = "pending"
      BY <1>6, TaskMarksRow
    <2>2. CASE worker[w].pc \in {"commit", "mark"} /\ worker'[w].pc \in {"reread", "remark"}
      <3>1. Carries(w, d) /\ ~Carries(w, d)'
        BY <2>1, <2>2 DEF Carries
      <3>2. NoMessage(d) /\ NoSender(d) /\ \A v \in Workers : Carries(v, d) => v = w
        BY <3>1 DEF Alone, NoCarrier, OneWorker
      <3>3. NoMessage(d)' /\ NoSender(d)' /\ NoCarrier(d)'
        BY <1>3, <1>4, <2>1, <3>1, <3>2 DEF NoMessage, NoCarrier
      <3> QED BY <3>3, AloneNobody
    <2>3. CASE row[d].status = "failed" /\ row'[d].status = "pending"
      <3>1. NoMessage(d) /\ NoSender(d) /\ NoCarrier(d)
        BY <2>3 DEF Alone, IsPending, IsFailed
      <3>2. NoMessage(d)' /\ NoSender(d)' /\ \A v \in Workers : Carries(v, d)' => v = w
        BY <1>3, <1>4, <2>1, <3>1 DEF NoMessage, NoCarrier
      <3>3. IsPending(d)'
        BY <2>3 DEF IsPending
      <3> QED BY <3>2, <3>3, AloneWorker
    <2> QED BY <2>1, <2>2, <2>3
  <1>7. CASE row'[d] = row[d] /\ \A m \in Messages : ~Deliver(w, m)
    <2>1. IsPending(d)' <=> IsPending(d)
      BY <1>7 DEF IsPending
    <2>2. Carries(w, d)' => Carries(w, d)
      <3>1. ASSUME TakeFailed(w), worker[w].doc = d, IsFailed(d) PROVE WorkerAt(w, "scan")'
        <4>1. row' # [row EXCEPT ![d].status = "pending"]
          BY <1>7, <3>1 DEF TypeOK, RowType, IsFailed
        <4> QED BY <3>1, <4>1 DEF TakeFailed
      <3>2. WorkerAt(w, "scan")' => ~Carries(w, d)'
        BY DEF WorkerAt, Carries
      <3> QED BY <1>7, <3>1, <3>2, CarriesFrom
    <2>3. \A v \in Workers : Carries(v, d)' => Carries(v, d)
      BY <1>4, <2>2
    <2>4. CASE UNCHANGED queue
      BY <1>2, <2>1, <2>3, <2>4, AloneFewer
    <2>5. ASSUME NEW m, Send(m), m.doc = worker[w].doc, m.doc \in Docs => m \in Messages,
                 worker[w].pc \in {"retry", "requeue"}, worker'[w].pc \in {"idle", "scan"}
          PROVE  Alone(d)'
      <3>1. CASE worker[w].doc = d
        <4>1. Carries(w, d) /\ ~Carries(w, d)'
          BY <2>5, <3>1 DEF Carries
        <4>2. /\ NoMessage(d) /\ NoSender(d) /\ IsPending(d)
              /\ \A v \in Workers : Carries(v, d) => v = w
          BY <4>1 DEF Alone, NoCarrier, OneWorker
        <4>3. m \in Messages /\ m.doc = d
          BY <2>5, <3>1
        <4>4. queue'[m] = 1 /\ \A n \in Messages : n.doc = d /\ n # m => queue'[n] = 0
          BY <2>5, <4>2, <4>3, SendOne DEF NoMessage
        <4>5. NoCarrier(d)' /\ NoSender(d)' /\ IsPending(d)'
          BY <1>3, <1>4, <2>1, <4>1, <4>2 DEF NoCarrier
        <4> QED BY <4>3, <4>4, <4>5, AloneMessage
      <3>2. CASE worker[w].doc # d
        <4>1. \A n \in Messages : n.doc = d => queue'[n] = queue[n]
          BY <2>5, <3>2 DEF Send, TypeOK
        <4> QED BY <1>2, <2>1, <2>3, <4>1, AloneFewer
      <3> QED BY <3>1, <3>2
    <2> QED BY <1>7, <2>4, <2>5, WorkerSends
  <1> QED BY <1>5, <1>6, <1>7

\* Whoever has the last word on a document has it alone.
LEMMA AloneStep ==
    ASSUME Faults \cap {"worker_crash", "redelivery"} = {},
           TypeOK, Fits, Claims, SavesReady, AloneUntilDeleted, [Next]_vars
    PROVE  AloneUntilDeleted'
  <1> SUFFICES ASSUME NEW d \in Docs, row'[d].status # "deleted" PROVE Alone(d)'
    BY DEF AloneUntilDeleted
  <1>1. Alone(d)
    BY DeletedKept DEF AloneUntilDeleted
  <1>2. UNCHANGED vars => Alone(d)'
    BY <1>1 DEF vars, Alone, OneMessage, OneWorker, OneSender, NoMessage, NoCarrier, NoSender,
                Carries, Sends, IsPending
  <1> QED BY <1>1, <1>2, AloneHandler, AloneTask, StepCases

\* While no worker dies and the broker delivers each message once, and no two replacements
\* of a document overlap, a document that is still there is in one hand: its message is in
\* the broker once, or one worker has it, or one request is to send it, and then the row is
\* pending.  The compare-and-set of the tasks alone does not give this.
THEOREM TasksAlone ==
    ASSUME Faults \cap {"worker_crash", "redelivery"} = {}
    PROVE  Spec /\ []ReplacementsAlone => []AloneUntilDeleted
  <1>1. Init => AloneUntilDeleted
    BY DEF Init, AloneUntilDeleted, Alone, OneMessage, OneWorker, OneSender, NoMessage,
           NoCarrier, NoSender, Carries, Sends, IdleHandler, IdleWorker
  <1>2. TypeOK /\ Fits /\ Claims /\ SavesReady /\ AloneUntilDeleted /\ [Next]_vars
            => AloneUntilDeleted'
    BY AloneStep
  <1> QED BY <1>1, <1>2, SavesReadyCorrect, TypeCorrect, FitsCorrect, ClaimsCorrect,
             PTL DEF Spec

-----------------------------------------------------------------------------
(* A ready document has the content its row describes.                     *)

\* The task that is to store a document has the path the row has now.
CarriersCurrent ==
    \A w \in Workers, d \in Docs :
        Carries(w, d) /\ worker[w].pc # "requeue" /\ row[d].status # "deleted" =>
            worker[w].file = row[d].path

\* Between its put and its commit a task has its own object in the store, or none.
ObjectsCurrent ==
    \A w \in Workers, d \in Docs :
        worker[w].doc = d /\ worker[w].pc \in {"stat", "commit"} /\ row[d].status # "deleted" =>
            object[d] \in {worker[w].file, None}

\* A row keeps its path while a task is to store the document.
LEMMA CarriedPath ==
    ASSUME TypeOK, [Next]_vars, NEW d \in Docs, NEW w \in Workers, Carries(w, d)', Alone(d)'
    PROVE  row'[d].path = row[d].path
  <1>1. ~NoCarrier(d)'
    BY DEF NoCarrier
  <1>2. row'[d].status = "pending"
    BY <1>1 DEF Alone, IsPending
  <1>3. \A h \in Handlers : ~(handler'[h].doc = d /\ handler'[h].pc = "enqueue")
    BY <1>1 DEF Alone, NoSender, Sends
  <1> QED BY <1>2, <1>3, PathMoves

LEMMA CarriersCurrentStep ==
    ASSUME TypeOK, Claims, AloneUntilDeleted', CarriersCurrent, [Next]_vars
    PROVE  CarriersCurrent'
  <1> SUFFICES ASSUME NEW w \in Workers, NEW d \in Docs, Carries(w, d)',
                      worker'[w].pc # "requeue", row'[d].status # "deleted"
               PROVE  worker'[w].file = row'[d].path
    BY DEF CarriersCurrent
  <1>1. row[d].status # "deleted"
    BY DeletedKept
  <1>2. row'[d].path = row[d].path
    <2>1. Alone(d)'
      BY DEF AloneUntilDeleted
    <2> QED BY <2>1, CarriedPath
  <1>3. CASE worker'[w] = worker[w]
    BY <1>1, <1>2, <1>3 DEF Carries, CarriersCurrent
  <1>4. CASE WorkerStep(w)
    BY <1>1, <1>2, <1>4, CarriesFrom DEF CarriersCurrent
  <1>5. WorkerStep(w) \/ worker'[w] = worker[w]
    BY HandlerFrame, WorkerFrame, StepCases DEF vars
  <1> QED BY <1>3, <1>4, <1>5

\* A task reaches the stat with its object stored.
LEMMA StatFrom ==
    ASSUME TypeOK, [Next]_vars, NEW w \in Workers, worker'[w].pc = "stat",
           worker'[w].doc \in Docs
    PROVE  \/ worker'[w] = worker[w]
           \/ object'[worker'[w].doc] = worker'[w].file
  <1>1. WorkerStep(w) \/ worker'[w] = worker[w]
    BY HandlerFrame, WorkerFrame, StepCases DEF vars
  <1>2. ASSUME WorkerStep(w), worker'[w] # worker[w]
        PROVE  object'[worker'[w].doc] = worker'[w].file
    <2> DEFINE d == worker'[w].doc
    <2>1. Carries(w, d) /\ worker[w].pc # "requeue"
      BY <1>2, CarriesFrom DEF Carries
    <2>2. ~EndTask(w)
      BY EndTaskRow
    <2>3. \A pc : WorkerGoes(w, pc) => pc = "stat"
      BY WorkerGoesRow
    <2>4. TaskStep(w) \/ WorkerDatabaseError(w) \/ WorkerCrash(w) \/ Redeliver(w)
      BY <1>2, <2>1 DEF WorkerStep, BeginReconcile, Deliver, WorkerAt, Carries
    <2>5. PutObject(w)
      BY <1>2, <2>1, <2>2, <2>3, <2>4
      DEF Carries, TaskStep, CheckStaged, OpenStaged, StatObject, StorageFailed, Retry,
          MarkReady, Reread, Unlink, PublishOutcome, MarkFailed, RereadFailed, ReconcileNext,
          TakeFailed, Requeue, FinishReconcile, WorkerDatabaseError, WorkerCrash, Redeliver,
          WorkerAt
    <2>6. object' = [object EXCEPT ![worker[w].doc] = worker[w].file]
      <3>1. ~StorageFailed(w)
        BY <2>3 DEF StorageFailed
      <3> QED BY <2>5, <3>1 DEF PutObject
    <2>7. worker'[w].doc = worker[w].doc /\ worker'[w].file = worker[w].file
      <3>1. ~StorageFailed(w)
        BY <2>3 DEF StorageFailed
      <3> QED BY <2>5, <3>1, WorkerGoesRow DEF PutObject
    <2> QED BY <2>6, <2>7 DEF TypeOK
  <1> QED BY <1>1, <1>2

LEMMA ObjectsCurrentStep ==
    ASSUME TypeOK, Claims, AloneUntilDeleted, ObjectsCurrent, [Next]_vars
    PROVE  ObjectsCurrent'
  <1> SUFFICES ASSUME NEW w \in Workers, NEW d \in Docs, worker'[w].doc = d,
                      worker'[w].pc \in {"stat", "commit"}, row'[d].status # "deleted"
               PROVE  object'[d] \in {worker'[w].file, None}
    BY DEF ObjectsCurrent
  <1>1. row[d].status # "deleted" /\ Alone(d)
    BY DeletedKept DEF AloneUntilDeleted
  <1>2. CASE worker'[w] = worker[w]
    <2>1. Carries(w, d) /\ object[d] \in {worker[w].file, None}
      BY <1>1, <1>2 DEF Carries, ObjectsCurrent
    <2>2. ASSUME NEW v \in Workers, PutObject(v), worker[v].doc = d PROVE FALSE
      <3>1. Carries(v, d) /\ worker[v].pc = "put"
        BY <2>2 DEF PutObject, WorkerAt, Carries
      <3>2. v = w
        BY <1>1, <2>1, <3>1 DEF Alone, OneWorker
      <3> QED BY <1>2, <3>1, <3>2
    <2> QED BY <1>2, <2>1, <2>2, ObjectMoves
  <1>3. CASE worker'[w] # worker[w] /\ worker'[w].pc = "stat"
    BY <1>3, StatFrom
  <1>4. CASE worker'[w] # worker[w] /\ worker'[w].pc = "commit"
    BY <1>1, <1>4, CommitFrom DEF ObjectsCurrent
  <1> QED BY <1>2, <1>3, <1>4

LEMMA ContentStep ==
    ASSUME TypeOK, RowConsistent, AloneUntilDeleted, CarriersCurrent, ObjectsCurrent,
           ContentMatches, [Next]_vars
    PROVE  ContentMatches'
  <1> SUFFICES ASSUME NEW d \in Docs, row'[d].status = "ready"
               PROVE  object'[d] \in {row'[d].checksum, None}
    BY DEF ContentMatches
  <1>1. CASE row'[d] = row[d]
    <2>1. row[d].status = "ready" /\ object[d] \in {row[d].checksum, None}
      BY <1>1 DEF ContentMatches
    <2>2. ASSUME NEW w \in Workers, PutObject(w), worker[w].doc = d PROVE FALSE
      <3>1. Carries(w, d)
        BY <2>2 DEF PutObject, WorkerAt, Carries
      <3> QED BY <2>1, <3>1 DEF AloneUntilDeleted, Alone, NoCarrier, IsPending
    <2> QED BY <1>1, <2>1, <2>2, ObjectMoves
  <1>2. ASSUME NEW w \in Workers, worker[w].pc = "commit", worker[w].doc = d,
               row[d].status = "pending", row'[d].checksum = row[d].checksum,
               UNCHANGED object
        PROVE  object'[d] \in {row'[d].checksum, None}
    <2>1. Carries(w, d)
      BY <1>2 DEF Carries
    <2>2. worker[w].file = row[d].checksum
      BY <1>2, <2>1 DEF CarriersCurrent, RowConsistent
    <2> QED BY <1>2, <2>2 DEF ObjectsCurrent
  <1> QED BY <1>1, <1>2, ReadyFrom

\* While no worker dies and the broker delivers each message once, and no two replacements
\* of a document overlap, a ready document is never served with another upload's content
\* than the one its row describes: who puts an object has the document to itself, with the
\* path of the last upload, until it has made the row ready.
THEOREM ContentCorrect ==
    ASSUME Faults \cap {"worker_crash", "redelivery"} = {}
    PROVE  Spec /\ []ReplacementsAlone => []ContentMatches
  <1> DEFINE ContentInv == CarriersCurrent /\ ObjectsCurrent /\ ContentMatches
  <1>1. Init => ContentInv
    BY DEF Init, Carries, CarriersCurrent, ObjectsCurrent, ContentMatches, IdleWorker
  <1>2. TypeOK /\ Ownership /\ Claims /\ AloneUntilDeleted /\ AloneUntilDeleted' /\ ContentInv
            /\ [Next]_vars => ContentInv'
    <2> SUFFICES ASSUME TypeOK, Ownership, Claims, AloneUntilDeleted, AloneUntilDeleted',
                        CarriersCurrent, ObjectsCurrent, ContentMatches, [Next]_vars
                 PROVE  ContentInv'
      OBVIOUS
    <2>1. CarriersCurrent' /\ ObjectsCurrent'
      BY CarriersCurrentStep, ObjectsCurrentStep
    <2>2. ContentMatches'
      BY ContentStep DEF Ownership, RowShape
    <2> QED BY <2>1, <2>2
  <1>3. ContentInv => ContentMatches
    OBVIOUS
  <1> HIDE DEF ContentInv
  <1> QED BY <1>1, <1>2, <1>3, TasksAlone, TypeCorrect, OwnershipCorrect, ClaimsCorrect,
             PTL DEF Spec

-----------------------------------------------------------------------------
(* The documented lifecycle: only ready documents are replaced.            *)

\* A step that gives a document new content replaces a ready document.
LEMMA ReplacesReady ==
    ASSUME TypeOK, Claims, SavesReady, [Next]_vars, NEW d \in Docs, NEW c, Lifecycle!Replace(d, c)
    PROVE  statusOf[d] = "ready"
  <1>1. /\ row[d].status \in Live /\ row'[d].status = "pending"
        /\ row'[d].checksum # row[d].checksum
    BY DEF Lifecycle!Replace, Lifecycle!Moves, Lifecycle!Brings, statusOf, contentOf
  <1>2. ASSUME NEW h \in Handlers, HandlerActs(h) PROVE row[d].status = "ready"
    <2>1. CreateRow(h) \/ SaveReplacement(h) \/ EraseRow(h)
      BY <1>1, <1>2
      DEF HandlerActs, ClientRequest, BeginUpload, BeginReplace, BeginDelete, BeginDownload,
          HandlerStep, Enqueue, PublishAccepted, RemoveObject, RemoveStagedFile, RecordLink,
          HandlerCrash, db
    <2>2. ASSUME NEW r, row' = [row EXCEPT ![handler[h].doc] = r]
          PROVE  handler[h].doc = d /\ r.status = "pending"
      BY <1>1, <2>2 DEF TypeOK
    <2>3. ~EraseRow(h)
      BY <1>1, <2>2 DEF EraseRow, db
    <2>4. CASE CreateRow(h)
      <3>1. handler[h].doc = d
        BY <1>1, <2>2, <2>4 DEF CreateRow, db
      <3> QED BY <1>1, <2>4, <3>1 DEF CreateRow, HandlerAt, Claims, CreateClaims, Live
    <2>5. CASE SaveReplacement(h)
      <3>1. handler[h].doc = d
        BY <1>1, <2>2, <2>5 DEF SaveReplacement, db
      <3> QED BY <1>1, <2>5, <3>1 DEF SaveReplacement, HandlerAt, SavesReady, Live
    <2> QED BY <2>1, <2>3, <2>4, <2>5
  <1>3. ASSUME NEW w \in Workers, WorkerStep(w) PROVE FALSE
    BY <1>1, <1>3, WorkerStepFrame, TaskMarksEffect
  <1>4. ~UNCHANGED vars
    BY <1>1 DEF vars
  <1> QED BY <1>2, <1>3, <1>4, StepCases DEF statusOf

LEMMA DocumentedLifecycleStep ==
    TypeOK /\ Ownership /\ Claims /\ SavesReady /\ [Next]_vars
        => [DocumentedLifecycle!Next]_<<statusOf, contentOf>>
  <1> SUFFICES ASSUME TypeOK, Claims, SavesReady, [Next]_vars, Lifecycle!Next
               PROVE  DocumentedLifecycle!Next
    BY LifecycleStep
  <1>1. PICK d \in Docs :
           \/ \E c \in Files : Lifecycle!Accept(d, c) \/ Lifecycle!Replace(d, c)
           \/ Lifecycle!Store(d) \/ Lifecycle!Fail(d) \/ Lifecycle!Retry(d)
           \/ Lifecycle!Delete(d)
    BY DEF Lifecycle!Next
  <1>2. ASSUME NEW c \in Files, Lifecycle!Replace(d, c) PROVE DocumentedLifecycle!Replace(d, c)
    BY <1>2, ReplacesReady
    DEF Lifecycle!Replace, Lifecycle!Moves, Lifecycle!Brings,
        DocumentedLifecycle!Replace, DocumentedLifecycle!Moves, DocumentedLifecycle!Brings
  <1>3. ASSUME NEW c \in Files, Lifecycle!Accept(d, c) PROVE DocumentedLifecycle!Accept(d, c)
    BY <1>3
    DEF Lifecycle!Accept, Lifecycle!Moves, Lifecycle!Brings,
        DocumentedLifecycle!Accept, DocumentedLifecycle!Moves, DocumentedLifecycle!Brings
  <1>4. Lifecycle!Delete(d) => DocumentedLifecycle!Delete(d)
    BY DEF Lifecycle!Delete, Lifecycle!Moves, DocumentedLifecycle!Delete,
           DocumentedLifecycle!Moves
  <1>5. ASSUME Lifecycle!Store(d) \/ Lifecycle!Fail(d) \/ Lifecycle!Retry(d)
        PROVE  \/ DocumentedLifecycle!Store(d) \/ DocumentedLifecycle!Fail(d)
               \/ DocumentedLifecycle!Retry(d)
    BY <1>5
    DEF Lifecycle!Store, Lifecycle!Fail, Lifecycle!Retry, Lifecycle!Moves,
        DocumentedLifecycle!Store, DocumentedLifecycle!Fail, DocumentedLifecycle!Retry,
        DocumentedLifecycle!Moves
  <1> QED BY <1>1, <1>2, <1>3, <1>4, <1>5 DEF DocumentedLifecycle!Next

\* While no two replacements of a document overlap, the rows go through the lifecycle the
\* documentation describes, whatever fails: the status a request checked before it staged
\* the file is the status it saves over.
THEOREM DocumentedLifecycleImplemented ==
    Spec /\ []ReplacementsAlone => RefinesDocumentedLifecycle
  <1>1. Init => DocumentedLifecycle!Init
    BY DEF Init, DocumentedLifecycle!Init, statusOf, contentOf
  <1>2. TypeOK /\ Ownership /\ Claims /\ SavesReady /\ [Next]_vars
            => [DocumentedLifecycle!Next]_(DocumentedLifecycle!lifecycleVars)
    BY DocumentedLifecycleStep DEF DocumentedLifecycle!lifecycleVars
  <1> QED
    BY <1>1, <1>2, SavesReadyCorrect, TypeCorrect, OwnershipCorrect, ClaimsCorrect, PTL
    DEF Spec, RefinesDocumentedLifecycle, DocumentedLifecycle!Spec

-----------------------------------------------------------------------------
(* One process that serves requests.                                       *)

\* With one process that serves requests, no two replacements overlap: the documented
\* lifecycle and, without duplicated tasks, the content of ready documents then need no
\* further hypothesis.
THEOREM OneHandlerDocumented ==
    ASSUME \A g, h \in Handlers : g = h
    PROVE  /\ Spec => RefinesDocumentedLifecycle
           /\ Faults \cap {"worker_crash", "redelivery"} = {} => (Spec => []ContentMatches)
  <1>1. ReplacementsAlone
    BY DEF ReplacementsAlone
  <1>2. Spec => RefinesDocumentedLifecycle
    BY <1>1, DocumentedLifecycleImplemented, PTL
  <1>3. ASSUME Faults \cap {"worker_crash", "redelivery"} = {}
        PROVE  Spec => []ContentMatches
    BY <1>1, <1>3, ContentCorrect, PTL
  <1> QED BY <1>2, <1>3

-----------------------------------------------------------------------------
(* A deletion that leaves nothing.                                         *)

\* No two requests for one document are served at a time.
RequestsAlone ==
    \A g, h \in Handlers :
        g # h /\ handler[g].pc # "idle" /\ handler[h].pc # "idle" =>
            handler[g].doc # handler[h].doc

\* Clients delete ready documents only.
DeletesReady == \A h \in Handlers : handler[h].pc = "remove" => handler[h].seen = "ready"

\* The document a request is about to delete is ready until it is gone, and then its
\* object is gone too and no task is left that could store it.
DeletionClean ==
    /\ \A h \in Handlers :
          /\ handler[h].pc \in {"remove", "erase"} =>
                row[handler[h].doc].status \in {"ready", "deleted"}
          /\ handler[h].pc = "erase" => object[handler[h].doc] = None
    /\ \A d \in Docs : row[d].status = "deleted" => object[d] = None /\ NoCarrier(d)

\* How a request comes to remove an object and to erase a row.
LEMMA DeletionFrom ==
    ASSUME TypeOK, [Next]_vars, NEW h \in Handlers, handler'[h].pc \in {"remove", "erase"}
    PROVE  \/ handler'[h] = handler[h]
           \/ /\ handler'[h].pc = "remove" /\ handler'[h].seen = row[handler'[h].doc].status
              /\ UNCHANGED row
           \/ /\ handler[h].pc = "remove" /\ handler'[h].pc = "erase"
              /\ handler'[h].doc = handler[h].doc /\ UNCHANGED row
              /\ handler[h].doc \in Docs /\ handler[h].seen = "ready" =>
                    object'[handler[h].doc] = None
  <1> DEFINE Goal ==
           \/ /\ handler'[h].pc = "remove" /\ handler'[h].seen = row[handler'[h].doc].status
              /\ UNCHANGED row
           \/ /\ handler[h].pc = "remove" /\ handler'[h].pc = "erase"
              /\ handler'[h].doc = handler[h].doc /\ UNCHANGED row
              /\ handler[h].doc \in Docs /\ handler[h].seen = "ready" =>
                    object'[handler[h].doc] = None
  <1>1. ASSUME HandlerActs(h) PROVE Goal
    <2>1. ~EndRequest(h)
      BY EndRequestRow
    <2>2. ASSUME NEW pc, HandlerGoes(h, pc) PROVE pc \in {"remove", "erase"}
      BY <2>2, HandlerGoesRow
    <2>3. CASE ClientRequest(h)
      <3>1. PICK d \in Docs :
               \/ \E f \in Files : BeginUpload(h, d, f) \/ BeginReplace(h, d, f)
               \/ BeginDelete(h, d)
               \/ BeginDownload(h, d)
        BY <2>3 DEF ClientRequest
      <3>2. \A f \in Files : ~BeginUpload(h, d, f) /\ ~BeginReplace(h, d, f)
        BY DEF TypeOK, BeginUpload, BeginReplace
      <3>3. ~BeginDownload(h, d)
        BY DEF TypeOK, BeginDownload
      <3> QED BY <3>1, <3>2, <3>3 DEF BeginDelete, TypeOK, db
    <2>4. CASE RemoveObject(h)
      <3>1. /\ handler[h].pc = "remove" /\ GoErase(h) /\ UNCHANGED row
            /\ object' = [object EXCEPT ![handler[h].doc] = None]
        BY <2>1, <2>4 DEF RemoveObject, HandlerAt, db
      <3>2. handler[h].doc \in Docs => object'[handler[h].doc] = None
        BY <3>1 DEF TypeOK
      <3> QED BY <3>1, <3>2, GoEraseRow
    <2>5. CASE RemoveStagedFile(h)
      <3>1. /\ handler[h].pc = "remove" /\ GoErase(h) /\ UNCHANGED row
            /\ handler[h].seen # "ready"
        BY <2>5 DEF RemoveStagedFile, HandlerAt, db
      <3> QED BY <3>1, GoEraseRow
    <2> QED
      BY <1>1, <2>1, <2>2, <2>3, <2>4, <2>5
      DEF HandlerActs, HandlerStep, CreateRow, SaveReplacement, Enqueue, PublishAccepted,
          EraseRow, RecordLink, HandlerCrash
  <1>2. ASSUME NEW g \in Handlers, HandlerActs(g), g # h PROVE handler'[h] = handler[h]
    BY <1>2, HandlerFrame
  <1>3. ASSUME NEW w \in Workers, WorkerStep(w) PROVE handler'[h] = handler[h]
    BY <1>3, WorkerFrame
  <1>4. UNCHANGED vars => handler'[h] = handler[h]
    BY DEF vars
  <1> QED BY <1>1, <1>2, <1>3, <1>4, StepCases

\* Only a request that has removed the object erases a row.
LEMMA DeletedFrom ==
    ASSUME TypeOK, [Next]_vars, NEW d \in Docs, row'[d].status = "deleted",
           row[d].status # "deleted"
    PROVE  \E h \in Handlers :
              handler[h].pc = "erase" /\ handler[h].doc = d /\ UNCHANGED <<object, worker>>
  <1>1. ASSUME NEW h \in Handlers, HandlerActs(h)
        PROVE  handler[h].pc = "erase" /\ handler[h].doc = d /\ UNCHANGED <<object, worker>>
    <2>1. ASSUME NEW r, row' = [row EXCEPT ![handler[h].doc] = r]
          PROVE  handler[h].doc = d /\ r.status = "deleted"
      BY <2>1 DEF TypeOK
    <2>2. ~CreateRow(h) /\ ~SaveReplacement(h)
      BY <2>1 DEF CreateRow, SaveReplacement, db
    <2>3. EraseRow(h)
      BY <1>1, <2>2
      DEF HandlerActs, ClientRequest, BeginUpload, BeginReplace, BeginDelete, BeginDownload,
          HandlerStep, Enqueue, PublishAccepted, RemoveObject, RemoveStagedFile, RecordLink,
          HandlerCrash, db
    <2> QED BY <2>1, <2>3 DEF EraseRow, HandlerAt, remote, db
  <1>2. ASSUME NEW w \in Workers, WorkerStep(w) PROVE FALSE
    BY <1>2, WorkerStepFrame, TaskMarksEffect
  <1>3. ~UNCHANGED vars
    BY DEF vars
  <1> QED BY <1>1, <1>2, <1>3, StepCases

LEMMA DeletionCleanStep ==
    ASSUME TypeOK, Claims, AloneUntilDeleted, RequestsAlone, DeletesReady, DeletesReady',
           DeletionClean, [Next]_vars
    PROVE  DeletionClean'
  <1>1. ASSUME NEW d \in Docs, row[d].status \in {"ready", "deleted"} PROVE NoCarrier(d)
    BY <1>1 DEF AloneUntilDeleted, Alone, IsPending, DeletionClean
  <1>2. ASSUME NEW d \in Docs, NoCarrier(d), object[d] = None PROVE object'[d] = None
    <2>1. ASSUME NEW w \in Workers, PutObject(w), worker[w].doc = d PROVE FALSE
      BY <1>2, <2>1 DEF NoCarrier, Carries, PutObject, WorkerAt
    <2> QED BY <1>2, <2>1, ObjectMoves
  <1>3. ASSUME NEW h \in Handlers, handler'[h].pc \in {"remove", "erase"}
        PROVE  /\ row'[handler'[h].doc].status \in {"ready", "deleted"}
               /\ handler'[h].pc = "erase" => object'[handler'[h].doc] = None
    <2>1. CASE handler'[h] = handler[h]
      <3> DEFINE d == handler[h].doc
      <3>1. /\ d \in Docs /\ row[d].status \in {"ready", "deleted"}
            /\ handler[h].pc = "erase" => object[d] = None
        BY <1>3, <2>1 DEF Claims, RequestsKnown, DeletionClean
      <3>2. ASSUME NEW g \in Handlers, handler[g].pc = "save", handler[g].doc = d PROVE FALSE
        BY <1>3, <2>1, <3>2 DEF RequestsAlone
      <3> HIDE DEF d
      <3>3. row'[d].status \in {"ready", "deleted"}
        BY <3>1, <3>2, DeletedKept, ReadyLeaves
      <3>4. handler[h].pc = "erase" => object'[d] = None
        BY <1>1, <1>2, <3>1
      <3> QED BY <2>1, <3>3, <3>4 DEF d
    <2>2. CASE /\ handler'[h].pc = "remove" /\ handler'[h].seen = row[handler'[h].doc].status
               /\ UNCHANGED row
      BY <2>2 DEF DeletesReady
    <2>3. CASE /\ handler[h].pc = "remove" /\ handler'[h].pc = "erase"
               /\ handler'[h].doc = handler[h].doc /\ UNCHANGED row
               /\ handler[h].doc \in Docs /\ handler[h].seen = "ready" =>
                     object'[handler[h].doc] = None
      <3>1. handler[h].doc \in Docs /\ handler[h].seen = "ready"
        BY <2>3 DEF Claims, RequestsKnown, DeletesReady
      <3> QED BY <2>3, <3>1 DEF DeletionClean
    <2> QED BY <1>3, <2>1, <2>2, <2>3, DeletionFrom
  <1>4. ASSUME NEW d \in Docs, row'[d].status = "deleted"
        PROVE  object'[d] = None /\ NoCarrier(d)'
    <2>1. CASE row[d].status = "deleted"
      <3>1. object[d] = None /\ NoCarrier(d)
        BY <2>1 DEF DeletionClean
      <3>2. ASSUME NEW w \in Workers, Carries(w, d)' PROVE FALSE
        <4>1. worker'[w] # worker[w]
          BY <3>1, <3>2 DEF NoCarrier, Carries
        <4>2. WorkerStep(w)
          BY <4>1, HandlerFrame, WorkerFrame, StepCases DEF vars
        <4> QED BY <2>1, <3>1, <3>2, <4>2, CarriesFrom DEF NoCarrier, IsPending, IsFailed
      <3> QED BY <1>2, <3>1, <3>2 DEF NoCarrier
    <2>2. CASE row[d].status # "deleted"
      <3>1. PICK h \in Handlers :
               handler[h].pc = "erase" /\ handler[h].doc = d /\ UNCHANGED <<object, worker>>
        BY <1>4, <2>2, DeletedFrom
      <3>2. object[d] = None /\ row[d].status = "ready"
        BY <2>2, <3>1 DEF DeletionClean
      <3>3. NoCarrier(d)
        BY <1>1, <3>2
      <3> QED BY <3>1, <3>2, <3>3 DEF NoCarrier, Carries
    <2> QED BY <2>1, <2>2
  <1> QED BY <1>3, <1>4 DEF DeletionClean

\* Deleting a document leaves nothing of it in the store if it is deleted when it is ready,
\* no other request is served for it meanwhile, no worker dies and the broker delivers each
\* message once: the promise of the documentation, under what the code asks for it.
THEOREM DeletionsComplete ==
    ASSUME Faults \cap {"worker_crash", "redelivery"} = {}
    PROVE  Spec /\ []RequestsAlone /\ []DeletesReady => []DeleteRemovesObject
  <1>1. Init => DeletionClean
    BY DEF Init, DeletionClean, IdleHandler
  <1>2. TypeOK /\ Claims /\ AloneUntilDeleted /\ RequestsAlone /\ DeletesReady /\ DeletesReady'
            /\ DeletionClean /\ [Next]_vars => DeletionClean'
    BY DeletionCleanStep
  <1>3. RequestsAlone => ReplacementsAlone
    BY DEF RequestsAlone, ReplacementsAlone
  <1>4. DeletionClean => DeleteRemovesObject
    BY DEF DeletionClean, DeleteRemovesObject
  <1> QED BY <1>1, <1>2, <1>3, <1>4, TasksAlone, TypeCorrect, ClaimsCorrect, PTL DEF Spec

=============================================================================
