------------------------ MODULE DocumentServiceProofs ------------------------
(***************************************************************************)
(* Theorems about DocumentService for any number of documents, files,      *)
(* handlers and workers, any retry limit, and any kind and number of       *)
(* faults.                                                                 *)
(***************************************************************************)
EXTENDS DocumentService, TLAPS

USE NoneAssumption, FaultsAssumption, BoundsAssumption

-----------------------------------------------------------------------------
(* What the updates the actions are built from do to the types.            *)

LEMMA HandlerDoc ==
    ASSUME TypeOK, NEW h \in Handlers
    PROVE  /\ handler[h] \in HandlerFields
           /\ handler[h].pc # "idle" => handler[h].doc \in Docs
  <1>1. handler[h] \in HandlerType
    BY DEF TypeOK
  <1> QED BY <1>1 DEF HandlerType

LEMMA HandlerSetType ==
    ASSUME TypeOK, NEW h \in Handlers, NEW r \in HandlerType,
           handler' = [handler EXCEPT ![h] = r]
    PROVE  handler' \in [Handlers -> HandlerType]
  BY DEF TypeOK

LEMMA HandlerGoesType ==
    ASSUME TypeOK, NEW h \in Handlers, NEW pc \in HandlerPcs, handler[h].pc # "idle",
           HandlerGoes(h, pc)
    PROVE  handler' \in [Handlers -> HandlerType]
  <1> DEFINE r == [handler[h] EXCEPT !.pc = pc]
  <1>1. r \in HandlerType
    BY HandlerDoc DEF HandlerType, HandlerFields
  <1>2. handler' = [handler EXCEPT ![h] = r]
    BY DEF HandlerGoes
  <1> HIDE DEF r
  <1> QED BY <1>1, <1>2, HandlerSetType

LEMMA EntriesType == ASSUME TypeOK, NEW d \in Docs PROVE Entries(d) \in Nat
  <1>1. audit[d] \in AuditType
    BY DEF TypeOK
  <1> QED BY <1>1 DEF Entries, AuditType

LEMMA GoEraseType ==
    ASSUME TypeOK, NEW h \in Handlers, handler[h].pc # "idle", GoErase(h)
    PROVE  handler' \in [Handlers -> HandlerType]
  <1> DEFINE n == Entries(handler[h].doc)
             r == [handler[h] EXCEPT !.pc = "erase", !.entries = n]
  <1>1. n \in Nat
    BY HandlerDoc, EntriesType
  <1>2. handler' = [handler EXCEPT ![h] = r]
    BY DEF GoErase
  <1>3. r \in HandlerType
    <2> HIDE DEF n
    <2> QED BY <1>1, HandlerDoc DEF HandlerType, HandlerFields, HandlerPcs
  <1> HIDE DEF r
  <1> QED BY <1>2, <1>3, HandlerSetType

\* What a deletion took is a path, or the object, of its document.
LEMMA UndoType ==
    ASSUME TypeOK, NEW h \in Handlers, handler[h].pc # "idle", Undo(h)
    PROVE  undone' \subseteq Docs \X Paths
  <1>1. handler[h].file \in Paths /\ None \in Paths
    BY HandlerDoc DEF HandlerFields, Paths
  <1>2. Taken(h) \in Paths
    BY <1>1 DEF Taken
  <1> QED BY <1>2, HandlerDoc DEF TypeOK, Undo

LEMMA EndRequestType ==
    ASSUME TypeOK, NEW h \in Handlers, EndRequest(h)
    PROVE  handler' \in [Handlers -> HandlerType]
  <1>1. IdleHandler \in HandlerType
    BY DEF IdleHandler, HandlerType, HandlerFields, HandlerPcs, Paths
  <1> QED BY <1>1, HandlerSetType DEF EndRequest

LEMMA WorkerGoesType ==
    ASSUME TypeOK, NEW w \in Workers, NEW pc \in WorkerPcs, WorkerGoes(w, pc)
    PROVE  worker' \in [Workers -> WorkerType]
  BY DEF TypeOK, WorkerGoes, WorkerType

LEMMA IdleWorkerType == IdleWorker \in WorkerType
  BY DEF IdleWorker, WorkerType, WorkerPcs, Paths

LEMMA EndTaskType ==
    ASSUME TypeOK, NEW w \in Workers, EndTask(w)
    PROVE  worker' \in [Workers -> WorkerType]
  BY IdleWorkerType DEF TypeOK, EndTask

LEMMA SendType ==
    ASSUME TypeOK, NEW m, Send(m)
    PROVE  queue' \in [Messages -> Nat]
  <1>1. queue \in [Messages -> Nat]
    BY DEF TypeOK
  <1>2. queue' = [n \in Messages |-> IF n = m THEN queue[m] + 1 ELSE queue[n]]
    BY <1>1 DEF Send
  <1>3. \A n \in Messages : (IF n = m THEN queue[m] + 1 ELSE queue[n]) \in Nat
    BY <1>1
  <1> QED BY <1>2, <1>3

LEMMA BroadcastType ==
    ASSUME TypeOK, NEW d, NEW k \in Kinds, NEW s \in Live \cup {"none"},
           Broadcast(d, k, s)
    PROVE  lastEvent' \in [Docs -> EventType]
  BY DEF TypeOK, Broadcast, EventType

LEMMA EventKindType == \A task : EventKind(task) \in Kinds
  BY DEF EventKind, Kinds

LEMMA FaultType ==
    ASSUME TypeOK, (\E kind \in FaultKinds : Fault(kind)) \/ NoFault
    PROVE  faultsLeft' \in 0 .. MaxFaults
  BY DEF TypeOK, Fault, NoFault

LEMMA AuditType1 ==
    ASSUME TypeOK, NEW d,
           \/ audit' = [audit EXCEPT ![d].created = @ + 1]
           \/ audit' = [audit EXCEPT ![d].replaced = @ + 1]
           \/ audit' = [audit EXCEPT ![d].deleted = @ + 1]
           \/ audit' = [audit EXCEPT ![d].links = @ + 1]
    PROVE  audit' \in [Docs -> AuditType]
  BY DEF TypeOK, AuditType

LEMMA RowSetType ==
    ASSUME TypeOK, NEW d, NEW s \in Statuses, NEW p \in Paths, NEW c \in Paths,
           row' = [row EXCEPT ![d] = [status |-> s, path |-> p, checksum |-> c]]
    PROVE  row' \in [Docs -> RowType]
  BY DEF TypeOK, RowType

LEMMA RowStatusType ==
    ASSUME TypeOK, NEW d, NEW s \in Statuses,
           row' = [row EXCEPT ![d].status = s]
    PROVE  row' \in [Docs -> RowType]
  BY DEF TypeOK, RowType

-----------------------------------------------------------------------------
(* Type correctness.                                                       *)

LEMMA InitType == Init => TypeOK
  BY IdleWorkerType
  DEF Init, TypeOK, RowType, AuditType, EventType, HandlerType, HandlerFields, HandlerPcs,
      IdleHandler, Statuses, Live, Paths

LEMMA ClientRequestType ==
    ASSUME TypeOK, NEW h \in Handlers, ClientRequest(h)
    PROVE  TypeOK'
  <1>1. PICK d \in Docs :
           \/ \E f \in Files : BeginUpload(h, d, f) \/ BeginReplace(h, d, f)
           \/ BeginDelete(h, d)
           \/ BeginDownload(h, d)
    BY DEF ClientRequest
  <1>2. ASSUME NEW f \in Files, BeginUpload(h, d, f) PROVE TypeOK'
    <2>1. handler' \in [Handlers -> HandlerType]
      BY <1>2 DEF BeginUpload, TypeOK, HandlerType, HandlerFields, HandlerPcs, UploadTasks, Paths
    <2> QED BY <1>2, <2>1 DEF BeginUpload, StageFile, TypeOK, db, remote
  <1>3. ASSUME NEW f \in Files, BeginReplace(h, d, f) PROVE TypeOK'
    <2>1. handler' \in [Handlers -> HandlerType]
      BY <1>3 DEF BeginReplace, TypeOK, HandlerType, HandlerFields, HandlerPcs, UploadTasks, Paths, Live
    <2> QED BY <1>3, <2>1 DEF BeginReplace, StageFile, TypeOK, db, remote
  <1>4. CASE BeginDelete(h, d)
    <2>1. handler' \in [Handlers -> HandlerType]
      BY <1>4 DEF BeginDelete, RowExists, TypeOK, RowType, HandlerType, HandlerFields, HandlerPcs
    <2> QED BY <1>4, <2>1 DEF BeginDelete, TypeOK, db, disk, remote
  <1>5. CASE BeginDownload(h, d)
    <2>1. handler' \in [Handlers -> HandlerType]
      BY <1>5 DEF BeginDownload, TypeOK, HandlerType, HandlerFields, HandlerPcs, Paths, Live
    <2> QED BY <1>5, <2>1 DEF BeginDownload, TypeOK, db, disk, remote
  <1> QED BY <1>1, <1>2, <1>3, <1>4, <1>5

LEMMA HandlerStepType ==
    ASSUME TypeOK, NEW h \in Handlers, HandlerStep(h) \/ HandlerCrash(h)
    PROVE  TypeOK'
  <1> DEFINE d == handler[h].doc
             f == handler[h].file
  <1>1. f \in Paths /\ "pending" \in Statuses /\ "deleted" \in Statuses /\ None \in Paths
        /\ "enqueue" \in HandlerPcs /\ "publish" \in HandlerPcs /\ "erase" \in HandlerPcs
        /\ "pending" \in Live \cup {"none"}
    BY HandlerDoc DEF HandlerFields, Statuses, Live, Paths, HandlerPcs
  <1>2. {"storage", "lost_reply", "database", "broker", "redis", "handler_crash"}
           \subseteq FaultKinds
    BY DEF FaultKinds
  <1>3. CASE CreateRow(h)
    <2>1. row' \in [Docs -> RowType]
      BY <1>1, <1>3, RowSetType DEF CreateRow, TypeOK, db
    <2>2. audit' \in [Docs -> AuditType]
      BY <1>3, AuditType1 DEF CreateRow, TypeOK, db
    <2>3. handler' \in [Handlers -> HandlerType]
      BY <1>1, <1>3, HandlerGoesType, EndRequestType DEF CreateRow, HandlerAt
    <2>4. faultsLeft' \in 0 .. MaxFaults
      BY <1>2, <1>3, FaultType DEF CreateRow
    <2> QED BY <1>3, <2>1, <2>2, <2>3, <2>4 DEF CreateRow, TypeOK, DeleteLocalFile, db, remote
  <1>4. CASE SaveReplacement(h)
    <2>1. row' \in [Docs -> RowType]
      BY <1>1, <1>4, RowSetType DEF SaveReplacement, TypeOK, db
    <2>2. audit' \in [Docs -> AuditType]
      BY <1>4, AuditType1 DEF SaveReplacement, TypeOK, db
    <2>3. handler' \in [Handlers -> HandlerType]
      BY <1>1, <1>4, HandlerGoesType, EndRequestType DEF SaveReplacement, HandlerAt
    <2>4. faultsLeft' \in 0 .. MaxFaults
      BY <1>2, <1>4, FaultType DEF SaveReplacement
    <2> QED BY <1>4, <2>1, <2>2, <2>3, <2>4
            DEF SaveReplacement, TypeOK, DeleteLocalFile, db, remote
  <1>5. CASE Enqueue(h)
    <2>1. queue' \in [Messages -> Nat]
      BY <1>5, SendType DEF Enqueue, TypeOK
    <2>2. handler' \in [Handlers -> HandlerType]
      BY <1>1, <1>5, HandlerGoesType, EndRequestType DEF Enqueue, HandlerAt
    <2>3. faultsLeft' \in 0 .. MaxFaults
      BY <1>2, <1>5, FaultType DEF Enqueue
    <2> QED BY <1>5, <2>1, <2>2, <2>3 DEF Enqueue, TypeOK, DeleteLocalFile, db
  <1>6. CASE PublishAccepted(h)
    <2>1. lastEvent' \in [Docs -> EventType]
      BY <1>1, <1>6, BroadcastType, EventKindType DEF PublishAccepted, TypeOK
    <2>2. handler' \in [Handlers -> HandlerType]
      BY <1>6, EndRequestType DEF PublishAccepted
    <2>3. faultsLeft' \in 0 .. MaxFaults
      BY <1>2, <1>6, FaultType DEF PublishAccepted
    <2> QED BY <1>6, <2>1, <2>2, <2>3 DEF PublishAccepted, TypeOK, db, disk
  <1>7. CASE RemoveObject(h)
    <2>1. object' \in [Docs -> Paths]
      BY <1>1, <1>7 DEF RemoveObject, TypeOK
    <2>2. handler' \in [Handlers -> HandlerType]
      BY <1>7, GoEraseType, EndRequestType DEF RemoveObject, HandlerAt
    <2>3. faultsLeft' \in 0 .. MaxFaults
      BY <1>2, <1>7, FaultType DEF RemoveObject
    <2>4. undone' \subseteq Docs \X Paths
      BY <1>7, UndoType DEF RemoveObject, HandlerAt, TypeOK
    <2> QED BY <1>7, <2>1, <2>2, <2>3, <2>4 DEF RemoveObject, TypeOK, disk
  <1>8. CASE RemoveStagedFile(h)
    <2>1. handler' \in [Handlers -> HandlerType]
      BY <1>8, GoEraseType DEF RemoveStagedFile, HandlerAt
    <2> QED BY <1>8, <2>1 DEF RemoveStagedFile, TypeOK, DeleteLocalFile, db, remote
  <1>9. CASE EraseRow(h)
    <2>1. row' \in [Docs -> RowType]
      BY <1>1, <1>9, RowSetType DEF EraseRow, TypeOK, db
    <2>2. audit' \in [Docs -> AuditType]
      BY <1>9, AuditType1 DEF EraseRow, TypeOK, db
    <2>3. handler' \in [Handlers -> HandlerType]
      BY <1>9, EndRequestType DEF EraseRow
    <2>4. faultsLeft' \in 0 .. MaxFaults
      BY <1>2, <1>9, FaultType DEF EraseRow
    <2>5. undone' \subseteq Docs \X Paths
      BY <1>9, UndoType DEF EraseRow, HandlerAt, TypeOK
    <2> QED BY <1>9, <2>1, <2>2, <2>3, <2>4, <2>5 DEF EraseRow, TypeOK, disk, remote
  <1>10. CASE RecordLink(h)
    <2>1. audit' \in [Docs -> AuditType]
      BY <1>10, AuditType1 DEF RecordLink, TypeOK
    <2>2. handler' \in [Handlers -> HandlerType]
      BY <1>10, EndRequestType DEF RecordLink
    <2>3. faultsLeft' \in 0 .. MaxFaults
      BY <1>2, <1>10, FaultType DEF RecordLink
    <2> QED BY <1>10, <2>1, <2>2, <2>3 DEF RecordLink, TypeOK, disk, remote
  <1>11. CASE HandlerCrash(h)
    <2>1. handler' \in [Handlers -> HandlerType]
      BY <1>11, EndRequestType DEF HandlerCrash
    <2>2. faultsLeft' \in 0 .. MaxFaults
      BY <1>2, <1>11, FaultType DEF HandlerCrash
    <2>3. undone' \subseteq Docs \X Paths
      BY <1>11, UndoType DEF HandlerCrash, HandlerAt, TypeOK
    <2> QED BY <1>11, <2>1, <2>2, <2>3 DEF HandlerCrash, TypeOK, disk, remote
  <1> QED BY <1>3, <1>4, <1>5, <1>6, <1>7, <1>8, <1>9, <1>10, <1>11 DEF HandlerStep

LEMMA TaskStepType ==
    ASSUME TypeOK, NEW w \in Workers, TaskStep(w)
    PROVE  TypeOK'
  <1> DEFINE d == worker[w].doc
  <1>1. WorkerPcs = {"idle", "check", "open", "put", "stat", "retry", "commit", "reread",
                     "unlink", "publish", "mark", "remark", "scan", "take", "requeue"}
    BY DEF WorkerPcs
  <1>2. {"storage", "lost_reply", "database", "broker", "redis", "worker_crash"}
           \subseteq FaultKinds
    BY DEF FaultKinds
  <1>3. CASE CheckStaged(w)
    <2>1. worker' \in [Workers -> WorkerType]
      BY <1>1, <1>3, WorkerGoesType DEF CheckStaged
    <2> QED BY <1>3, <2>1 DEF CheckStaged, TypeOK, db, disk, remote
  <1>4. CASE OpenStaged(w)
    <2>1. worker' \in [Workers -> WorkerType]
      BY <1>1, <1>4, WorkerGoesType, EndTaskType DEF OpenStaged
    <2> QED BY <1>4, <2>1 DEF OpenStaged, TypeOK, db, disk, remote
  <1>5. CASE PutObject(w)
    <2>1. worker' \in [Workers -> WorkerType]
      BY <1>1, <1>5, WorkerGoesType DEF PutObject, StorageFailed
    <2>2. object' \in [Docs -> Paths]
      BY <1>5 DEF PutObject, TypeOK, WorkerType
    <2>3. faultsLeft' \in 0 .. MaxFaults
      BY <1>2, <1>5, FaultType DEF PutObject
    <2>4. undone' \subseteq Docs \X Paths
      BY <1>5 DEF PutObject, TypeOK
    <2> QED BY <1>5, <2>1, <2>2, <2>3, <2>4 DEF PutObject, TypeOK, disk
  <1>6. CASE StatObject(w)
    <2>1. worker' \in [Workers -> WorkerType]
      BY <1>1, <1>6, WorkerGoesType DEF StatObject, StorageFailed
    <2>2. faultsLeft' \in 0 .. MaxFaults
      BY <1>2, <1>6, FaultType DEF StatObject
    <2> QED BY <1>6, <2>1, <2>2 DEF StatObject, TypeOK, db, disk, remote
  <1>7. CASE Retry(w)
    <2> DEFINE again == [MessageOf(w) EXCEPT !.retries = @ + 1]
    <2>1. worker' \in [Workers -> WorkerType]
      BY <1>7, EndTaskType DEF Retry
    <2>2. queue' \in [Messages -> Nat]
      <3>1. ASSUME queue' = [m \in Messages |->
                               IF m \in {again, MessageOf(w)}
                                 THEN queue[m] + 1 ELSE queue[m]]
            PROVE  queue' \in [Messages -> Nat]
        <4>1. \A m \in Messages : queue[m] \in Nat
          BY DEF TypeOK
        <4>2. \A m \in Messages :
                 (IF m \in {again, MessageOf(w)} THEN queue[m] + 1 ELSE queue[m]) \in Nat
          BY <4>1
        <4> QED BY <3>1, <4>2
      <3> QED BY <1>7, <3>1, SendType DEF Retry, TypeOK
    <2>3. faultsLeft' \in 0 .. MaxFaults
      BY <1>2, <1>7, FaultType DEF Retry
    <2> QED BY <1>7, <2>1, <2>2, <2>3 DEF Retry, TypeOK, db, disk
  <1>8. CASE MarkReady(w)
    <2>1. worker' \in [Workers -> WorkerType]
      BY <1>1, <1>8, WorkerGoesType, EndTaskType DEF MarkReady
    <2>2. row' \in [Docs -> RowType]
      BY <1>8 DEF MarkReady, TypeOK, RowType, Statuses, Live, Paths
    <2> QED BY <1>8, <2>1, <2>2 DEF MarkReady, TypeOK, disk, remote
  <1>9. CASE Reread(w)
    <2>1. worker' \in [Workers -> WorkerType]
      BY <1>1, <1>9, EndTaskType DEF Reread, RowExists, StatusRead, TypeOK, WorkerType
    <2> QED BY <1>9, <2>1 DEF Reread, TypeOK, db, disk, remote
  <1>10. CASE Unlink(w)
    <2>1. worker' \in [Workers -> WorkerType]
      BY <1>1, <1>10, WorkerGoesType DEF Unlink
    <2> QED BY <1>10, <2>1 DEF Unlink, TypeOK, DeleteLocalFile, db, remote
  <1>11. CASE PublishOutcome(w)
    <2>1. worker' \in [Workers -> WorkerType]
      BY <1>11, EndTaskType DEF PublishOutcome
    <2>2. lastEvent' \in [Docs -> EventType]
      BY <1>11, BroadcastType, EventKindType DEF PublishOutcome, TypeOK, WorkerType
    <2>3. faultsLeft' \in 0 .. MaxFaults
      BY <1>2, <1>11, FaultType DEF PublishOutcome
    <2> QED BY <1>11, <2>1, <2>2, <2>3 DEF PublishOutcome, TypeOK, db, disk
  <1>12. CASE MarkFailed(w)
    <2>1. worker' \in [Workers -> WorkerType]
      BY <1>1, <1>12, WorkerGoesType, EndTaskType DEF MarkFailed
    <2>2. row' \in [Docs -> RowType]
      BY <1>12, RowStatusType DEF MarkFailed, TypeOK, Statuses, Live
    <2> QED BY <1>12, <2>1, <2>2 DEF MarkFailed, TypeOK, disk, remote
  <1>13. CASE RereadFailed(w)
    <2>1. worker' \in [Workers -> WorkerType]
      BY <1>1, <1>13, EndTaskType
      DEF RereadFailed, RowExists, StatusRead, TypeOK, WorkerType
    <2> QED BY <1>13, <2>1 DEF RereadFailed, TypeOK, db, disk, remote
  <1>14. CASE ReconcileNext(w)
    <2>1. worker' \in [Workers -> WorkerType]
      <3>1. PICK e \in worker[w].todo :
               \/ worker' = [worker EXCEPT ![w].pc = "take", ![w].doc = e[1],
                                           ![w].todo = @ \ {e}]
               \/ worker' = [worker EXCEPT ![w].todo = @ \ {e}]
        BY <1>14 DEF ReconcileNext
      <3>2. e \in Docs \X Files
        BY <3>1 DEF TypeOK, WorkerType
      <3>3. e[1] \in Docs
        BY <3>2
      <3>4. worker \in [Workers -> WorkerType]
        BY DEF TypeOK
      <3> QED BY <1>1, <3>1, <3>3, <3>4 DEF WorkerType
    <2> QED BY <1>14, <2>1 DEF ReconcileNext, TypeOK, db, disk, remote
  <1>15. CASE TakeFailed(w)
    <2>1. worker' \in [Workers -> WorkerType]
      BY <1>1, <1>15, WorkerGoesType DEF TakeFailed, TypeOK, WorkerType
    <2>2. row' \in [Docs -> RowType]
      BY <1>15, RowStatusType DEF TakeFailed, TypeOK, Statuses, Live
    <2> QED BY <1>15, <2>1, <2>2 DEF TakeFailed, TypeOK, disk, remote
  <1>16. CASE Requeue(w)
    <2>1. worker' \in [Workers -> WorkerType]
      BY <1>1, <1>16, EndTaskType DEF Requeue, TypeOK, WorkerType
    <2>2. queue' \in [Messages -> Nat]
      BY <1>16, SendType DEF Requeue, TypeOK
    <2>3. faultsLeft' \in 0 .. MaxFaults
      BY <1>2, <1>16, FaultType DEF Requeue
    <2> QED BY <1>16, <2>1, <2>2, <2>3 DEF Requeue, TypeOK, db, disk
  <1>17. CASE FinishReconcile(w)
    <2>1. worker' \in [Workers -> WorkerType]
      BY <1>17, EndTaskType DEF FinishReconcile
    <2> QED BY <1>17, <2>1 DEF FinishReconcile, TypeOK, db, disk, remote
  <1> QED BY <1>3, <1>4, <1>5, <1>6, <1>7, <1>8, <1>9, <1>10, <1>11, <1>12, <1>13,
             <1>14, <1>15, <1>16, <1>17 DEF TaskStep

LEMMA WorkerEventType ==
    ASSUME TypeOK, NEW w \in Workers,
           \/ WorkerDatabaseError(w)
           \/ WorkerCrash(w)
           \/ Redeliver(w)
           \/ BeginReconcile(w)
           \/ \E m \in Messages : Deliver(w, m)
    PROVE  TypeOK'
  <1>1. {"database", "worker_crash", "reconcile_crash", "redelivery"} \subseteq FaultKinds
    BY DEF FaultKinds
  <1>2. CASE WorkerDatabaseError(w)
    <2>1. worker' \in [Workers -> WorkerType]
      BY <1>2, EndTaskType DEF WorkerDatabaseError
    <2>2. faultsLeft' \in 0 .. MaxFaults
      BY <1>1, <1>2, FaultType DEF WorkerDatabaseError
    <2> QED BY <1>2, <2>1, <2>2 DEF WorkerDatabaseError, TypeOK, db, disk, remote
  <1>3. CASE WorkerCrash(w)
    <2>1. worker' \in [Workers -> WorkerType]
      BY <1>3, EndTaskType DEF WorkerCrash
    <2>2. queue' \in [Messages -> Nat]
      BY <1>3, SendType DEF WorkerCrash, ReturnMessage, TypeOK
    <2>3. faultsLeft' \in 0 .. MaxFaults
      BY <1>1, <1>3, FaultType DEF WorkerCrash
    <2> QED BY <1>3, <2>1, <2>2, <2>3 DEF WorkerCrash, TypeOK, db, disk
  <1>4. CASE Redeliver(w)
    <2>1. queue' \in [Messages -> Nat]
      BY <1>4, SendType DEF Redeliver
    <2>2. faultsLeft' \in 0 .. MaxFaults
      BY <1>1, <1>4, FaultType DEF Redeliver
    <2> QED BY <1>4, <2>1, <2>2 DEF Redeliver, TypeOK, db, disk
  <1>5. CASE BeginReconcile(w)
    <2>1. FailedUploads \subseteq Docs \X Files
      BY DEF FailedUploads, TypeOK, RowType, Paths
    <2>2. worker' \in [Workers -> WorkerType]
      BY <1>5, <2>1, IdleWorkerType DEF BeginReconcile, TypeOK, WorkerType, WorkerPcs
    <2> QED BY <1>5, <2>2 DEF BeginReconcile, TypeOK, db, disk, remote
  <1>6. ASSUME NEW m \in Messages, Deliver(w, m) PROVE TypeOK'
    <2>1. /\ m.task \in UploadTasks /\ m.doc \in Docs /\ m.retries \in 0 .. MaxRetries
          /\ row[m.doc].path \in Paths
      BY DEF Messages, TypeOK, RowType
    <2>2. worker' \in [Workers -> WorkerType]
      BY <1>6, <2>1 DEF Deliver, TypeOK, WorkerType, WorkerPcs, Live
    <2>3. queue' \in [Messages -> Nat]
      BY <1>6 DEF Deliver, TypeOK
    <2>4. faultsLeft' \in 0 .. MaxFaults
      BY <1>1, <1>6, FaultType DEF Deliver
    <2> QED BY <1>6, <2>2, <2>3, <2>4 DEF Deliver, TypeOK, db, disk
  <1> QED BY <1>2, <1>3, <1>4, <1>5, <1>6

LEMMA StepType == TypeOK /\ [Next]_vars => TypeOK'
  <1> SUFFICES ASSUME TypeOK, [Next]_vars PROVE TypeOK'
    OBVIOUS
  <1>1. CASE UNCHANGED vars
    BY <1>1 DEF vars, TypeOK
  <1>2. CASE Next
    BY <1>2, ClientRequestType, HandlerStepType, TaskStepType, WorkerEventType
    DEF Next, TakeMessage, StartReconcile
  <1> QED BY <1>1, <1>2

\* Every reachable state has the shape the code gives it, for every number of
\* documents, processes, retries and faults.
THEOREM TypeCorrect == Spec => []TypeOK
  BY InitType, StepType, PTL DEF Spec

=============================================================================
