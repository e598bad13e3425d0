----------------------- MODULE DocumentLifecycleProofs -----------------------
(***************************************************************************)
(* The audit log matches the rows, and every step of the detailed model is *)
(* a step of the abstract lifecycle or leaves it alone.                    *)
(***************************************************************************)
EXTENDS DocumentOwnershipProofs

USE NoneAssumption

\* A request that creates a document is the only one that knows it.
CreateClaims ==
    \A h \in Handlers : handler[h].pc = "create" =>
        /\ handler[h].doc \in Docs
        /\ row[handler[h].doc].status = "absent"
        /\ \A g \in Handlers \ {h} : handler[g].doc # handler[h].doc

\* Every other request works on a document that has had a row.
RequestsKnown ==
    \A h \in Handlers : handler[h].pc \notin {"idle", "create"} =>
        handler[h].doc \in Docs /\ row[handler[h].doc].status # "absent"

Claims == CreateClaims /\ RequestsKnown

-----------------------------------------------------------------------------
LEMMA ClaimsKept ==
    ASSUME Claims, UNCHANGED handler,
           \A e \in Docs : row'[e].status = "absent" <=> row[e].status = "absent"
    PROVE  Claims'
  BY DEF Claims, CreateClaims, RequestsKnown

\* A request that goes on with its document, or ends.
LEMMA ClaimsMove ==
    ASSUME Claims, NEW h \in Handlers, NEW r, HandlerEffect(h, r),
           \/ r.pc = "idle" /\ r.doc = None
           \/ /\ r.doc = handler[h].doc /\ r.doc \in Docs
              /\ r.pc # "create" /\ row'[r.doc].status # "absent",
           \A e \in Docs : e # r.doc =>
              (row'[e].status = "absent" <=> row[e].status = "absent")
    PROVE  Claims'
  <1>1. \A k \in Handlers : handler'[k].doc \in {None, handler[k].doc}
    BY DEF HandlerEffect
  <1>2. CreateClaims'
    <2> SUFFICES ASSUME NEW g \in Handlers, handler'[g].pc = "create"
                 PROVE  /\ handler'[g].doc \in Docs
                        /\ row'[handler'[g].doc].status = "absent"
                        /\ \A k \in Handlers \ {g} : handler'[k].doc # handler'[g].doc
      BY DEF CreateClaims
    <2>1. g # h /\ handler'[g] = handler[g]
      BY DEF HandlerEffect
    <2>2. /\ handler[g].doc \in Docs /\ row[handler[g].doc].status = "absent"
          /\ \A k \in Handlers \ {g} : handler[k].doc # handler[g].doc
      BY <2>1 DEF Claims, CreateClaims
    <2>3. r.doc # handler[g].doc
      BY <2>1, <2>2
    <2> QED BY <1>1, <2>1, <2>2, <2>3
  <1>3. RequestsKnown'
    <2> SUFFICES ASSUME NEW g \in Handlers, handler'[g].pc \notin {"idle", "create"}
                 PROVE  /\ handler'[g].doc \in Docs
                        /\ row'[handler'[g].doc].status # "absent"
      BY DEF RequestsKnown
    <2>1. CASE g = h
      BY <2>1 DEF HandlerEffect
    <2>2. CASE g # h
      <3>1. handler'[g] = handler[g]
        BY <2>2 DEF HandlerEffect
      <3>2. handler[g].doc \in Docs /\ row[handler[g].doc].status # "absent"
        BY <3>1 DEF Claims, RequestsKnown
      <3>3. CASE handler[g].doc = r.doc
        BY <3>1, <3>2, <3>3
      <3>4. CASE handler[g].doc # r.doc
        BY <3>1, <3>2, <3>4
      <3> QED BY <3>3, <3>4
    <2> QED BY <2>1, <2>2
  <1> QED BY <1>2, <1>3 DEF Claims

\* A request that begins.
LEMMA ClaimsBegin ==
    ASSUME Claims, NEW h \in Handlers, NEW r, HandlerEffect(h, r), UNCHANGED row,
           r.doc \in Docs,
           \/ /\ r.pc = "create" /\ row[r.doc].status = "absent"
              /\ \A g \in Handlers : handler[g].doc # r.doc
           \/ r.pc \notin {"idle", "create"} /\ row[r.doc].status # "absent"
    PROVE  Claims'
  <1>1. CreateClaims'
    <2> SUFFICES ASSUME NEW g \in Handlers, handler'[g].pc = "create"
                 PROVE  /\ handler'[g].doc \in Docs
                        /\ row[handler'[g].doc].status = "absent"
                        /\ \A k \in Handlers \ {g} : handler'[k].doc # handler'[g].doc
      BY DEF CreateClaims
    <2>1. CASE g = h
      BY <2>1 DEF HandlerEffect
    <2>2. CASE g # h
      <3>1. handler'[g] = handler[g]
        BY <2>2 DEF HandlerEffect
      <3>2. /\ handler[g].doc \in Docs /\ row[handler[g].doc].status = "absent"
            /\ \A k \in Handlers \ {g} : handler[k].doc # handler[g].doc
        BY <3>1 DEF Claims, CreateClaims
      <3>3. r.doc # handler[g].doc
        BY <3>2
      <3> QED BY <3>1, <3>2, <3>3 DEF HandlerEffect
    <2> QED BY <2>1, <2>2
  <1>2. RequestsKnown'
    BY DEF Claims, RequestsKnown, HandlerEffect
  <1> QED BY <1>1, <1>2 DEF Claims

-----------------------------------------------------------------------------
(* The steps that change a row.                                            *)

Pending(d, f) == row' = [row EXCEPT ![d] = [status |-> "pending", path |-> f, checksum |-> f]]
Deleted(d) ==
    row' = [row EXCEPT ![d] = [status |-> "deleted", path |-> None, checksum |-> None]]

\* A task changes nothing of a row but its status and its path, and only from
\* pending, or from failed to pending.
TaskMarks(d) ==
    \/ IsPending(d) /\ row' = [row EXCEPT ![d].status = "ready", ![d].path = None]
    \/ IsPending(d) /\ row' = [row EXCEPT ![d].status = "failed"]
    \/ IsFailed(d) /\ row' = [row EXCEPT ![d].status = "pending"]

WorkerStep(w) ==
    \/ TaskStep(w)
    \/ WorkerDatabaseError(w)
    \/ WorkerCrash(w)
    \/ Redeliver(w)
    \/ BeginReconcile(w)
    \/ \E m \in Messages : Deliver(w, m)

LEMMA NextCases ==
    ASSUME Next
    PROVE  \/ \E h \in Handlers : ClientRequest(h) \/ HandlerStep(h) \/ HandlerCrash(h)
           \/ \E w \in Workers : WorkerStep(w)
  BY DEF Next, TakeMessage, StartReconcile, WorkerStep

LEMMA WorkerStepFrame ==
    ASSUME NEW w \in Workers, WorkerStep(w)
    PROVE  /\ UNCHANGED <<audit, handler>>
           /\ UNCHANGED row \/ TaskMarks(worker[w].doc)
  <1>1. CASE TaskStep(w)
    BY <1>1
    DEF TaskStep, CheckStaged, OpenStaged, PutObject, StatObject, Retry, MarkReady, Reread,
        Unlink, PublishOutcome, MarkFailed, RereadFailed, ReconcileNext, TakeFailed,
        Requeue, FinishReconcile, TaskMarks, db
  <1>2. CASE ~TaskStep(w)
    BY <1>2
    DEF WorkerStep, WorkerDatabaseError, WorkerCrash, Redeliver, BeginReconcile, Deliver, db
  <1> QED BY <1>1, <1>2

LEMMA TaskMarksEffect ==
    ASSUME TypeOK, NEW d, TaskMarks(d)
    PROVE  \A e \in Docs :
              /\ row'[e].checksum = row[e].checksum
              /\ e # d => row'[e] = row[e]
              /\ e = d => \/ row[e].status = "pending" /\ row'[e].status \in {"ready", "failed"}
                          \/ row[e].status = "failed" /\ row'[e].status = "pending"
  <1> SUFFICES ASSUME NEW e \in Docs
               PROVE  /\ row'[e].checksum = row[e].checksum
                      /\ e # d => row'[e] = row[e]
                      /\ e = d =>
                           \/ row[e].status = "pending" /\ row'[e].status \in {"ready", "failed"}
                           \/ row[e].status = "failed" /\ row'[e].status = "pending"
    OBVIOUS
  <1>1. row \in [Docs -> RowType] /\ row[e] \in RowType
    BY DEF TypeOK
  <1>2. CASE e # d
    <2>1. row'[e] = row[e]
      BY <1>1, <1>2 DEF TaskMarks
    <2> QED BY <1>2, <2>1
  <1>3. CASE e = d
    <2>1. \/ row[e].status = "pending"
             /\ row'[e] = [row[e] EXCEPT !.status = "ready", !.path = None]
          \/ row[e].status = "pending" /\ row'[e] = [row[e] EXCEPT !.status = "failed"]
          \/ row[e].status = "failed" /\ row'[e] = [row[e] EXCEPT !.status = "pending"]
      BY <1>1, <1>3 DEF TaskMarks, IsPending, IsFailed
    <2> QED BY <1>1, <1>3, <2>1 DEF RowType
  <1> QED BY <1>2, <1>3

LEMMA ClaimsClientRequest ==
    ASSUME TypeOK, Claims, NEW h \in Handlers, ClientRequest(h)
    PROVE  Claims' /\ UNCHANGED <<row, audit>>
  <1>1. PICK d \in Docs :
           \/ \E f \in Files : BeginUpload(h, d, f) \/ BeginReplace(h, d, f)
           \/ BeginDelete(h, d)
           \/ BeginDownload(h, d)
    BY DEF ClientRequest
  <1>2. UNCHANGED <<row, audit>>
    BY <1>1 DEF BeginUpload, BeginReplace, BeginDelete, BeginDownload, db
  <1>3. ASSUME NEW r, handler' = [handler EXCEPT ![h] = r], r.doc = d,
               \/ r.pc = "create" /\ Unclaimed(d)
               \/ r.pc \notin {"idle", "create"} /\ row[d].status # "absent"
        PROVE  Claims'
    <2>1. HandlerEffect(h, r)
      BY <1>3 DEF TypeOK, HandlerEffect
    <2> QED BY <1>2, <1>3, <2>1, ClaimsBegin DEF Unclaimed, db
  <1>4. ASSUME NEW f \in Files, BeginUpload(h, d, f) PROVE Claims'
    <2> DEFINE r == [pc |-> "create", task |-> "upload", doc |-> d, file |-> f, seen |-> "none",
                     entries |-> 0]
    <2>1. r.doc = d /\ r.pc = "create"
      OBVIOUS
    <2>2. handler' = [handler EXCEPT ![h] = r] /\ Unclaimed(d)
      BY <1>4 DEF BeginUpload
    <2> HIDE DEF r
    <2> QED BY <1>3, <2>1, <2>2
  <1>5. ASSUME NEW f \in Files, BeginReplace(h, d, f) PROVE Claims'
    <2> DEFINE r == [pc |-> "save", task |-> "replace", doc |-> d, file |-> f, seen |-> "ready",
                     entries |-> 0]
    <2>1. r.doc = d /\ r.pc = "save"
      OBVIOUS
    <2>2. handler' = [handler EXCEPT ![h] = r] /\ row[d].status # "absent"
      BY <1>5 DEF BeginReplace, Replaceable
    <2> HIDE DEF r
    <2> QED BY <1>3, <2>1, <2>2
  <1>6. CASE BeginDelete(h, d)
    <2> DEFINE r == [pc |-> "remove", task |-> "none", doc |-> d,
                     file |-> row[d].path, seen |-> row[d].status, entries |-> 0]
    <2>1. r.doc = d /\ r.pc = "remove"
      OBVIOUS
    <2>2. handler' = [handler EXCEPT ![h] = r] /\ row[d].status # "absent"
      BY <1>6 DEF BeginDelete, RowExists, Live
    <2> HIDE DEF r
    <2> QED BY <1>2, <1>3, <2>1, <2>2
  <1>7. CASE BeginDownload(h, d)
    <2> DEFINE r == [pc |-> "link", task |-> "none", doc |-> d, file |-> None, seen |-> "ready",
                     entries |-> 0]
    <2>1. r.doc = d /\ r.pc = "link"
      OBVIOUS
    <2>2. handler' = [handler EXCEPT ![h] = r] /\ row[d].status # "absent"
      BY <1>7 DEF BeginDownload
    <2> HIDE DEF r
    <2> QED BY <1>2, <1>3, <2>1, <2>2
  <1> QED BY <1>1, <1>2, <1>4, <1>5, <1>6, <1>7

LEMMA ClaimsHandlerStep ==
    ASSUME TypeOK, Claims, NEW h \in Handlers, HandlerStep(h) \/ HandlerCrash(h)
    PROVE  Claims'
  <1> DEFINE d == handler[h].doc
  <1> DEFINE Same(e) == row'[e].status = "absent" <=> row[e].status = "absent"
  <1>1. handler[h].pc = "create" => d \in Docs
    BY DEF Claims, CreateClaims
  <1>2. handler[h].pc \notin {"idle", "create"} => d \in Docs /\ row[d].status # "absent"
    BY DEF Claims, RequestsKnown
  <1>3. ASSUME EndRequest(h), \A e \in Docs : Same(e) PROVE Claims'
    BY <1>3, EndRequestEffect, ClaimsMove DEF IdleHandler
  <1>4. ASSUME NEW pc \in HandlerPcs \ {"create", "save", "idle"}, HandlerGoes(h, pc),
               d \in Docs, row'[d].status # "absent",
               \A e \in Docs : e # d => Same(e)
        PROVE  Claims'
    <2>1. PICK r : HandlerEffect(h, r) /\ r.pc = pc /\ r.doc = d
      BY <1>4, HandlerGoesEffect
    <2> HIDE DEF d
    <2> QED BY <1>4, <2>1, ClaimsMove DEF d
  <1>13. ASSUME GoErase(h), d \in Docs, row[d].status # "absent", UNCHANGED row
        PROVE  Claims'
    <2>1. PICK r : HandlerEffect(h, r) /\ r.pc = "erase" /\ r.doc = d
      BY <1>13, GoEraseEffect
    <2> HIDE DEF d
    <2> QED BY <1>13, <2>1, ClaimsMove DEF d
  <1>5. ASSUME NEW r0, d \in Docs, row' = [row EXCEPT ![d] = r0], r0.status # "absent"
        PROVE  row'[d].status # "absent" /\ \A e \in Docs : e # d => Same(e)
    <2> HIDE DEF d
    <2> QED BY <1>5 DEF TypeOK
  <1>6. CASE CreateRow(h)
    <2>1. CASE UNCHANGED <<row, audit>> /\ EndRequest(h)
      BY <1>3, <1>6, <2>1 DEF CreateRow, db
    <2>2. CASE ~(UNCHANGED <<row, audit>> /\ EndRequest(h))
      <3>1. d \in Docs /\ HandlerGoes(h, "enqueue")
        BY <1>1, <1>6, <2>2 DEF CreateRow, HandlerAt, db
      <3> DEFINE r0 == [status |-> "pending", path |-> handler[h].file,
                        checksum |-> handler[h].file]
      <3>2. row' = [row EXCEPT ![d] = r0] /\ r0.status # "absent"
        BY <1>6, <2>2 DEF CreateRow, db
      <3> HIDE DEF r0, d
      <3> QED BY <1>4, <1>5, <3>1, <3>2 DEF HandlerPcs
    <2> QED BY <2>1, <2>2
  <1>7. CASE SaveReplacement(h)
    <2>1. CASE UNCHANGED <<row, audit>> /\ EndRequest(h)
      BY <1>3, <1>7, <2>1 DEF SaveReplacement, db
    <2>2. CASE ~(UNCHANGED <<row, audit>> /\ EndRequest(h))
      <3>1. d \in Docs /\ HandlerGoes(h, "enqueue")
        BY <1>2, <1>7, <2>2 DEF SaveReplacement, HandlerAt, db
      <3> DEFINE r0 == [status |-> "pending", path |-> handler[h].file,
                        checksum |-> handler[h].file]
      <3>2. row' = [row EXCEPT ![d] = r0] /\ r0.status # "absent"
        BY <1>7, <2>2 DEF SaveReplacement, db
      <3> HIDE DEF r0, d
      <3> QED BY <1>4, <1>5, <3>1, <3>2 DEF HandlerPcs
    <2> QED BY <2>1, <2>2
  <1>8. CASE EraseRow(h)
    <2>1. CASE UNCHANGED <<row, audit>>
      BY <1>3, <1>8, <2>1 DEF EraseRow, db
    <2>2. CASE ~UNCHANGED <<row, audit>>
      <3>1. d \in Docs /\ row[d].status # "absent" /\ EndRequest(h)
        BY <1>2, <1>8 DEF EraseRow, HandlerAt
      <3> DEFINE r0 == [status |-> "deleted", path |-> None, checksum |-> None]
      <3>2. row' = [row EXCEPT ![d] = r0] /\ r0.status # "absent"
        BY <1>8, <2>2 DEF EraseRow
      <3> HIDE DEF r0, d
      <3>3. \A e \in Docs : Same(e)
        BY <1>5, <3>1, <3>2
      <3> QED BY <1>3, <3>1, <3>3
    <2> QED BY <2>1, <2>2
  <1>9. CASE Enqueue(h)
    <2>1. d \in Docs /\ row[d].status # "absent" /\ UNCHANGED row
      BY <1>2, <1>9 DEF Enqueue, HandlerAt, db
    <2> HIDE DEF d
    <2> QED BY <1>3, <1>4, <1>9, <2>1 DEF Enqueue, HandlerPcs
  <1>10. CASE RemoveObject(h)
    <2>1. d \in Docs /\ row[d].status # "absent" /\ UNCHANGED row
      BY <1>2, <1>10 DEF RemoveObject, HandlerAt, db
    <2> HIDE DEF d
    <2> QED BY <1>3, <1>13, <1>10, <2>1 DEF RemoveObject
  <1>11. CASE RemoveStagedFile(h)
    <2>1. d \in Docs /\ row[d].status # "absent" /\ UNCHANGED row
      BY <1>2, <1>11 DEF RemoveStagedFile, HandlerAt, db
    <2> HIDE DEF d
    <2> QED BY <1>13, <1>11, <2>1 DEF RemoveStagedFile
  <1>12. CASE PublishAccepted(h) \/ RecordLink(h) \/ HandlerCrash(h)
    BY <1>3, <1>12 DEF PublishAccepted, RecordLink, HandlerCrash, db
  <1> QED BY <1>6, <1>7, <1>8, <1>9, <1>10, <1>11, <1>12 DEF HandlerStep

LEMMA ClaimsStep == TypeOK /\ Claims /\ [Next]_vars => Claims'
  <1> SUFFICES ASSUME TypeOK, Claims, [Next]_vars PROVE Claims'
    OBVIOUS
  <1>1. ASSUME NEW h \in Handlers, ClientRequest(h) \/ HandlerStep(h) \/ HandlerCrash(h)
        PROVE  Claims'
    BY <1>1, ClaimsClientRequest, ClaimsHandlerStep
  <1>2. ASSUME NEW w \in Workers, WorkerStep(w) PROVE Claims'
    <2>1. UNCHANGED handler /\ (UNCHANGED row \/ TaskMarks(worker[w].doc))
      BY <1>2, WorkerStepFrame
    <2>2. CASE UNCHANGED row
      BY <2>1, <2>2, ClaimsKept
    <2>3. CASE TaskMarks(worker[w].doc)
      <3>1. \A e \in Docs : row'[e].status = "absent" <=> row[e].status = "absent"
        BY <2>3, TaskMarksEffect
      <3> QED BY <2>1, <3>1, ClaimsKept
    <2> QED BY <2>1, <2>2, <2>3
  <1>3. CASE UNCHANGED vars
    BY <1>3, ClaimsKept DEF vars
  <1> QED BY <1>1, <1>2, <1>3, NextCases

LEMMA ClaimsCorrect == Spec => []Claims
  <1>1. Init => Claims
    BY DEF Init, Claims, CreateClaims, RequestsKnown, IdleHandler
  <1> QED BY <1>1, ClaimsStep, TypeCorrect, PTL DEF Spec

-----------------------------------------------------------------------------
(* The audit log.                                                          *)

\* The entries and the status of one document agree.
AuditMatches(d) ==
    /\ audit[d].created = IF row[d].status = "absent" THEN 0 ELSE 1
    /\ row[d].status = "deleted" <=> audit[d].deleted > 0
    /\ row[d].status = "absent" => audit[d].replaced = 0

LEMMA AuditHandlerStep ==
    ASSUME TypeOK, Claims, AuditMatchesRow, NEW h \in Handlers,
           HandlerStep(h) \/ HandlerCrash(h)
    PROVE  AuditMatchesRow'
  <1> SUFFICES ASSUME NEW e \in Docs PROVE AuditMatches(e)'
    BY DEF AuditMatchesRow, AuditMatches
  <1> DEFINE d == handler[h].doc
  <1>1. AuditMatches(e)
    BY DEF AuditMatchesRow, AuditMatches
  <1>2. /\ row \in [Docs -> RowType] /\ row[e] \in RowType
        /\ audit \in [Docs -> AuditType] /\ audit[e] \in AuditType
    BY DEF TypeOK
  <1>3. CASE UNCHANGED <<row[e], audit[e]>>
    BY <1>1, <1>3 DEF AuditMatches
  <1>4. CASE CreateRow(h) /\ d = e /\ ~UNCHANGED <<row, audit>>
    <2>1. row[e].status = "absent"
      BY <1>4 DEF CreateRow, HandlerAt, Claims, CreateClaims
    <2> DEFINE r0 == [status |-> "pending", path |-> handler[h].file,
                      checksum |-> handler[h].file]
    <2>2. row' = [row EXCEPT ![e] = r0] /\ r0.status = "pending"
      BY <1>4 DEF CreateRow, db
    <2>3. audit'[e] = [audit[e] EXCEPT !.created = audit[e].created + 1]
      <3>1. audit' = [audit EXCEPT ![e] = [audit[e] EXCEPT !.created = audit[e].created + 1]]
        BY <1>4 DEF CreateRow, db
      <3> QED BY <1>2, <3>1
    <2> HIDE DEF r0
    <2> QED BY <1>1, <1>2, <2>1, <2>2, <2>3 DEF AuditMatches, AuditType
  <1>5. CASE SaveReplacement(h) /\ d = e /\ ~UNCHANGED <<row, audit>>
    <2>1. row[e].status \in Live
      BY <1>5 DEF SaveReplacement, RowExists, db
    <2> DEFINE r0 == [status |-> "pending", path |-> handler[h].file,
                      checksum |-> handler[h].file]
    <2>2. row' = [row EXCEPT ![e] = r0] /\ r0.status = "pending"
      BY <1>5 DEF SaveReplacement, db
    <2>3. audit'[e] = [audit[e] EXCEPT !.replaced = audit[e].replaced + 1]
      <3>1. audit' = [audit EXCEPT ![e] = [audit[e] EXCEPT !.replaced = audit[e].replaced + 1]]
        BY <1>5 DEF SaveReplacement, db
      <3> QED BY <1>2, <3>1
    <2> HIDE DEF r0
    <2> QED BY <1>1, <1>2, <2>1, <2>2, <2>3 DEF AuditMatches, AuditType, Live
  <1>6. CASE EraseRow(h) /\ d = e /\ ~UNCHANGED <<row, audit>>
    <2>1. row[e].status # "absent"
      BY <1>6 DEF EraseRow, HandlerAt, Claims, RequestsKnown
    <2> DEFINE r0 == [status |-> "deleted", path |-> None, checksum |-> None]
    <2>2. row' = [row EXCEPT ![e] = r0] /\ r0.status = "deleted"
      BY <1>6 DEF EraseRow
    <2>3. audit'[e] = [audit[e] EXCEPT !.deleted = audit[e].deleted + 1]
      <3>1. audit' = [audit EXCEPT ![e] = [audit[e] EXCEPT !.deleted = audit[e].deleted + 1]]
        BY <1>6 DEF EraseRow
      <3> QED BY <1>2, <3>1
    <2> HIDE DEF r0
    <2> QED BY <1>1, <1>2, <2>1, <2>2, <2>3 DEF AuditMatches, AuditType
  <1>7. CASE RecordLink(h) /\ d = e /\ audit' # audit
    <2>1. audit'[e] = [audit[e] EXCEPT !.links = audit[e].links + 1]
      <3>1. audit' = [audit EXCEPT ![e] = [audit[e] EXCEPT !.links = audit[e].links + 1]]
        BY <1>7 DEF RecordLink
      <3> QED BY <1>2, <3>1
    <2>2. UNCHANGED row
      BY <1>7 DEF RecordLink
    <2> QED BY <1>1, <1>2, <2>1, <2>2 DEF AuditMatches, AuditType
  <1>8. CASE UNCHANGED <<row, audit>>
    BY <1>3, <1>8 DEF db
  <1>9. CASE d # e /\ ~UNCHANGED <<row, audit>>
    <2>1. UNCHANGED <<row[e], audit[e]>>
      BY <1>2, <1>9
      DEF HandlerStep, HandlerCrash, CreateRow, SaveReplacement, Enqueue, PublishAccepted,
          RemoveObject, RemoveStagedFile, EraseRow, RecordLink, db
    <2> QED BY <1>3, <2>1
  <1>10. HandlerStep(h) /\ ~UNCHANGED <<row, audit>> =>
            \/ CreateRow(h) \/ SaveReplacement(h) \/ EraseRow(h)
            \/ RecordLink(h) /\ audit' # audit
    BY DEF HandlerStep, Enqueue, PublishAccepted, RemoveObject, RemoveStagedFile,
           RecordLink, db
  <1>11. HandlerCrash(h) => UNCHANGED <<row, audit>>
    BY DEF HandlerCrash, db
  <1> QED BY <1>4, <1>5, <1>6, <1>7, <1>8, <1>9, <1>10, <1>11

LEMMA AuditStep == TypeOK /\ Claims /\ AuditMatchesRow /\ [Next]_vars => AuditMatchesRow'
  <1> SUFFICES ASSUME TypeOK, Claims, AuditMatchesRow, [Next]_vars PROVE AuditMatchesRow'
    OBVIOUS
  <1>1. CASE UNCHANGED <<row, audit>>
    BY <1>1 DEF db, AuditMatchesRow
  <1>2. ASSUME NEW h \in Handlers, ClientRequest(h) \/ HandlerStep(h) \/ HandlerCrash(h)
        PROVE  AuditMatchesRow'
    BY <1>1, <1>2, ClaimsClientRequest, AuditHandlerStep
  <1>3. ASSUME NEW w \in Workers, WorkerStep(w) PROVE AuditMatchesRow'
    <2>1. UNCHANGED audit /\ (UNCHANGED row \/ TaskMarks(worker[w].doc))
      BY <1>3, WorkerStepFrame
    <2>2. CASE TaskMarks(worker[w].doc)
      <3>1. \A e \in Docs :
               \/ row'[e] = row[e]
               \/ row[e].status \in {"pending", "failed"}
                  /\ row'[e].status \in {"pending", "ready", "failed"}
        BY <2>2, TaskMarksEffect
      <3> QED BY <2>1, <3>1 DEF AuditMatchesRow
    <2> QED BY <1>1, <2>1, <2>2 DEF db
  <1>4. CASE UNCHANGED vars
    BY <1>1, <1>4 DEF vars, db
  <1> QED BY <1>2, <1>3, <1>4, NextCases

\* The audit log tells the life of every document: whatever requests race on it and
\* whatever fails, it has one creation, and a deletion exactly when the row is gone.
THEOREM AuditCorrect == Spec => []AuditMatchesRow
  <1>1. Init => AuditMatchesRow
    BY DEF Init, AuditMatchesRow
  <1> QED BY <1>1, AuditStep, ClaimsCorrect, TypeCorrect, PTL DEF Spec

-----------------------------------------------------------------------------
(* The refinement: each step is mapped through the row it changes.         *)

LEMMA RowMapped ==
    ASSUME NEW d \in Docs, NEW r0, RowEffect(d, r0)
    PROVE  /\ statusOf' = [statusOf EXCEPT ![d] = r0.status]
           /\ contentOf' = [contentOf EXCEPT ![d] = r0.checksum]
  BY DEF RowEffect, statusOf, contentOf

LEMMA LifecycleHandlerStep ==
    ASSUME TypeOK, Ownership, Claims, NEW h \in Handlers,
           HandlerStep(h) \/ HandlerCrash(h)
    PROVE  Lifecycle!Next \/ UNCHANGED <<statusOf, contentOf>>
  <1> DEFINE d == handler[h].doc
  <1> DEFINE f == handler[h].file
  <1>1. CASE UNCHANGED row
    BY <1>1 DEF statusOf, contentOf
  <1>2. ASSUME NEW r0, row' = [row EXCEPT ![d] = r0] PROVE RowEffect(d, r0)
    <2> HIDE DEF d
    <2> QED BY <1>2 DEF TypeOK, RowEffect
  <1>3. Uploading(h) => f \in Files /\ \A e \in Docs : contentOf[e] # f
    BY DEF Ownership, FreshUploads, contentOf
  <1> DEFINE committed == [status |-> "pending", path |-> f, checksum |-> f]
  <1>4. CASE CreateRow(h) /\ ~UNCHANGED row
    <2>1. /\ d \in Docs /\ statusOf[d] = "absent"
          /\ Uploading(h)
      BY <1>4 DEF CreateRow, HandlerAt, Claims, CreateClaims, statusOf, Uploading
    <2>2. row' = [row EXCEPT ![d] = committed]
      BY <1>4 DEF CreateRow, db
    <2>3. committed.status = "pending" /\ committed.checksum = f
      OBVIOUS
    <2> HIDE DEF committed, d, f
    <2>4. /\ statusOf' = [statusOf EXCEPT ![d] = "pending"]
          /\ contentOf' = [contentOf EXCEPT ![d] = f]
      <3>1. RowEffect(d, committed)
        BY <1>2, <2>2
      <3>2. /\ statusOf' = [statusOf EXCEPT ![d] = committed.status]
            /\ contentOf' = [contentOf EXCEPT ![d] = committed.checksum]
        BY <2>1, <3>1, RowMapped
      <3> QED BY <2>3, <3>2
    <2>5. Lifecycle!Accept(d, f)
      BY <1>3, <2>1, <2>4 DEF Lifecycle!Accept, Lifecycle!Moves, Lifecycle!Brings
    <2> QED BY <1>3, <2>1, <2>5 DEF Lifecycle!Next
  <1>5. CASE SaveReplacement(h) /\ ~UNCHANGED row
    <2>1. /\ d \in Docs
          /\ Uploading(h)
      BY <1>5 DEF SaveReplacement, HandlerAt, Claims, RequestsKnown, Uploading
    <2>2. statusOf[d] \in Live /\ row' = [row EXCEPT ![d] = committed]
      BY <1>5, <2>1 DEF SaveReplacement, db, RowExists, statusOf
    <2>3. committed.status = "pending" /\ committed.checksum = f
      OBVIOUS
    <2> HIDE DEF committed, d, f
    <2>4. /\ statusOf' = [statusOf EXCEPT ![d] = "pending"]
          /\ contentOf' = [contentOf EXCEPT ![d] = f]
      <3>1. RowEffect(d, committed)
        BY <1>2, <2>2
      <3>2. /\ statusOf' = [statusOf EXCEPT ![d] = committed.status]
            /\ contentOf' = [contentOf EXCEPT ![d] = committed.checksum]
        BY <2>1, <3>1, RowMapped
      <3> QED BY <2>3, <3>2
    <2>5. Lifecycle!Replace(d, f)
      BY <1>3, <2>1, <2>2, <2>4 DEF Lifecycle!Replace, Lifecycle!Moves, Lifecycle!Brings
    <2> QED BY <1>3, <2>1, <2>5 DEF Lifecycle!Next
  <1>6. CASE EraseRow(h) /\ ~UNCHANGED row
    <2> DEFINE erased == [status |-> "deleted", path |-> None, checksum |-> None]
    <2>1. d \in Docs /\ row[d].status # "absent"
      BY <1>6 DEF EraseRow, HandlerAt, Claims, RequestsKnown
    <2>2. row' = [row EXCEPT ![d] = erased]
      BY <1>6 DEF EraseRow, db
    <2>3. erased.status = "deleted" /\ erased.checksum = None /\ erased.path = None
      OBVIOUS
    <2>4. row[d].status = "deleted" => row[d] = erased
      BY <2>1 DEF TypeOK, RowType, Ownership, RowShape
    <2> HIDE DEF erased, d, f
    <2>5. row \in [Docs -> RowType] /\ row[d] \in RowType
      BY <2>1 DEF TypeOK
    <2>6. row[d].status # "deleted"
      BY <1>6, <2>2, <2>4, <2>5
    <2>7. statusOf[d] \in {"pending", "ready", "failed"}
      BY <2>1, <2>5, <2>6 DEF RowType, Statuses, Live, statusOf
    <2>8. /\ statusOf' = [statusOf EXCEPT ![d] = "deleted"]
          /\ contentOf' = [contentOf EXCEPT ![d] = None]
      <3>1. RowEffect(d, erased)
        BY <1>2, <2>2
      <3>2. /\ statusOf' = [statusOf EXCEPT ![d] = erased.status]
            /\ contentOf' = [contentOf EXCEPT ![d] = erased.checksum]
        BY <2>1, <3>1, RowMapped
      <3> QED BY <2>3, <3>2
    <2>9. Lifecycle!Delete(d)
      BY <2>7, <2>8 DEF Lifecycle!Delete, Lifecycle!Moves
    <2> QED BY <2>1, <2>9 DEF Lifecycle!Next
  <1> QED
    BY <1>1, <1>4, <1>5, <1>6
    DEF HandlerStep, HandlerCrash, Enqueue, PublishAccepted, RemoveObject,
        RemoveStagedFile, RecordLink, db

LEMMA LifecycleTaskMarks ==
    ASSUME TypeOK, NEW d, TaskMarks(d)
    PROVE  Lifecycle!Next \/ UNCHANGED <<statusOf, contentOf>>
  <1>1. contentOf' = contentOf
    BY TaskMarksEffect DEF contentOf
  <1>2. CASE d \notin Docs
    <2>1. statusOf' = statusOf
      BY <1>2, TaskMarksEffect DEF statusOf
    <2> QED BY <1>1, <2>1
  <1>3. CASE d \in Docs
    <2>1. statusOf' = [statusOf EXCEPT ![d] = row'[d].status]
      BY <1>3, TaskMarksEffect DEF statusOf
    <2>2. \/ statusOf[d] = "pending" /\ row'[d].status \in {"ready", "failed"}
          \/ statusOf[d] = "failed" /\ row'[d].status = "pending"
      BY <1>3, TaskMarksEffect DEF statusOf
    <2>3. Lifecycle!Store(d) \/ Lifecycle!Fail(d) \/ Lifecycle!Retry(d)
      BY <1>1, <2>1, <2>2
      DEF Lifecycle!Store, Lifecycle!Fail, Lifecycle!Retry, Lifecycle!Moves
    <2> QED BY <1>3, <2>3 DEF Lifecycle!Next
  <1> QED BY <1>2, <1>3

LEMMA LifecycleStep ==
    TypeOK /\ Ownership /\ Claims /\ [Next]_vars
        => [Lifecycle!Next]_<<statusOf, contentOf>>
  <1> SUFFICES ASSUME TypeOK, Ownership, Claims, [Next]_vars
               PROVE  Lifecycle!Next \/ UNCHANGED <<statusOf, contentOf>>
    OBVIOUS
  <1>1. CASE UNCHANGED row
    BY <1>1 DEF statusOf, contentOf
  <1>2. ASSUME NEW h \in Handlers, ClientRequest(h) \/ HandlerStep(h) \/ HandlerCrash(h)
        PROVE  Lifecycle!Next \/ UNCHANGED <<statusOf, contentOf>>
    BY <1>1, <1>2, ClaimsClientRequest, LifecycleHandlerStep DEF db
  <1>3. ASSUME NEW w \in Workers, WorkerStep(w)
        PROVE  Lifecycle!Next \/ UNCHANGED <<statusOf, contentOf>>
    BY <1>1, <1>3, WorkerStepFrame, LifecycleTaskMarks
  <1>4. CASE UNCHANGED vars
    BY <1>1, <1>4 DEF vars
  <1> QED BY <1>2, <1>3, <1>4, NextCases

\* Whatever the interleaving and the faults, the rows go through the abstract
\* lifecycle: nothing follows a deletion, a task only settles a pending row, and
\* every content an upload or a replacement brings is its own.
THEOREM LifecycleImplemented == Spec => RefinesLifecycle
  <1>1. Init => Lifecycle!Init
    BY DEF Init, Lifecycle!Init, statusOf, contentOf
  <1>2. TypeOK /\ Ownership /\ Claims /\ [Next]_vars
            => [Lifecycle!Next]_(Lifecycle!lifecycleVars)
    BY LifecycleStep DEF Lifecycle!lifecycleVars
  <1> QED
    BY <1>1, <1>2, TypeCorrect, OwnershipCorrect, ClaimsCorrect, PTL
    DEF Spec, RefinesLifecycle, Lifecycle!Spec

=============================================================================
