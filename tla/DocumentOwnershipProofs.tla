----------------------- MODULE DocumentOwnershipProofs -----------------------
(***************************************************************************)
(* Who owns a staged file.  The rows stay consistent, the staged file of a *)
(* row is kept, and the detailed model implements the abstract lifecycle,  *)
(* because a path is handed out once and then belongs to one document.     *)
(***************************************************************************)
EXTENDS DocumentServiceProofs

USE NoneAssumption

\* A row without an upload describes no content.
RowShape ==
    /\ RowConsistent
    /\ \A d \in Docs :
          row[d].status \in {"absent", "deleted"} =>
              row[d].path = None /\ row[d].checksum = None

\* Between staging and commit.
Uploading(h) == handler[h].pc \in {"create", "save"}

\* Every path in use has been handed out.
PathsMinted ==
    /\ \A d \in Docs : row[d].checksum \in minted \cup {None}
    /\ \A h \in Handlers : handler[h].file \in minted \cup {None}
    /\ \A w \in Workers : worker[w].file \in minted \cup {None}

\* Nobody but its request knows a file that is staged and not yet committed.
FreshUploads ==
    \A h \in Handlers : Uploading(h) =>
        /\ handler[h].file \in Files
        /\ \A d \in Docs : row[d].checksum # handler[h].file
        /\ \A g \in Handlers \ {h} : handler[g].file # handler[h].file
        /\ \A w \in Workers : worker[w].file # handler[h].file

\* A committed file belongs to one document: no other row, request or task has it.
OneOwner ==
    /\ \A d, e \in Docs :
          row[d].checksum = row[e].checksum /\ row[d].checksum # None => d = e
    /\ \A h \in Handlers, e \in Docs :
          row[e].checksum = handler[h].file /\ handler[h].file # None =>
              e = handler[h].doc
    /\ \A w \in Workers, e \in Docs :
          row[e].checksum = worker[w].file /\ worker[w].file # None =>
              e = worker[w].doc

\* Reconciliation holds no file.
ReconcileHoldsNoFile ==
    \A w \in Workers :
        worker[w].pc \in {"idle", "scan", "take", "requeue"} => worker[w].file = None

\* Once a task has made its document ready, no row points to the task's file, and
\* none ever will: this is what makes the unlink that follows safe.
StoredFileReleased ==
    \A w \in Workers, e \in Docs :
        worker[w].pc \in {"reread", "unlink"} /\ row[e].path # None =>
            row[e].path # worker[w].file

Ownership ==
    /\ RowShape
    /\ PathsMinted
    /\ FreshUploads
    /\ OneOwner
    /\ ReconcileHoldsNoFile
    /\ StoredFileReleased

-----------------------------------------------------------------------------
(* What an action does, one document, request or task at a time.           *)

RowEffect(d, r) == \A e \in Docs : row'[e] = IF e = d THEN r ELSE row[e]
HandlerEffect(h, r) == \A g \in Handlers : handler'[g] = IF g = h THEN r ELSE handler[g]
WorkerEffect(w, r) == \A v \in Workers : worker'[v] = IF v = w THEN r ELSE worker[v]

\* The request goes on with its file, or without one.
HandlerKeeps(h, r) ==
    /\ r.pc \notin {"create", "save"}
    /\ r.file = None \/ (r.file = handler[h].file /\ r.doc = handler[h].doc)

\* The task goes on with its file, or without one.
WorkerKeeps(w, r) ==
    \/ r.file = None
    \/ /\ r.file = worker[w].file /\ r.doc = worker[w].doc
       /\ r.pc \notin {"idle", "scan", "take", "requeue"}
       /\ r.pc \in {"reread", "unlink"} => worker[w].pc \in {"reread", "unlink"}

LEMMA HandlerMoves ==
    ASSUME Ownership, NEW h \in Handlers, NEW r, HandlerEffect(h, r), HandlerKeeps(h, r),
           UNCHANGED <<row, worker, minted>>
    PROVE  Ownership'
  <1>1. RowShape'
    BY DEF Ownership, RowShape, RowConsistent
  <1>2. PathsMinted'
    BY DEF Ownership, PathsMinted, HandlerEffect, HandlerKeeps
  <1>3. FreshUploads'
    <2> SUFFICES ASSUME NEW g \in Handlers, Uploading(g)'
                 PROVE  /\ handler'[g].file \in Files
                        /\ \A e \in Docs : row'[e].checksum # handler'[g].file
                        /\ \A k \in Handlers \ {g} : handler'[k].file # handler'[g].file
                        /\ \A v \in Workers : worker'[v].file # handler'[g].file
      BY DEF FreshUploads
    <2>1. g # h /\ handler'[g] = handler[g] /\ Uploading(g)
      BY DEF Uploading, HandlerEffect, HandlerKeeps
    <2>2. \A k \in Handlers : handler'[k].file \in {None, handler[k].file}
      BY DEF HandlerEffect, HandlerKeeps
    <2>9. /\ handler[g].file \in Files
          /\ \A e \in Docs : row[e].checksum # handler[g].file
          /\ \A k \in Handlers \ {g} : handler[k].file # handler[g].file
          /\ \A v \in Workers : worker[v].file # handler[g].file
      BY <2>1 DEF Ownership, FreshUploads
    <2> QED BY <2>1, <2>2, <2>9
  <1>4. OneOwner'
    BY DEF Ownership, OneOwner, HandlerEffect, HandlerKeeps
  <1>5. ReconcileHoldsNoFile'
    BY DEF Ownership, ReconcileHoldsNoFile
  <1>6. StoredFileReleased'
    BY DEF Ownership, StoredFileReleased
  <1> QED BY <1>1, <1>2, <1>3, <1>4, <1>5, <1>6 DEF Ownership

LEMMA HandlerStages ==
    ASSUME Ownership, NEW h \in Handlers, NEW r, NEW f \in Files, HandlerEffect(h, r),
           f \notin minted, minted' = minted \cup {f},
           r.pc \in {"create", "save"}, r.file = f,
           UNCHANGED <<row, worker>>
    PROVE  Ownership'
  <1>1. RowShape'
    BY DEF Ownership, RowShape, RowConsistent
  <1>2. PathsMinted'
    BY DEF Ownership, PathsMinted, HandlerEffect
  <1>3. /\ \A d \in Docs : row[d].checksum # f
        /\ \A g \in Handlers : handler[g].file # f
        /\ \A w \in Workers : worker[w].file # f
    BY DEF Ownership, PathsMinted
  <1>4. FreshUploads'
    <2> SUFFICES ASSUME NEW g \in Handlers, Uploading(g)'
                 PROVE  /\ handler'[g].file \in Files
                        /\ \A e \in Docs : row'[e].checksum # handler'[g].file
                        /\ \A k \in Handlers \ {g} : handler'[k].file # handler'[g].file
                        /\ \A v \in Workers : worker'[v].file # handler'[g].file
      BY DEF FreshUploads
    <2>1. CASE g = h
      BY <1>3, <2>1 DEF HandlerEffect
    <2>2. CASE g # h
      <3>1. handler'[g] = handler[g] /\ Uploading(g)
        BY <2>2 DEF Uploading, HandlerEffect
      <3>2. handler[g].file # f
        BY <1>3
      <3>3. \A k \in Handlers : handler'[k].file \in {f, handler[k].file}
        BY DEF HandlerEffect
      <3> QED BY <3>1, <3>2, <3>3 DEF Ownership, FreshUploads
    <2> QED BY <2>1, <2>2
  <1>5. OneOwner'
    BY <1>3 DEF Ownership, OneOwner, HandlerEffect
  <1>6. ReconcileHoldsNoFile'
    BY DEF Ownership, ReconcileHoldsNoFile
  <1>7. StoredFileReleased'
    BY DEF Ownership, StoredFileReleased
  <1> QED BY <1>1, <1>2, <1>4, <1>5, <1>6, <1>7 DEF Ownership

LEMMA HandlerCommits ==
    ASSUME Ownership, NEW h \in Handlers, NEW r, Uploading(h), HandlerEffect(h, r),
           r.pc = "enqueue", r.file = handler[h].file, r.doc = handler[h].doc,
           RowEffect(handler[h].doc,
                     [status |-> "pending", path |-> handler[h].file,
                      checksum |-> handler[h].file]),
           UNCHANGED <<worker, minted>>
    PROVE  Ownership'
  <1> DEFINE f == handler[h].file
             d == handler[h].doc
  <1>1. /\ f \in Files
        /\ \A e \in Docs : row[e].checksum # f
        /\ \A g \in Handlers \ {h} : handler[g].file # f
        /\ \A w \in Workers : worker[w].file # f
    BY DEF Ownership, FreshUploads
  <1>2. RowShape'
    BY <1>1 DEF Ownership, RowShape, RowConsistent, RowEffect
  <1>3. PathsMinted'
    BY <1>1 DEF Ownership, PathsMinted, HandlerEffect, RowEffect
  <1>4. FreshUploads'
    <2> SUFFICES ASSUME NEW g \in Handlers, Uploading(g)'
                 PROVE  /\ handler'[g].file \in Files
                        /\ \A e \in Docs : row'[e].checksum # handler'[g].file
                        /\ \A k \in Handlers \ {g} : handler'[k].file # handler'[g].file
                        /\ \A v \in Workers : worker'[v].file # handler'[g].file
      BY DEF FreshUploads
    <2>1. g # h /\ handler'[g] = handler[g] /\ Uploading(g)
      BY DEF Uploading, HandlerEffect
    <2> QED BY <1>1, <2>1 DEF Ownership, FreshUploads, HandlerEffect, RowEffect
  <1>5. OneOwner'
    BY <1>1 DEF Ownership, OneOwner, HandlerEffect, RowEffect
  <1>6. ReconcileHoldsNoFile'
    BY DEF Ownership, ReconcileHoldsNoFile
  <1>7. StoredFileReleased'
    BY <1>1 DEF Ownership, StoredFileReleased, RowEffect
  <1> QED BY <1>2, <1>3, <1>4, <1>5, <1>6, <1>7 DEF Ownership

LEMMA HandlerErases ==
    ASSUME Ownership, NEW h \in Handlers, NEW d, HandlerEffect(h, IdleHandler),
           RowEffect(d, [status |-> "deleted", path |-> None, checksum |-> None]),
           UNCHANGED <<worker, minted>>
    PROVE  Ownership'
  <1>1. RowShape'
    BY DEF Ownership, RowShape, RowConsistent, RowEffect
  <1>2. PathsMinted'
    BY DEF Ownership, PathsMinted, HandlerEffect, RowEffect, IdleHandler
  <1>3. FreshUploads'
    <2> SUFFICES ASSUME NEW g \in Handlers, Uploading(g)'
                 PROVE  /\ handler'[g].file \in Files
                        /\ \A e \in Docs : row'[e].checksum # handler'[g].file
                        /\ \A k \in Handlers \ {g} : handler'[k].file # handler'[g].file
                        /\ \A v \in Workers : worker'[v].file # handler'[g].file
      BY DEF FreshUploads
    <2>1. g # h /\ handler'[g] = handler[g] /\ Uploading(g)
      BY DEF Uploading, HandlerEffect, IdleHandler
    <2>2. \A k \in Handlers : handler'[k].file \in {None, handler[k].file}
      BY DEF HandlerEffect, IdleHandler
    <2>3. \A e \in Docs : row'[e].checksum \in {None, row[e].checksum}
      BY DEF RowEffect
    <2>9. /\ handler[g].file \in Files
          /\ \A e \in Docs : row[e].checksum # handler[g].file
          /\ \A k \in Handlers \ {g} : handler[k].file # handler[g].file
          /\ \A v \in Workers : worker[v].file # handler[g].file
      BY <2>1 DEF Ownership, FreshUploads
    <2> QED BY <2>1, <2>2, <2>3, <2>9
  <1>4. OneOwner'
    BY DEF Ownership, OneOwner, HandlerEffect, RowEffect, IdleHandler
  <1>5. ReconcileHoldsNoFile'
    BY DEF Ownership, ReconcileHoldsNoFile
  <1>6. StoredFileReleased'
    BY DEF Ownership, StoredFileReleased, RowEffect
  <1> QED BY <1>1, <1>2, <1>3, <1>4, <1>5, <1>6 DEF Ownership

LEMMA HandlerTakes ==
    ASSUME Ownership, NEW h \in Handlers, NEW r, NEW d \in Docs, HandlerEffect(h, r),
           r.pc = "remove", r.file = row[d].path, r.doc = d,
           row[d].status \in Statuses,
           UNCHANGED <<row, worker, minted>>
    PROVE  Ownership'
  <1>1. row[d].path \in {None, row[d].checksum}
    BY DEF Ownership, RowShape, RowConsistent, Statuses, Live
  <1>2. RowShape'
    BY DEF Ownership, RowShape, RowConsistent
  <1>3. PathsMinted'
    BY <1>1 DEF Ownership, PathsMinted, HandlerEffect
  <1>4. FreshUploads'
    <2> SUFFICES ASSUME NEW g \in Handlers, Uploading(g)'
                 PROVE  /\ handler'[g].file \in Files
                        /\ \A e \in Docs : row'[e].checksum # handler'[g].file
                        /\ \A k \in Handlers \ {g} : handler'[k].file # handler'[g].file
                        /\ \A v \in Workers : worker'[v].file # handler'[g].file
      BY DEF FreshUploads
    <2>1. g # h /\ handler'[g] = handler[g] /\ Uploading(g)
      BY DEF Uploading, HandlerEffect
    <2>2. \A k \in Handlers :
             handler'[k].file \in {None, row[d].checksum, handler[k].file}
      BY <1>1 DEF HandlerEffect
    <2>3. /\ handler[g].file \in Files
          /\ \A e \in Docs : row[e].checksum # handler[g].file
          /\ \A k \in Handlers \ {g} : handler[k].file # handler[g].file
          /\ \A v \in Workers : worker[v].file # handler[g].file
      BY <2>1 DEF Ownership, FreshUploads
    <2> QED BY <2>1, <2>2, <2>3
  <1>5. OneOwner'
    BY <1>1 DEF Ownership, OneOwner, HandlerEffect
  <1>6. ReconcileHoldsNoFile'
    BY DEF Ownership, ReconcileHoldsNoFile
  <1>7. StoredFileReleased'
    BY DEF Ownership, StoredFileReleased
  <1> QED BY <1>2, <1>3, <1>4, <1>5, <1>6, <1>7 DEF Ownership

\* The status of a row may change in the same step, with its path kept or cleared.
LEMMA WorkerMoves ==
    ASSUME Ownership, NEW w \in Workers, NEW r, WorkerEffect(w, r),
           \/ WorkerKeeps(w, r)
           \/ /\ r.pc = "reread" /\ r.file = worker[w].file /\ r.doc = worker[w].doc
              /\ row' = [row EXCEPT ![r.doc].status = "ready", ![r.doc].path = None],
           RowShape', row \in [Docs -> RowType],
           \A e \in Docs : row'[e].checksum = row[e].checksum,
           \A e \in Docs : row'[e].path \in {None, row[e].path},
           UNCHANGED <<handler, minted>>
    PROVE  Ownership'
  <1>1. \A v \in Workers :
           \/ worker'[v].file = None
           \/ worker'[v].file = worker[v].file /\ worker'[v].doc = worker[v].doc
    BY DEF WorkerEffect, WorkerKeeps
  <1>2. PathsMinted'
    BY <1>1 DEF Ownership, PathsMinted
  <1>3. FreshUploads'
    BY <1>1 DEF Ownership, FreshUploads, Uploading
  <1>4. OneOwner'
    BY <1>1 DEF Ownership, OneOwner
  <1>5. ReconcileHoldsNoFile'
    BY DEF Ownership, ReconcileHoldsNoFile, WorkerEffect, WorkerKeeps
  <1>6. StoredFileReleased'
    <2> SUFFICES ASSUME NEW v \in Workers, NEW e \in Docs,
                        worker'[v].pc \in {"reread", "unlink"}, row'[e].path # None
                 PROVE  row'[e].path # worker'[v].file
      BY DEF StoredFileReleased
    <2>1. row'[e].path = row[e].path /\ row[e].path = row[e].checksum
      BY DEF Ownership, RowShape, RowConsistent, RowType, Statuses, Live
    <2>2. CASE worker'[v].file = None
      BY <2>2
    <2>3. CASE worker[v].pc \in {"reread", "unlink"}
      BY <1>1, <2>1, <2>3 DEF Ownership, StoredFileReleased
    <2>4. CASE worker'[v].file # None /\ worker[v].pc \notin {"reread", "unlink"}
      <3>1. /\ v = w /\ worker'[v].file = worker[v].file
            /\ row' = [row EXCEPT ![worker[v].doc].status = "ready",
                                  ![worker[v].doc].path = None]
        BY <2>4 DEF WorkerEffect, WorkerKeeps
      <3>2. e # worker[v].doc
        BY <3>1 DEF RowType
      <3> QED BY <2>1, <2>4, <3>1, <3>2 DEF Ownership, OneOwner
    <2> QED BY <2>2, <2>3, <2>4
  <1> QED BY <1>2, <1>3, <1>4, <1>5, <1>6 DEF Ownership

LEMMA WorkerTakes ==
    ASSUME Ownership, NEW w \in Workers, NEW r, NEW d \in Docs, WorkerEffect(w, r),
           r.pc = "check", r.file = row[d].path, r.doc = d,
           row[d].status = "pending",
           UNCHANGED <<row, handler, minted>>
    PROVE  Ownership'
  <1>1. row[d].path = row[d].checksum
    BY DEF Ownership, RowShape, RowConsistent
  <1>2. RowShape'
    BY DEF Ownership, RowShape, RowConsistent
  <1>3. PathsMinted'
    BY <1>1 DEF Ownership, PathsMinted, WorkerEffect
  <1>4. \A v \in Workers : worker'[v].file \in {row[d].checksum, worker[v].file}
    BY <1>1 DEF WorkerEffect
  <1>5. FreshUploads'
    BY <1>4 DEF Ownership, FreshUploads, Uploading
  <1>6. OneOwner'
    BY <1>1 DEF Ownership, OneOwner, WorkerEffect
  <1>7. ReconcileHoldsNoFile'
    BY DEF Ownership, ReconcileHoldsNoFile, WorkerEffect
  <1>8. StoredFileReleased'
    BY DEF Ownership, StoredFileReleased, WorkerEffect
  <1> QED BY <1>2, <1>3, <1>5, <1>6, <1>7, <1>8 DEF Ownership

-----------------------------------------------------------------------------
(* The actions.                                                            *)

LEMMA HandlerGoesEffect ==
    ASSUME TypeOK, NEW h \in Handlers, NEW pc \in HandlerPcs \ {"create", "save"},
           HandlerGoes(h, pc)
    PROVE  \E r : /\ HandlerEffect(h, r) /\ HandlerKeeps(h, r)
                  /\ r.pc = pc /\ r.file = handler[h].file /\ r.doc = handler[h].doc
  <1> DEFINE r == [handler[h] EXCEPT !.pc = pc]
  <1>1. HandlerEffect(h, r)
    BY DEF TypeOK, HandlerGoes, HandlerEffect
  <1>2. r.pc = pc /\ r.file = handler[h].file /\ r.doc = handler[h].doc
    BY HandlerDoc DEF HandlerFields
  <1> HIDE DEF r
  <1> QED BY <1>1, <1>2 DEF HandlerKeeps

LEMMA GoEraseEffect ==
    ASSUME TypeOK, NEW h \in Handlers, GoErase(h)
    PROVE  \E r : /\ HandlerEffect(h, r) /\ HandlerKeeps(h, r)
                  /\ r.pc = "erase" /\ r.file = handler[h].file /\ r.doc = handler[h].doc
  <1> DEFINE n == Entries(handler[h].doc)
             r == [handler[h] EXCEPT !.pc = "erase", !.entries = n]
  <1>1. HandlerEffect(h, r)
    <2> HIDE DEF n
    <2>1. handler' = [handler EXCEPT ![h].pc = "erase", ![h].entries = n]
      BY DEF GoErase, n
    <2> QED BY <2>1 DEF TypeOK, HandlerEffect
  <1>2. r.pc = "erase" /\ r.file = handler[h].file /\ r.doc = handler[h].doc
    <2> HIDE DEF n
    <2> QED BY HandlerDoc DEF HandlerFields
  <1> HIDE DEF r
  <1> QED BY <1>1, <1>2 DEF HandlerKeeps

LEMMA EndRequestEffect ==
    ASSUME TypeOK, NEW h \in Handlers, EndRequest(h)
    PROVE  HandlerEffect(h, IdleHandler) /\ HandlerKeeps(h, IdleHandler)
  BY DEF TypeOK, EndRequest, HandlerEffect, HandlerKeeps, IdleHandler

LEMMA WorkerGoesEffect ==
    ASSUME TypeOK, NEW w \in Workers,
           NEW pc \in WorkerPcs \ {"idle", "scan", "take", "requeue"},
           WorkerGoes(w, pc),
           pc \in {"reread", "unlink"} => worker[w].pc \in {"reread", "unlink"}
    PROVE  \E r : WorkerEffect(w, r) /\ WorkerKeeps(w, r)
  <1> DEFINE r == [worker[w] EXCEPT !.pc = pc]
  <1>1. WorkerEffect(w, r)
    BY DEF TypeOK, WorkerGoes, WorkerEffect
  <1>2. r.pc = pc /\ r.file = worker[w].file /\ r.doc = worker[w].doc
    BY DEF TypeOK, WorkerType
  <1> HIDE DEF r
  <1> QED BY <1>1, <1>2 DEF WorkerKeeps

LEMMA EndTaskEffect ==
    ASSUME TypeOK, NEW w \in Workers, EndTask(w)
    PROVE  WorkerEffect(w, IdleWorker) /\ WorkerKeeps(w, IdleWorker)
  BY DEF TypeOK, EndTask, WorkerEffect, WorkerKeeps, IdleWorker

\* A step of a task that leaves the rows alone.
LEMMA WorkerMovesOnly ==
    ASSUME TypeOK, Ownership, NEW w \in Workers,
           \E r : WorkerEffect(w, r) /\ WorkerKeeps(w, r),
           UNCHANGED <<row, handler, minted>>
    PROVE  Ownership'
  <1>1. PICK r : WorkerEffect(w, r) /\ WorkerKeeps(w, r)
    OBVIOUS
  <1>2. RowShape'
    BY DEF Ownership, RowShape, RowConsistent
  <1>3. row' \in [Docs -> RowType]
    BY DEF TypeOK
  <1> QED BY <1>1, <1>2, <1>3, WorkerMoves

\* A step of a task that changes a status and keeps the path.
LEMMA WorkerMarks ==
    ASSUME TypeOK, Ownership, NEW w \in Workers, NEW d, NEW s \in {"pending", "failed"},
           \E r : WorkerEffect(w, r) /\ WorkerKeeps(w, r),
           row[d].status \in {"pending", "failed"},
           row' = [row EXCEPT ![d].status = s],
           UNCHANGED <<handler, minted>>
    PROVE  Ownership'
  <1>1. PICK r : WorkerEffect(w, r) /\ WorkerKeeps(w, r)
    OBVIOUS
  <1>2. row \in [Docs -> RowType]
    BY DEF TypeOK
  <1>3. \A e \in Docs :
           /\ row'[e].checksum = row[e].checksum /\ row'[e].path = row[e].path
           /\ row'[e].status = row[e].status
              \/ {row[e].status, row'[e].status} \subseteq {"pending", "failed"}
    BY DEF TypeOK, RowType
  <1>4. RowShape'
    BY <1>3 DEF Ownership, RowShape, RowConsistent
  <1>5. \A e \in Docs : row'[e].checksum = row[e].checksum
    BY <1>3
  <1>6. \A e \in Docs : row'[e].path \in {None, row[e].path}
    BY <1>3
  <1> QED BY <1>1, <1>2, <1>4, <1>5, <1>6, WorkerMoves

LEMMA OwnershipInit == Init => Ownership
  BY DEF Init, Ownership, RowShape, RowConsistent, PathsMinted, FreshUploads, Uploading,
         OneOwner, ReconcileHoldsNoFile, StoredFileReleased, IdleHandler, IdleWorker

LEMMA OwnershipClientRequest ==
    ASSUME TypeOK, Ownership, NEW h \in Handlers, ClientRequest(h)
    PROVE  Ownership'
  <1>1. PICK d \in Docs :
           \/ \E f \in Files : BeginUpload(h, d, f) \/ BeginReplace(h, d, f)
           \/ BeginDelete(h, d)
           \/ BeginDownload(h, d)
    BY DEF ClientRequest
  <1>2. ASSUME NEW f \in Files, BeginUpload(h, d, f) \/ BeginReplace(h, d, f)
        PROVE  Ownership'
    <2>1. \E r : /\ handler' = [handler EXCEPT ![h] = r]
                 /\ r.pc \in {"create", "save"} /\ r.file = f
      <3>1. CASE BeginUpload(h, d, f)
        <4> WITNESS [pc |-> "create", task |-> "upload", doc |-> d,
                     file |-> f, seen |-> "none", entries |-> 0]
        <4> QED BY <3>1 DEF BeginUpload
      <3>2. CASE BeginReplace(h, d, f)
        <4> WITNESS [pc |-> "save", task |-> "replace", doc |-> d,
                     file |-> f, seen |-> "ready", entries |-> 0]
        <4> QED BY <3>2 DEF BeginReplace
      <3> QED BY <1>2, <3>1, <3>2
    <2>4. PICK r : /\ handler' = [handler EXCEPT ![h] = r]
                   /\ r.pc \in {"create", "save"} /\ r.file = f
      BY <2>1
    <2>2. HandlerEffect(h, r)
      BY <2>4 DEF TypeOK, HandlerEffect
    <2>3. /\ f \notin minted /\ minted' = minted \cup {f}
          /\ UNCHANGED <<row, worker>>
      BY <1>2 DEF BeginUpload, BeginReplace, StageFile, db
    <2> QED BY <2>2, <2>3, <2>4, HandlerStages
  <1>3. CASE BeginDelete(h, d)
    <2> DEFINE r == [pc |-> "remove", task |-> "none", doc |-> d,
                     file |-> row[d].path, seen |-> row[d].status, entries |-> 0]
    <2>1. HandlerEffect(h, r)
      <3>1. handler' = [handler EXCEPT ![h] = r]
        BY <1>3 DEF BeginDelete
      <3> HIDE DEF r
      <3> QED BY <3>1 DEF TypeOK, HandlerEffect
    <2>2. row[d].status \in Statuses
      BY DEF TypeOK, RowType
    <2>3. UNCHANGED <<row, worker, minted>>
      BY <1>3 DEF BeginDelete, db, disk
    <2>4. r.pc = "remove" /\ r.file = row[d].path /\ r.doc = d
      OBVIOUS
    <2> HIDE DEF r
    <2> QED BY <2>1, <2>2, <2>3, <2>4, HandlerTakes
  <1>4. CASE BeginDownload(h, d)
    <2> DEFINE r == [pc |-> "link", task |-> "none", doc |-> d,
                     file |-> None, seen |-> "ready", entries |-> 0]
    <2>1. HandlerEffect(h, r) /\ HandlerKeeps(h, r)
      BY <1>4 DEF BeginDownload, TypeOK, HandlerEffect, HandlerKeeps
    <2>2. UNCHANGED <<row, worker, minted>>
      BY <1>4 DEF BeginDownload, db, disk
    <2> HIDE DEF r
    <2> QED BY <2>1, <2>2, HandlerMoves
  <1> QED BY <1>1, <1>2, <1>3, <1>4

LEMMA OwnershipHandlerStep ==
    ASSUME TypeOK, Ownership, NEW h \in Handlers, HandlerStep(h) \/ HandlerCrash(h)
    PROVE  Ownership'
  <1> DEFINE d == handler[h].doc
             f == handler[h].file
             r0 == [status |-> "pending", path |-> f, checksum |-> f]
  <1>1. {"enqueue", "publish", "erase"} \subseteq HandlerPcs \ {"create", "save"}
    BY DEF HandlerPcs
  \* A request that goes on or ends without touching a row.
  <1>2. ASSUME \/ EndRequest(h)
               \/ HandlerGoes(h, "publish")
               \/ GoErase(h),
               UNCHANGED <<row, worker, minted>>
        PROVE  Ownership'
    BY <1>1, <1>2, HandlerGoesEffect, GoEraseEffect, EndRequestEffect, HandlerMoves
  \* A request that commits its upload.
  <1>3. ASSUME Uploading(h), row' = [row EXCEPT ![d] = r0], HandlerGoes(h, "enqueue"),
               UNCHANGED <<worker, minted>>
        PROVE  Ownership'
    <2>1. RowEffect(d, r0)
      <3> HIDE DEF d, r0
      <3> QED BY <1>3 DEF TypeOK, RowEffect
    <2>2. PICK r : /\ HandlerEffect(h, r)
                   /\ r.pc = "enqueue" /\ r.file = handler[h].file /\ r.doc = handler[h].doc
      BY <1>1, <1>3, HandlerGoesEffect
    <2> QED BY <1>3, <2>1, <2>2, HandlerCommits
  <1>4. CASE CreateRow(h)
    BY <1>2, <1>3, <1>4 DEF CreateRow, Uploading, HandlerAt, db
  <1>5. CASE SaveReplacement(h)
    BY <1>2, <1>3, <1>5 DEF SaveReplacement, Uploading, HandlerAt, db
  <1>6. CASE Enqueue(h)
    BY <1>2, <1>6 DEF Enqueue, db
  <1>7. CASE PublishAccepted(h)
    BY <1>2, <1>7 DEF PublishAccepted, db, disk
  <1>8. CASE RemoveObject(h)
    BY <1>2, <1>8 DEF RemoveObject, db, disk
  <1>9. CASE RemoveStagedFile(h)
    BY <1>2, <1>9 DEF RemoveStagedFile, db
  <1>10. CASE EraseRow(h)
    <2> DEFINE gone == [status |-> "deleted", path |-> None, checksum |-> None]
    <2>1. CASE row' = [row EXCEPT ![d] = gone]
      <3>1. RowEffect(d, gone)
        <4> HIDE DEF d, gone
        <4> QED BY <2>1 DEF TypeOK, RowEffect
      <3>2. HandlerEffect(h, IdleHandler) /\ UNCHANGED <<worker, minted>>
        BY <1>10, EndRequestEffect DEF EraseRow, disk
      <3> QED BY <3>1, <3>2, HandlerErases
    <2>2. CASE UNCHANGED row
      BY <1>2, <1>10, <2>2 DEF EraseRow, disk
    <2> QED BY <1>10, <2>1, <2>2 DEF EraseRow
  <1>11. CASE RecordLink(h)
    BY <1>2, <1>11 DEF RecordLink, disk
  <1>12. CASE HandlerCrash(h)
    BY <1>2, <1>12 DEF HandlerCrash, db, disk
  <1> QED BY <1>4, <1>5, <1>6, <1>7, <1>8, <1>9, <1>10, <1>11, <1>12 DEF HandlerStep

LEMMA OwnershipTaskStep ==
    ASSUME TypeOK, Ownership, NEW w \in Workers, TaskStep(w)
    PROVE  Ownership'
  <1> DEFINE d == worker[w].doc
  <1>1. {"open", "put", "stat", "retry", "commit", "mark", "publish", "remark"}
           \subseteq WorkerPcs \ {"idle", "scan", "take", "requeue", "reread", "unlink"}
    BY DEF WorkerPcs
  \* A task that goes on or ends without touching a row.
  <1>2. ASSUME \/ EndTask(w)
               \/ \E pc \in {"open", "put", "stat", "retry", "commit", "mark", "publish"} :
                     WorkerGoes(w, pc),
               UNCHANGED <<row, handler, minted>>
        PROVE  Ownership'
    BY <1>1, <1>2, WorkerGoesEffect, EndTaskEffect, WorkerMovesOnly
  \* A reconciliation, which holds no file before or after the step.
  <1>3. ASSUME NEW r, worker' = [worker EXCEPT ![w] = r], r.file = None,
               UNCHANGED <<row, handler, minted>>
        PROVE  Ownership'
    <2>1. WorkerEffect(w, r) /\ WorkerKeeps(w, r)
      BY <1>3 DEF TypeOK, WorkerEffect, WorkerKeeps
    <2> QED BY <1>3, <2>1, WorkerMovesOnly
  <1>4. CASE CheckStaged(w)
    BY <1>2, <1>4 DEF CheckStaged, db, disk
  <1>5. CASE OpenStaged(w)
    BY <1>2, <1>5 DEF OpenStaged, db, disk
  <1>6. CASE PutObject(w)
    BY <1>2, <1>6 DEF PutObject, StorageFailed, db, disk
  <1>7. CASE StatObject(w)
    BY <1>2, <1>7 DEF StatObject, StorageFailed, db, disk
  <1>8. CASE Retry(w)
    BY <1>2, <1>8 DEF Retry, db, disk
  <1>9. CASE MarkReady(w)
    <2>1. CASE IsPending(d) /\ WorkerGoes(w, "reread")
               /\ row' = [row EXCEPT ![d].status = "ready", ![d].path = None]
      <3> DEFINE r == [worker[w] EXCEPT !.pc = "reread"]
      <3>1. WorkerEffect(w, r)
        BY <2>1 DEF TypeOK, WorkerGoes, WorkerEffect
      <3>2. r.pc = "reread" /\ r.file = worker[w].file /\ r.doc = worker[w].doc
        BY DEF TypeOK, WorkerType
      <3>3. row \in [Docs -> RowType]
        BY DEF TypeOK
      <3>4. \A e \in Docs :
               /\ row'[e].checksum = row[e].checksum
               /\ \/ row'[e].path = row[e].path /\ row'[e].status = row[e].status
                  \/ row[e].status = "pending" /\ row'[e].status = "ready"
                     /\ row'[e].path = None
        <4>1. row[d].status = "pending"
          BY <2>1 DEF IsPending
        <4> SUFFICES ASSUME NEW e \in Docs
                     PROVE  /\ row'[e].checksum = row[e].checksum
                            /\ \/ /\ row'[e].path = row[e].path
                                  /\ row'[e].status = row[e].status
                               \/ row[e].status = "pending" /\ row'[e].status = "ready"
                                  /\ row'[e].path = None
          OBVIOUS
        <4> HIDE DEF d
        <4>2. CASE e = d
          <5>1. row'[e] = [row[e] EXCEPT !.status = "ready", !.path = None]
            BY <2>1, <3>3, <4>2
          <5> QED BY <3>3, <4>1, <4>2, <5>1 DEF RowType
        <4>3. CASE e # d
          <5>1. row'[e] = row[e]
            BY <2>1, <3>3, <4>3
          <5> QED BY <5>1
        <4> QED BY <4>2, <4>3
      <3>5. RowShape'
        BY <3>4 DEF Ownership, RowShape, RowConsistent
      <3>6. \A e \in Docs : row'[e].checksum = row[e].checksum
        BY <3>4
      <3>7. \A e \in Docs : row'[e].path \in {None, row[e].path}
        BY <3>4
      <3>8. UNCHANGED <<handler, minted>>
        BY <1>9 DEF MarkReady, disk
      <3> HIDE DEF r
      <3> QED BY <2>1, <3>1, <3>2, <3>3, <3>5, <3>6, <3>7, <3>8, WorkerMoves
    <2>2. CASE EndTask(w) /\ UNCHANGED row
      BY <1>2, <1>9, <2>2 DEF MarkReady, disk
    <2> QED BY <1>9, <2>1, <2>2 DEF MarkReady
  <1>10. CASE Reread(w)
    <2>1. CASE worker' = [worker EXCEPT ![w].pc = "unlink", ![w].seen = StatusRead(d)]
      <3> DEFINE r == [worker[w] EXCEPT !.pc = "unlink", !.seen = StatusRead(d)]
      <3>1. WorkerEffect(w, r)
        BY <2>1 DEF TypeOK, WorkerEffect
      <3>2. r.pc = "unlink" /\ r.file = worker[w].file /\ r.doc = worker[w].doc
        BY DEF TypeOK, WorkerType
      <3>3. worker[w].pc = "reread" /\ UNCHANGED <<row, handler, minted>>
        BY <1>10 DEF Reread, WorkerAt, db, disk
      <3> HIDE DEF r
      <3>4. WorkerKeeps(w, r)
        BY <3>2, <3>3 DEF WorkerKeeps
      <3> QED BY <3>1, <3>3, <3>4, WorkerMovesOnly
    <2> QED BY <1>2, <1>10, <2>1 DEF Reread, db, disk
  <1>11. CASE Unlink(w)
    BY <1>2, <1>11 DEF Unlink, db
  <1>12. CASE PublishOutcome(w)
    BY <1>2, <1>12 DEF PublishOutcome, db, disk
  <1>13. CASE MarkFailed(w)
    <2>1. CASE IsPending(d) /\ WorkerGoes(w, "remark")
               /\ row' = [row EXCEPT ![d].status = "failed"]
      <3>1. \E r : WorkerEffect(w, r) /\ WorkerKeeps(w, r)
        BY <1>1, <2>1, WorkerGoesEffect
      <3>2. UNCHANGED <<handler, minted>>
        BY <1>13 DEF MarkFailed, disk
      <3> QED BY <2>1, <3>1, <3>2, WorkerMarks DEF IsPending
    <2> QED BY <1>2, <1>13, <2>1 DEF MarkFailed, disk
  <1>14. CASE RereadFailed(w)
    <2>1. CASE worker' = [worker EXCEPT ![w].pc = "publish", ![w].seen = StatusRead(d)]
      <3> DEFINE r == [worker[w] EXCEPT !.pc = "publish", !.seen = StatusRead(d)]
      <3>1. WorkerEffect(w, r)
        BY <2>1 DEF TypeOK, WorkerEffect
      <3>2. r.pc = "publish" /\ r.file = worker[w].file /\ r.doc = worker[w].doc
        BY DEF TypeOK, WorkerType
      <3> HIDE DEF r
      <3>3. WorkerKeeps(w, r)
        BY <3>2 DEF WorkerKeeps
      <3> QED BY <1>14, <3>1, <3>3, WorkerMovesOnly DEF RereadFailed, db, disk
    <2> QED BY <1>2, <1>14, <2>1 DEF RereadFailed, db, disk
  <1>15. CASE ReconcileNext(w)
    <2>1. worker[w].file = None /\ UNCHANGED <<row, handler, minted>>
      BY <1>15 DEF ReconcileNext, WorkerAt, Ownership, ReconcileHoldsNoFile, db, disk
    <2>2. \E r : worker' = [worker EXCEPT ![w] = r] /\ r.file = None
      <3>1. PICK e \in worker[w].todo :
               \/ worker' = [worker EXCEPT ![w].pc = "take", ![w].doc = e[1],
                                           ![w].todo = @ \ {e}]
               \/ worker' = [worker EXCEPT ![w].todo = @ \ {e}]
        BY <1>15 DEF ReconcileNext
      <3>2. CASE worker' = [worker EXCEPT ![w].pc = "take", ![w].doc = e[1],
                                          ![w].todo = @ \ {e}]
        <4> WITNESS [worker[w] EXCEPT !.pc = "take", !.doc = e[1], !.todo = @ \ {e}]
        <4> QED BY <2>1, <3>2 DEF TypeOK, WorkerType
      <3>3. CASE worker' = [worker EXCEPT ![w].todo = @ \ {e}]
        <4> WITNESS [worker[w] EXCEPT !.todo = @ \ {e}]
        <4> QED BY <2>1, <3>3 DEF TypeOK, WorkerType
      <3> QED BY <3>1, <3>2, <3>3
    <2> QED BY <1>3, <2>1, <2>2
  <1>16. CASE TakeFailed(w)
    <2>1. worker[w].file = None /\ UNCHANGED <<handler, minted>>
      BY <1>16 DEF TakeFailed, WorkerAt, Ownership, ReconcileHoldsNoFile, disk
    <2>2. CASE IsFailed(d) /\ row' = [row EXCEPT ![d].status = "pending"]
               /\ WorkerGoes(w, "requeue")
      <3> DEFINE r == [worker[w] EXCEPT !.pc = "requeue"]
      <3>1. WorkerEffect(w, r) /\ WorkerKeeps(w, r)
        BY <2>1, <2>2 DEF TypeOK, WorkerType, WorkerGoes, WorkerEffect, WorkerKeeps
      <3> HIDE DEF r
      <3> QED BY <2>1, <2>2, <3>1, WorkerMarks DEF IsFailed
    <2>3. CASE worker' = [worker EXCEPT ![w].pc = "scan", ![w].doc = None]
               /\ UNCHANGED row
      <3> DEFINE r == [worker[w] EXCEPT !.pc = "scan", !.doc = None]
      <3>1. worker' = [worker EXCEPT ![w] = r] /\ r.file = None
        BY <2>1, <2>3 DEF TypeOK, WorkerType
      <3> HIDE DEF r
      <3> QED BY <1>3, <2>1, <2>3, <3>1
    <2> QED BY <1>16, <2>2, <2>3 DEF TakeFailed
  <1>17. CASE Requeue(w)
    <2>1. worker[w].file = None /\ UNCHANGED <<row, handler, minted>>
      BY <1>17 DEF Requeue, WorkerAt, Ownership, ReconcileHoldsNoFile, db, disk
    <2>2. CASE worker' = [worker EXCEPT ![w].pc = "scan", ![w].doc = None]
      <3> DEFINE r == [worker[w] EXCEPT !.pc = "scan", !.doc = None]
      <3>1. worker' = [worker EXCEPT ![w] = r] /\ r.file = None
        BY <2>1, <2>2 DEF TypeOK, WorkerType
      <3> HIDE DEF r
      <3> QED BY <1>3, <2>1, <3>1
    <2> QED BY <1>2, <1>17, <2>1, <2>2 DEF Requeue
  <1>18. CASE FinishReconcile(w)
    BY <1>2, <1>18 DEF FinishReconcile, db, disk
  <1> QED BY <1>4, <1>5, <1>6, <1>7, <1>8, <1>9, <1>10, <1>11, <1>12, <1>13, <1>14,
             <1>15, <1>16, <1>17, <1>18 DEF TaskStep

LEMMA OwnershipWorkerEvent ==
    ASSUME TypeOK, Ownership, NEW w \in Workers,
           \/ WorkerDatabaseError(w)
           \/ WorkerCrash(w)
           \/ Redeliver(w)
           \/ BeginReconcile(w)
           \/ \E m \in Messages : Deliver(w, m)
    PROVE  Ownership'
  <1>1. ASSUME EndTask(w), UNCHANGED <<row, handler, minted>>
        PROVE  Ownership'
    BY <1>1, EndTaskEffect, WorkerMovesOnly
  <1>2. ASSUME UNCHANGED <<row, handler, minted, worker>>
        PROVE  Ownership'
    BY <1>2 DEF Ownership, RowShape, RowConsistent, PathsMinted, FreshUploads, Uploading,
                OneOwner, ReconcileHoldsNoFile, StoredFileReleased
  <1>3. CASE WorkerDatabaseError(w)
    BY <1>1, <1>3 DEF WorkerDatabaseError, db, disk
  <1>4. CASE WorkerCrash(w)
    BY <1>1, <1>4 DEF WorkerCrash, db, disk
  <1>5. CASE Redeliver(w)
    BY <1>2, <1>5 DEF Redeliver, db, disk
  <1>6. CASE BeginReconcile(w)
    <2> DEFINE r == [IdleWorker EXCEPT !.pc = "scan", !.task = "reconcile",
                                       !.todo = FailedUploads]
    <2>1. worker' = [worker EXCEPT ![w] = r] /\ UNCHANGED <<row, handler, minted>>
      BY <1>6 DEF BeginReconcile, db, disk
    <2>2. r.file = None
      BY DEF IdleWorker
    <2> HIDE DEF r
    <2>3. WorkerEffect(w, r) /\ WorkerKeeps(w, r)
      BY <2>1, <2>2 DEF TypeOK, WorkerEffect, WorkerKeeps
    <2> QED BY <2>1, <2>3, WorkerMovesOnly
  <1>7. ASSUME NEW m \in Messages, Deliver(w, m) PROVE Ownership'
    <2>1. UNCHANGED <<row, handler, minted>> /\ m.doc \in Docs
      BY <1>7 DEF Deliver, Messages, db, disk
    <2>2. CASE UNCHANGED worker
      BY <1>2, <2>1, <2>2
    <2>3. CASE worker' # worker
      <3> DEFINE r == [pc |-> "check", task |-> m.task, doc |-> m.doc,
                       retries |-> m.retries, file |-> row[m.doc].path,
                       seen |-> "pending", todo |-> {}]
      <3>1. worker' = [worker EXCEPT ![w] = r] /\ row[m.doc].status = "pending"
        BY <1>7, <2>3 DEF Deliver, IsPending
      <3>2. r.pc = "check" /\ r.file = row[m.doc].path /\ r.doc = m.doc
        OBVIOUS
      <3> HIDE DEF r
      <3>3. WorkerEffect(w, r)
        BY <3>1 DEF TypeOK, WorkerEffect
      <3> QED BY <2>1, <3>1, <3>2, <3>3, WorkerTakes
    <2> QED BY <2>2, <2>3
  <1> QED BY <1>3, <1>4, <1>5, <1>6, <1>7

LEMMA OwnershipStep == TypeOK /\ Ownership /\ [Next]_vars => Ownership'
  <1> SUFFICES ASSUME TypeOK, Ownership, [Next]_vars PROVE Ownership'
    OBVIOUS
  <1>1. CASE UNCHANGED vars
    BY <1>1 DEF vars, Ownership, RowShape, RowConsistent, PathsMinted, FreshUploads,
                Uploading, OneOwner, ReconcileHoldsNoFile, StoredFileReleased
  <1>2. CASE Next
    BY <1>2, OwnershipClientRequest, OwnershipHandlerStep, OwnershipTaskStep,
       OwnershipWorkerEvent DEF Next, TakeMessage, StartReconcile
  <1> QED BY <1>1, <1>2

\* A staged file belongs to one document, in every reachable state.
THEOREM OwnershipCorrect == Spec => []Ownership
  <1>1. Init => TypeOK /\ Ownership
    BY InitType, OwnershipInit
  <1>2. TypeOK /\ Ownership /\ [Next]_vars => (TypeOK /\ Ownership)'
    BY StepType, OwnershipStep
  <1> QED BY <1>1, <1>2, PTL DEF Spec

\* The path, status and checksum of a row always come from one upload.
THEOREM RowsConsistent == Spec => []RowConsistent
  <1>1. Ownership => RowConsistent
    BY DEF Ownership, RowShape
  <1> QED BY <1>1, OwnershipCorrect, PTL

-----------------------------------------------------------------------------
(* The staged file of a row is kept.                                       *)

FileKept ==
    \A d \in Docs :
        row[d].path \in staged /\ row'[d].path = row[d].path =>
            row[d].path \in staged' \/ MayRemoveFileOf(d)

LEMMA FileKeptStep == TypeOK /\ Ownership /\ [Next]_vars => FileKept
  <1> SUFFICES ASSUME TypeOK, Ownership, [Next]_vars, NEW d \in Docs,
                      row[d].path \in staged, row'[d].path = row[d].path,
                      row[d].path \notin staged'
               PROVE  MayRemoveFileOf(d)
    BY DEF FileKept
  <1> DEFINE f == row[d].path
  <1>1. f \in Files /\ f = row[d].checksum
    BY DEF TypeOK, RowType, Statuses, Live, Ownership, RowShape, RowConsistent
  <1>2. ASSUME NEW h \in Handlers, staged' = staged \ {handler[h].file}
        PROVE  MayRemoveFileOf(d) \/ handler[h].pc \notin {"remove", "enqueue"}
    <2>1. handler[h].file = f
      BY <1>2
    <2>2. handler[h].doc = d
      BY <1>1, <2>1 DEF Ownership, OneOwner
    <2> QED BY <2>2 DEF MayRemoveFileOf
  <1>3. ASSUME NEW h \in Handlers, staged' = staged \ {handler[h].file}
        PROVE  ~Uploading(h)
    <2>1. handler[h].file = f
      BY <1>3
    <2> QED BY <1>1, <2>1 DEF Ownership, FreshUploads
  <1>4. ASSUME NEW h \in Handlers, HandlerStep(h) PROVE MayRemoveFileOf(d)
    <2>1. \/ CreateRow(h) \/ SaveReplacement(h) \/ Enqueue(h) \/ RemoveStagedFile(h)
      BY <1>4, f \in staged, f \notin staged'
      DEF HandlerStep, PublishAccepted, RemoveObject, EraseRow, RecordLink, disk
    <2>2. staged' = staged \ {handler[h].file}
      BY <2>1, f \in staged, f \notin staged'
      DEF CreateRow, SaveReplacement, Enqueue, RemoveStagedFile, DeleteLocalFile
    <2>3. handler[h].pc \in {"create", "save", "enqueue", "remove"}
      BY <2>1 DEF CreateRow, SaveReplacement, Enqueue, RemoveStagedFile, HandlerAt
    <2> QED BY <1>2, <1>3, <2>2, <2>3 DEF Uploading
  <1>5. ASSUME NEW w \in Workers, Unlink(w) PROVE FALSE
    <2>1. worker[w].file = f
      BY <1>5 DEF Unlink, DeleteLocalFile, StoredFile
    <2>2. worker[w].pc = "unlink"
      BY <1>5 DEF Unlink, WorkerAt
    <2> QED BY <1>1, <2>1, <2>2 DEF Ownership, StoredFileReleased
  <1>6. ASSUME NEW w \in Workers, TaskStep(w) PROVE Unlink(w)
    BY <1>6, f \in staged, f \notin staged'
    DEF TaskStep, CheckStaged, OpenStaged, PutObject, StatObject, Retry, MarkReady, Reread,
        PublishOutcome, MarkFailed, RereadFailed, ReconcileNext, TakeFailed, Requeue,
        FinishReconcile, disk
  <1>7. ASSUME NEW h \in Handlers, ClientRequest(h) \/ HandlerCrash(h) PROVE FALSE
    BY <1>7, f \in staged, f \notin staged'
    DEF ClientRequest, BeginUpload, BeginReplace, BeginDelete, BeginDownload, StageFile,
        HandlerCrash, disk
  <1>8. ASSUME NEW w \in Workers,
               \/ WorkerDatabaseError(w)
               \/ WorkerCrash(w)
               \/ Redeliver(w)
               \/ BeginReconcile(w)
               \/ \E m \in Messages : Deliver(w, m)
        PROVE  FALSE
    BY <1>8, f \in staged, f \notin staged'
    DEF WorkerDatabaseError, WorkerCrash, Redeliver, BeginReconcile, Deliver, disk
  <1>9. ~UNCHANGED vars
    BY f \in staged, f \notin staged' DEF vars
  <1> QED BY <1>4, <1>5, <1>6, <1>7, <1>8, <1>9 DEF Next, TakeMessage, StartReconcile

\* No worker, and no request for another document or without a commit, removes a
\* staged file that a row points to: whatever is redelivered, retried or replaced.
THEOREM StagedFilesKept == Spec => StagedFileKept
  <1>1. TypeOK /\ Ownership /\ [Next]_vars => [FileKept]_vars
    BY FileKeptStep
  <1>2. [][FileKept]_vars => StagedFileKept
    BY DEF FileKept, StagedFileKept
  <1>3. Spec => [][FileKept]_vars
    BY <1>1, TypeCorrect, OwnershipCorrect, PTL DEF Spec
  <1> QED BY <1>2, <1>3, PTL

=============================================================================
