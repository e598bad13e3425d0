---------------------------- MODULE DocumentTypes ----------------------------
(***************************************************************************)
(* Document types and the requests that read, check and use them:          *)
(* document/serializers.py, the views on types and documents, the          *)
(* permissions of the back office, and seed_document_types, which runs at  *)
(* every start of a container.                                             *)
(*                                                                         *)
(* A request reads a type several times, each time in a query of its own:  *)
(* for its permission, for its validation, and, through the foreign key,   *)
(* when it is committed.  One action is one query or one transaction.      *)
(* What DocumentService does with the file is left out.                    *)
(***************************************************************************)
EXTENDS Naturals, UploadValidation, Roles

CONSTANTS
    Types,       \* rows of DocumentType, each with its primary key
    Docs,        \* documents
    Clients,     \* requests that run at the same time
    Seeders,     \* containers that run seed_document_types when they start
    None,        \* no type
    Actors,      \* for each request, the roles its user may have
    Bodies,      \* bodies of POST and PUT requests on types
    Uploads,     \* files
    InitTypes    \* the records a type may have initially

ASSUME NoneAssumption == None \notin Types \cup Docs
ASSUME ActorsAreRoles == Actors \in [Clients -> SUBSET (RoleNames \cup {"owner"})]

VARIABLES
    dtype,       \* the DocumentType rows
    document,    \* the Document rows: type, content type, whether an editor wrote it
    request,     \* what each request is doing
    seeder       \* what each run of the seed command is doing

vars == <<dtype, document, request, seeder>>

-----------------------------------------------------------------------------
SeedCode == "profile"

\* INITIAL_DOCUMENT_TYPES: both have the same extensions and content types.
SeedRecord ==
    [present |-> TRUE, code |-> SeedCode,
     extensions |-> {"jpg", "jpeg", "png", "webp"},
     content_types |-> IMAGE_CONTENT_TYPES, max_size |-> 2, is_active |-> TRUE]

NoType ==
    [present |-> FALSE, code |-> "none", extensions |-> {}, content_types |-> {},
     max_size |-> 0, is_active |-> FALSE]

\* A row that was deleted: its key is not used again.
DeletedType == [NoType EXCEPT !.code = "deleted"]

NoDocument == [type |-> None, content_type |-> "none", by_editor |-> FALSE, raced |-> FALSE]

DeletedDocument == [NoDocument EXCEPT !.content_type = "deleted"]

NoFile == [suffix |-> "", size |-> 0, signature |-> NoSignature, text |-> FALSE]

\* images_only: the user has the permissions of an editor only.  read: a type as the
\* request has read it.  raced: a type that the request has read or named was changed
\* since.
Idle ==
    [pc |-> "idle", images_only |-> FALSE, doc |-> None, type |-> None, named |-> FALSE,
     file |-> NoFile, read |-> NoType, raced |-> FALSE]

Init ==
    /\ dtype \in [Types -> InitTypes]
    /\ \A t, u \in Types :
          dtype[t].present /\ dtype[u].present /\ dtype[t].code = dtype[u].code => t = u
    /\ document = [d \in Docs |-> NoDocument]
    /\ request = [c \in Clients |-> Idle]
    /\ seeder = [k \in Seeders |-> [pc |-> "idle", type |-> None]]

-----------------------------------------------------------------------------
Exists(d) == document[d].type # None
Used(t) == \E d \in Docs : document[d].type = t
At(c, pc) == request[c].pc = pc
Goes(c, pc) == request' = [request EXCEPT ![c].pc = pc]
End(c) == request' = [request EXCEPT ![c] = Idle]
CodeFree(code, t) == \A u \in Types \ {t} : dtype[u].present => dtype[u].code # code

\* The foreign key of Document, on_delete=PROTECT: checked at the commit.
ReferenceHolds(t) == dtype[t].present

\* Mutant: the querysets select inactive types too.
ActiveType_Any(t) == dtype[t].present

\* The querysets DocumentType.objects.filter(is_active=True).
ActiveType(t) == dtype[t].present /\ dtype[t].is_active

\* Row t becomes r: every request that writes a document with it has been raced.
ChangeType(t, r, requests) ==
    /\ dtype' = [dtype EXCEPT ![t] = r]
    /\ request' = [c \in Clients |->
                     [requests[c] EXCEPT
                        !.raced = @ \/ (requests[c].type = t
                                           /\ requests[c].pc \in {"permit", "validate", "save"})]]

-----------------------------------------------------------------------------
(* DocumentTypeSerializer.                                                 *)

\* Mutant: an extension need not have one of its content types.
ValidType_Uncovered(r) ==
    /\ r.extensions # {}
    /\ r.max_size > 0
    /\ r.content_types \subseteq ContentTypesForExtensions(r.extensions)

\* Mutant: a type may have no extension.
ValidType_NoExtension(r) ==
    /\ r.max_size > 0
    /\ r.content_types \subseteq ContentTypesForExtensions(r.extensions)

\* validate_allowed_extensions, validate_max_size_bytes and validate.
ValidType(r) ==
    /\ r.extensions # {}
    /\ r.max_size > 0
    /\ r.content_types # {} =>
         /\ r.content_types \subseteq ContentTypesForExtensions(r.extensions)
         /\ \A e \in r.extensions : EXTENSION_CONTENT_TYPES[e] \cap r.content_types # {}

Codes == {b.code : b \in Bodies} \cup {t.code : t \in InitTypes} \cup {SeedCode}

TypeRow ==
    [present : {TRUE}, code : Codes, extensions : (SUBSET AvailableExtensions) \ {{}},
     content_types : SUBSET AvailableContentTypes, max_size : Nat \ {0},
     is_active : BOOLEAN]

\* The serializer knows the extensions, and the rows there are were valid once.
ASSUME BodiesAssumption ==
    \A b \in Bodies :
        /\ b.extensions \subseteq AvailableExtensions
        /\ b.max_size \in Nat
        /\ b.is_active \in BOOLEAN
ASSUME InitTypesAssumption ==
    \A r \in InitTypes : r = NoType \/ (r \in TypeRow /\ ValidType(r))

\* The fields of a body over those of row r; content types may be left out.
Merged(r, b) ==
    [present |-> TRUE, code |-> b.code, extensions |-> b.extensions,
     content_types |-> IF b.names_content_types THEN b.content_types ELSE r.content_types,
     max_size |-> b.max_size, is_active |-> b.is_active]

\* DocumentTypePermission.
MayManageTypes(c, action) == \E r \in Actors[c] : HasPerm(r, action)

\* POST /documents/types/: a code that is taken is refused.
CreateType(c, t, b) ==
    /\ At(c, "idle")
    /\ MayManageTypes(c, "document.add_documenttype")
    /\ dtype[t] = NoType
    /\ ValidType(Merged(NoType, b))
    /\ CodeFree(b.code, t)
    /\ ChangeType(t, Merged(NoType, b), request)
    /\ UNCHANGED <<document, seeder>>

\* PUT /documents/types/<id>/: the body is merged with the row that was read and
\* the result is validated.
BeginUpdateType(c, t, b) ==
    /\ At(c, "idle")
    /\ MayManageTypes(c, "document.change_documenttype")
    /\ dtype[t].present
    /\ ValidType(Merged(dtype[t], b))
    /\ request' = [request EXCEPT ![c] =
                     [Idle EXCEPT !.pc = "put_type", !.type = t,
                                  !.read = Merged(dtype[t], b)]]
    /\ UNCHANGED <<dtype, document, seeder>>

\* save() writes every field, and inserts the row again when it has been deleted.
\* A code that has been taken since is refused by the database.
SaveType(c) ==
    LET t == request[c].type
        r == request[c].read
    IN
    /\ At(c, "put_type")
    /\ IF CodeFree(r.code, t)
       THEN ChangeType(t, r, [request EXCEPT ![c] = Idle])
       ELSE End(c) /\ UNCHANGED dtype
    /\ UNCHANGED <<document, seeder>>

\* DELETE /documents/types/<id>/: the collector looks for documents first.
BeginDeleteType(c, t) ==
    /\ At(c, "idle")
    /\ MayManageTypes(c, "document.delete_documenttype")
    /\ dtype[t].present
    /\ ~Used(t)
    /\ request' = [request EXCEPT ![c] = [Idle EXCEPT !.pc = "drop_type", !.type = t]]
    /\ UNCHANGED <<dtype, document, seeder>>

\* Mutant: the database does not check the foreign keys of other rows.
NotReferenced_Unchecked(t) == TRUE

NotReferenced(t) == ~Used(t)

DropType(c) ==
    LET t == request[c].type IN
    /\ At(c, "drop_type")
    /\ IF dtype[t].present /\ NotReferenced(t)
       THEN ChangeType(t, DeletedType, [request EXCEPT ![c] = Idle])
       ELSE End(c) /\ UNCHANGED dtype
    /\ UNCHANGED <<document, seeder>>

-----------------------------------------------------------------------------
(* POST /documents/ and POST /backoffice/documents/.                       *)

\* The user may do action on documents of any type.
MayWriteAny(r, action) == r = "owner" \/ HasPerm(r, action)

\* BackofficeDocumentPermission._can_upload_document; the document API asks only
\* that the user is authenticated.
MayUpload(r, t) ==
    \/ MayWriteAny(r, "document.add_document")
    \/ /\ HasPerm(r, "document.add_image_document")
       /\ ActiveType(t)
       /\ IsImageDocumentType(dtype[t])

BeginUpload(c, r, t, f) ==
    /\ At(c, "idle")
    /\ dtype[t] # NoType
    /\ MayUpload(r, t)
    /\ request' = [request EXCEPT ![c] =
                     [Idle EXCEPT !.pc = "validate", !.type = t, !.named = TRUE, !.file = f,
                                  !.images_only = ~MayWriteAny(r, "document.add_document")]]
    /\ UNCHANGED <<dtype, document, seeder>>

\* DocumentUploadSerializer and DocumentReplaceSerializer: a type in the request is
\* read again and must be active; a replacement without one is validated against the
\* type that was read with the document.
Validate(c) ==
    LET t == request[c].type
        r == IF request[c].named THEN dtype[t] ELSE request[c].read
    IN
    /\ At(c, "validate")
    /\ IF (request[c].named => ActiveType(t)) /\ Accepts(request[c].file, r)
       THEN Goes(c, "save")
       ELSE End(c)
    /\ UNCHANGED <<dtype, document, seeder>>

Written(c) ==
    [type |-> request[c].type, content_type |-> Detected(request[c].file).content_type,
     by_editor |-> request[c].images_only, raced |-> request[c].raced]

\* DocumentService.upload_document.
SaveUpload(c) ==
    /\ At(c, "save")
    /\ request[c].doc = None
    /\ \/ /\ ReferenceHolds(request[c].type)
          /\ \E d \in Docs :
               document[d] = NoDocument /\ document' = [document EXCEPT ![d] = Written(c)]
       \/ ~ReferenceHolds(request[c].type) /\ UNCHANGED document
    /\ End(c)
    /\ UNCHANGED <<dtype, seeder>>

-----------------------------------------------------------------------------
(* PUT /documents/<id>/ and PUT /backoffice/documents/<id>/.               *)

MayReplace(r) ==
    \/ MayWriteAny(r, "document.change_document")
    \/ HasPerm(r, "document.change_image_document")

\* The document is read with its type.
BeginReplace(c, r, d, f) ==
    /\ At(c, "idle")
    /\ Exists(d)
    /\ MayReplace(r)
    /\ \E named \in BOOLEAN :
         request' = [request EXCEPT ![c] =
                       [pc |-> "permit", doc |-> d, type |-> document[d].type,
                        images_only |-> ~MayWriteAny(r, "document.change_document"),
                        named |-> named, file |-> f, read |-> dtype[document[d].type],
                        raced |-> FALSE]]
    /\ UNCHANGED <<dtype, document, seeder>>

\* Mutant: only the type the document has is looked at.
ImageChange_CurrentOnly(current, requested) == IsImageDocumentType(current)

ImageChange(current, requested) ==
    IsImageDocumentType(current) /\ IsImageDocumentType(requested)

\* BackofficeDocumentPermission._can_change_document: the type in the request is
\* read now; None if there is no such active type.
MayChange(c, t) ==
    \/ ~request[c].images_only
    \/ ImageChange(request[c].read,
                   IF ~request[c].named THEN request[c].read
                   ELSE IF ActiveType(t) THEN dtype[t] ELSE NoType)

PermitReplace(c) ==
    /\ At(c, "permit")
    /\ \E t \in IF request[c].named THEN {u \in Types : dtype[u] # NoType}
                                    ELSE {request[c].type} :
         IF MayChange(c, t)
         THEN request' = [request EXCEPT ![c].pc = "validate", ![c].type = t,
                                         ![c].read = IF request[c].named THEN NoType ELSE @]
         ELSE End(c)
    /\ UNCHANGED <<dtype, document, seeder>>

\* DocumentService.replace_document: refused if the document was not ready when it
\* was read, or is gone.
SaveReplacement(c) ==
    LET d == request[c].doc IN
    /\ At(c, "save")
    /\ d # None
    /\ \/ /\ Exists(d)
          /\ ReferenceHolds(request[c].type)
          /\ document' = [document EXCEPT ![d] = Written(c)]
       \/ UNCHANGED document
    /\ End(c)
    /\ UNCHANGED <<dtype, seeder>>

\* DELETE of a document, by its owner or an administrator.
EraseDocument(c, d) ==
    /\ At(c, "idle")
    /\ Exists(d)
    /\ \E r \in Actors[c] : MayWriteAny(r, "document.delete_document")
    /\ document' = [document EXCEPT ![d] = DeletedDocument]
    /\ UNCHANGED <<dtype, request, seeder>>

-----------------------------------------------------------------------------
(* seed_document_types.                                                    *)

SeederGoes(k, pc, t) == seeder' = [seeder EXCEPT ![k] = [pc |-> pc, type |-> t]]

NeedsContentTypes(t) == dtype[t].content_types = {}

\* get_or_create: a type that has no content types will be given some.
SeedGet(k) ==
    /\ seeder[k].pc = "idle"
    /\ \/ \E t \in Types :
            /\ dtype[t].present /\ dtype[t].code = SeedCode
            /\ NeedsContentTypes(t)
            /\ SeederGoes(k, "fill", t)
       \/ CodeFree(SeedCode, None) /\ SeederGoes(k, "insert", None)
    /\ UNCHANGED <<dtype, document, request>>

\* A row that another process has inserted meanwhile is read again.
SeedInsert(k) ==
    /\ seeder[k].pc = "insert"
    /\ \/ /\ CodeFree(SeedCode, None)
          /\ \E t \in Types : dtype[t] = NoType /\ ChangeType(t, SeedRecord, request)
       \/ ~CodeFree(SeedCode, None) /\ UNCHANGED <<dtype, request>>
    /\ SeederGoes(k, "idle", None)
    /\ UNCHANGED document

\* save(update_fields=...): the other fields are those of the row, and a row that is
\* gone makes the command fail.
SeedFill(k) ==
    LET t == seeder[k].type IN
    /\ seeder[k].pc = "fill"
    /\ IF dtype[t].present
       THEN ChangeType(t, [dtype[t] EXCEPT !.content_types = SeedRecord.content_types],
                       request)
       ELSE UNCHANGED <<dtype, request>>
    /\ SeederGoes(k, "idle", None)
    /\ UNCHANGED document

-----------------------------------------------------------------------------
ClientStep(c) ==
    \/ \E t \in Types, b \in Bodies : CreateType(c, t, b) \/ BeginUpdateType(c, t, b)
    \/ \E t \in Types : BeginDeleteType(c, t)
    \/ \E r \in Actors[c], t \in Types, f \in Uploads : BeginUpload(c, r, t, f)
    \/ \E r \in Actors[c], d \in Docs, f \in Uploads : BeginReplace(c, r, d, f)
    \/ \E d \in Docs : EraseDocument(c, d)
    \/ SaveType(c)
    \/ DropType(c)
    \/ PermitReplace(c)
    \/ Validate(c)
    \/ SaveUpload(c)
    \/ SaveReplacement(c)

SeedStep(k) == SeedGet(k) \/ SeedInsert(k) \/ SeedFill(k)

Next ==
    \/ \E c \in Clients : ClientStep(c)
    \/ \E k \in Seeders : SeedStep(k)

Spec == Init /\ [][Next]_vars

-----------------------------------------------------------------------------
(* Correctness.                                                            *)

\* Every row, whoever wrote it last, has extensions and a size a file can have, and
\* every document a content type the service knows.
TypeOK ==
    /\ \A t \in Types : dtype[t] \in TypeRow \cup {NoType, DeletedType}
    /\ \A d \in Docs :
          \/ document[d] \in {NoDocument, DeletedDocument}
          \/ document[d] \in [type : Types, content_type : AvailableContentTypes,
                              by_editor : BOOLEAN, raced : BOOLEAN]
    /\ \A c \in Clients : request[c].type \in Types \cup {None}

\* Files with extension e, one for each thing their first bytes can be.
Samples(e) ==
    {[suffix |-> e, size |-> 1, signature |-> s, text |-> TRUE] :
        s \in Signatures \cup {NoSignature}}

UsableFor(t, e) == \E f \in Samples(e) : Accepts(f, dtype[t])

\* A type accepts no file whose content is not what its extension says, whatever
\* combination of extensions and content types it was given.
AcceptedFilesGenuine ==
    \A t \in Types : \A e \in dtype[t].extensions : \A f \in Samples(e) :
        Accepts(f, dtype[t]) => Detected(f).content_type \in EXTENSION_CONTENT_TYPES[e]

\* serializers.py:111: each extension of a type has a content type, so that a file
\* with this extension can be uploaded: whatever updates race on the type.
TypesUsable ==
    \A t \in Types : dtype[t].present => \A e \in dtype[t].extensions : UsableFor(t, e)

\* The seed command is the only writer that can break this, and it leaves the
\* content types of the initial types.
TypesUsableUnlessSeeded ==
    \A t \in Types :
        \/ dtype[t].present => \A e \in dtype[t].extensions : UsableFor(t, e)
        \/ dtype[t].content_types = SeedRecord.content_types

\* No document is left without its type, although the deletion of a type looks for
\* documents before it deletes, and an upload for the type before it inserts.
DocumentsTyped == \A d \in Docs : Exists(d) => dtype[document[d].type].present

\* README: an editor writes image documents only.  It is so whenever no type the
\* request uses changes between its permission and its commit, whatever happens to
\* the document in between.
EditorsStoreImages ==
    \A d \in Docs :
        document[d].by_editor /\ ~document[d].raced =>
            document[d].content_type \in IMAGE_CONTENT_TYPES

\* A document that is created or replaced fits its type as it is at the commit, and
\* no document is created with an inactive type, unless the type has changed since
\* the request read it.
WritesFitType ==
    [][\A d \in Docs :
          LET new == document'[d] IN
          new # document[d] /\ new.type # None /\ ~new.raced =>
              /\ new.content_type \in DocumentTypeContentTypes(dtype[new.type])
              /\ ~Exists(d) => dtype[new.type].is_active]_vars

=============================================================================
